------------------------- MODULE EdenGameBlock_proofs -------------------------
(***************************************************************************)
(* Proofs about EdenGameBlock: who signed a block had a stake, a block     *)
(* mined undisturbed weighs what its signers had staked, and every weight  *)
(* is a number.                                                            *)
(***************************************************************************)
EXTENDS EdenGameBlock, EdenFolds, TLAPS

\* What a block and the tables are made of.  The weights are left open: that
\* a sum of stakes is a number needs finitely many nodes, and signers and
\* chains do not depend on it (TypeCorrect, at the end, adds the weights).
BlockShape(b) ==
    /\ b.parent \in Hash /\ b.index \in Nat
    /\ b.stakes \in [Nodes -> Nat] /\ b.sigs \subseteq Nodes

Shape ==
    /\ created \in Hash
    /\ DOMAIN tree = Hash /\ \A h \in Hash : BlockShape(tree[h])
    /\ tip \in [Nodes -> Hash] /\ published \subseteq Hash
    /\ proposals \subseteq Proposal /\ signatures \subseteq Signature
    /\ pending \in [Nodes -> SUBSET Signature]
    /\ DOMAIN mining = Nodes
    /\ \A n \in Nodes : mining[n].hash \in Hash /\ mining[n].sigs \subseteq Nodes
    /\ DOMAIN sync = Nodes
    /\ \A n \in Nodes : sync[n] # None => sync[n].tip \in Hash
    /\ undisturbed \in [Nodes -> BOOLEAN]

\* Blocks that a chain may hold: broadcast ones, and the root.
Known == published \cup {0}

\* What is named was created, what a chain or a tip rests on is known, and a
\* block being mined is not: two miners never mine the same.
Order ==
    /\ Known \subseteq 0 .. created
    /\ \A h \in Hash : tree[h].parent \in Known
    /\ \A x \in proposals : x.hash \in 1 .. created
    /\ \A s \in signatures : s.hash \in 1 .. created
    /\ \A n \in Nodes : tip[n] \in Known
    /\ \A n \in Nodes : sync[n] # None => sync[n].tip \in Known
    /\ \A n \in Nodes : mining[n] # Idle => mining[n].hash \in (1 .. created) \ Known
    /\ \A n, m \in Nodes :
          n # m /\ mining[n] # Idle /\ mining[m] # Idle => mining[n].hash # mining[m].hash

\* A signature was given with a stake, and every signer of a block gave one.
Signed ==
    /\ \A s \in signatures : tree[tree[s.hash].parent].stakes[s.by] > 0
    /\ \A n \in Nodes : pending[n] \subseteq signatures
    /\ \A n \in Nodes : \A p \in mining[n].sigs :
          [by |-> p, hash |-> mining[n].hash] \in signatures
    /\ \A h \in Hash : \A p \in tree[h].sigs : [by |-> p, hash |-> h] \in signatures

\* While no sync disturbs it, a miner's tip stays or moves on to higher blocks;
\* a block weighed on a tip that is still its parent has the parent's stakes.
Grown ==
    \A n \in Nodes : mining[n] # Idle /\ undisturbed[n] =>
        LET q == tree[mining[n].hash].parent
        IN  /\ tree[tip[n]].index >= tree[q].index
            /\ tree[tip[n]].index = tree[q].index => tip[n] = q
            /\ mining[n].step = "weighed" /\ tip[n] = q =>
                  mining[n].weight = ValidatorWeight(tree[q].stakes, mining[n].sigs)

\* A step leaves what a block rests on alone, and a known block altogether.
Settled ==
    /\ \A h \in 0 .. created : /\ tree'[h].parent = tree[h].parent
                               /\ tree'[h].index = tree[h].index
                               /\ tree'[h].stakes = tree[h].stakes
    /\ \A h \in Known : tree'[h] = tree[h]
    /\ created <= created' /\ signatures \subseteq signatures'
    /\ Known \subseteq Known'

-----------------------------------------------------------------------------

LEMMA HashFacts == 0 \in Hash /\ Hash \subseteq Nat
  BY GameBlockParameters DEF Hash

LEMMA InitInvariant == Init => Shape /\ Order /\ Signed
<1> SUFFICES ASSUME Init PROVE Shape /\ Order /\ Signed
    OBVIOUS
<1> USE HashFacts
<1>1. Shape
  <2>1. BlockShape(RootBlock)
    BY DEF BlockShape, RootBlock
  <2> QED BY <2>1 DEF Init, Shape, Signature, Proposal, Idle
<1>2. Order
  BY DEF Init, Order, Known, RootBlock, Idle
<1>3. Signed
  BY DEF Init, Signed, RootBlock, Idle
<1> QED BY <1>1, <1>2, <1>3

\* Writing a block into the tree.
LEMMA TreeWrite ==
    ASSUME DOMAIN tree = Hash, \A h \in Hash : BlockShape(tree[h]),
           NEW k \in Hash, NEW b, BlockShape(b), tree' = [tree EXCEPT ![k] = b]
    PROVE  /\ DOMAIN tree' = Hash
           /\ \A h \in Hash : BlockShape(tree'[h])
           /\ \A h \in Hash : h # k => tree'[h] = tree[h]
           /\ tree'[k] = b
<1>1. DOMAIN tree' = Hash
  OBVIOUS
<1>2. tree'[k] = b /\ \A h \in Hash : h # k => tree'[h] = tree[h]
  OBVIOUS
<1> QED BY <1>1, <1>2

LEMMA NextShape ==
    ASSUME Shape, [Next]_vars
    PROVE  Shape'
<1> USE HashFacts
<1>0. \A n \in Nodes : tip[n] \in Hash /\ BlockShape(Tip(n)) /\ BlockShape(tree[mining[n].hash])
  BY DEF Shape, Tip
<1>1. ASSUME NEW n \in Nodes, BuildStake(n) PROVE Shape'
  <2> DEFINE b == [parent |-> tip[n], index |-> Tip(n).index + 1,
                   weight |-> Tip(n).weight, kind |-> "stake",
                   stakes |-> [Tip(n).stakes EXCEPT ![n] = @ + Amount],
                   sigs |-> {}, undisturbed |-> TRUE]
  <2>1. [Tip(n).stakes EXCEPT ![n] = @ + Amount] \in [Nodes -> Nat]
    BY <1>0, GameBlockParameters DEF BlockShape
  <2>2. BlockShape(b)
    BY <1>0, <2>1 DEF BlockShape
  <2>3. tree' = [tree EXCEPT ![created + 1] = b] /\ created + 1 \in Hash
    BY <1>1 DEF BuildStake
  <2>4. DOMAIN tree' = Hash /\ \A h \in Hash : BlockShape(tree'[h])
    BY <2>2, <2>3, TreeWrite DEF Shape
  <2>5. /\ created' \in Hash /\ tip' \in [Nodes -> Hash] /\ published' \subseteq Hash
    BY <1>1, <2>3 DEF BuildStake, Shape
  <2>6. UNCHANGED <<proposals, signatures, pending, mining, undisturbed, sync>>
    BY <1>1 DEF BuildStake, topic
  <2> QED BY <2>4, <2>5, <2>6 DEF Shape
<1>2. ASSUME NEW n \in Nodes, NEW k, Propose(n, k) PROVE Shape'
  <2> DEFINE b == [parent |-> tip[n], index |-> Tip(n).index + 1,
                   weight |-> Tip(n).weight, kind |-> "game",
                   stakes |-> Tip(n).stakes, sigs |-> {}, undisturbed |-> FALSE]
  <2>2. BlockShape(b)
    BY <1>0 DEF BlockShape
  <2>3. tree' = [tree EXCEPT ![created + 1] = b] /\ created + 1 \in Hash
    BY <1>2 DEF Propose
  <2>4. DOMAIN tree' = Hash /\ \A h \in Hash : BlockShape(tree'[h])
    BY <2>2, <2>3, TreeWrite DEF Shape
  <2>5. created' \in Hash /\ proposals' \subseteq Proposal
    BY <1>2, <2>3 DEF Propose, Shape, Proposal
  <2>6. /\ DOMAIN mining' = Nodes /\ undisturbed' \in [Nodes -> BOOLEAN]
        /\ \A m \in Nodes : mining'[m].hash \in Hash /\ mining'[m].sigs \subseteq Nodes
    BY <1>2, <2>3 DEF Propose, Shape
  <2>7. UNCHANGED <<tip, published, signatures, pending, sync>>
    BY <1>2 DEF Propose
  <2> QED BY <2>4, <2>5, <2>6, <2>7 DEF Shape
<1>3. ASSUME NEW n \in Nodes, AddMined(n) PROVE Shape'
  <2> DEFINE h == mining[n].hash
             b == [parent |-> tree[h].parent, index |-> tree[h].index,
                   weight |-> tree[tree[h].parent].weight + mining[n].weight,
                   kind |-> "game", stakes |-> tree[h].stakes,
                   sigs |-> mining[n].sigs, undisturbed |-> undisturbed[n]]
  <2>1. BlockShape(b) /\ h \in Hash
    BY <1>0 DEF BlockShape, Shape
  <2>2. tree' = tree \/ tree' = [tree EXCEPT ![h] = b]
    BY <1>3 DEF AddMined
  <2>3. DOMAIN tree' = Hash /\ \A k \in Hash : BlockShape(tree'[k])
    <3>1. CASE tree' = tree BY <3>1 DEF Shape
    <3>2. CASE tree' = [tree EXCEPT ![h] = b]
      BY <2>1, <3>2, TreeWrite DEF Shape
    <3> QED BY <2>2, <3>1, <3>2
  <2>4. tip' \in [Nodes -> Hash] /\ published' \subseteq Hash
    BY <1>3, <2>1 DEF AddMined, Shape
  <2>5. \A m \in Nodes : mining'[m].hash \in Hash /\ mining'[m].sigs \subseteq Nodes
    BY <1>3 DEF AddMined, Shape, Idle
  <2> QED BY <1>3, <2>3, <2>4, <2>5 DEF AddMined, Shape, topic
<1>4. ASSUME NEW n \in Nodes, NEW s \in signatures, ReceiveSignature(n, s) PROVE Shape'
  BY <1>4 DEF ReceiveSignature, Shape, topic
<1>5. ASSUME NEW n \in Nodes, NEW x \in proposals, Sign(n, x) PROVE Shape'
  BY <1>5 DEF Sign, Shape, Signature, Proposal
<1>6. ASSUME NEW n \in Nodes, TakeSignatures(n) PROVE Shape'
  <2>1. Collected(n) \subseteq Nodes
    BY DEF Collected, Shape, Signature
  <2> QED BY <1>6, <2>1 DEF TakeSignatures, Shape, topic
<1>7. ASSUME NEW n \in Nodes, Weigh(n) PROVE Shape'
  BY <1>7 DEF Weigh, Shape, topic
<1>8. ASSUME NEW n \in Nodes, NEW h \in published, Deliver(n, h) PROVE Shape'
  BY <1>8 DEF Deliver, Shape, topic
<1>9. ASSUME NEW n \in Nodes, NEW p \in Nodes, Fetch(n, p) PROVE Shape'
  BY <1>9 DEF Fetch, Shape, topic
<1>10. ASSUME NEW n \in Nodes, Apply(n) PROVE Shape'
  BY <1>10 DEF Apply, Shape, topic
<1>11. CASE UNCHANGED vars
  BY <1>11 DEF vars, topic, Shape
<1> QED BY <1>1, <1>2, <1>3, <1>4, <1>5, <1>6, <1>7, <1>8, <1>9, <1>10, <1>11 DEF Next

LEMMA CreatedFacts ==
    ASSUME Shape, Order
    PROVE  created \in Nat /\ Known \subseteq 0 .. created /\ 0 .. created \subseteq Hash
<1>1. created \in Nat /\ created <= MaxBlocks
  BY GameBlockParameters DEF Shape, Hash
<1>2. 0 .. created \subseteq Hash
  BY <1>1, GameBlockParameters DEF Hash
<1> QED BY <1>1, <1>2 DEF Order

\* What was created stays: blocks are written once when they are made, and once
\* more, without what they rest on, when their miner adds them.
LEMMA StepSettles ==
    ASSUME Shape, Order, [Next]_vars
    PROVE  Settled
<1> USE HashFacts
<1>0. created \in Nat /\ Known \subseteq 0 .. created /\ 0 .. created \subseteq Hash
  BY CreatedFacts
<1>1. CASE UNCHANGED <<tree, created, published>> /\ signatures \subseteq signatures'
  BY <1>0, <1>1 DEF Settled, Known
<1>2. ASSUME NEW b, created + 1 \in Hash, created' = created + 1,
             tree' = [tree EXCEPT ![created + 1] = b],
             published \subseteq published', UNCHANGED signatures
      PROVE  Settled
  <2>1. \A h \in 0 .. created : tree'[h] = tree[h]
    BY <1>0, <1>2 DEF Shape
  <2>2. \A h \in Known : tree'[h] = tree[h]
    BY <1>0, <2>1
  <2> QED BY <1>0, <1>2, <2>1, <2>2 DEF Settled, Known
<1>3. ASSUME NEW n \in Nodes, BuildStake(n) PROVE Settled
  BY <1>2, <1>3 DEF BuildStake, topic
<1>4. ASSUME NEW n \in Nodes, NEW k, Propose(n, k) PROVE Settled
  BY <1>2, <1>4 DEF Propose
<1>5. ASSUME NEW n \in Nodes, AddMined(n) PROVE Settled
  <2> DEFINE h == mining[n].hash
             b == [parent |-> tree[h].parent, index |-> tree[h].index,
                   weight |-> tree[tree[h].parent].weight + mining[n].weight,
                   kind |-> "game", stakes |-> tree[h].stakes,
                   sigs |-> mining[n].sigs, undisturbed |-> undisturbed[n]]
  <2>1. h \notin Known /\ h \in Hash
    BY <1>5 DEF AddMined, Order, Idle, Shape
  <2>2. /\ tree' = tree \/ tree' = [tree EXCEPT ![h] = b]
        /\ UNCHANGED <<created, signatures>> /\ published \subseteq published'
    BY <1>5 DEF AddMined, topic
  <2>3. \A k \in Hash : /\ k # h => tree'[k] = tree[k]
                        /\ tree'[k].parent = tree[k].parent
                        /\ tree'[k].index = tree[k].index
                        /\ tree'[k].stakes = tree[k].stakes
    BY <2>1, <2>2 DEF Shape
  <2> HIDE DEF h, b
  <2> QED BY <1>0, <2>1, <2>2, <2>3 DEF Settled, Known
<1> QED BY <1>1, <1>3, <1>4, <1>5
    DEF Next, ReceiveSignature, Sign, TakeSignatures, Weigh, Deliver, Fetch, Apply, vars, topic

\* A block that is named was created: h is one more than the last, or known.
LEMMA NextOrder ==
    ASSUME Shape, Order, [Next]_vars
    PROVE  Order'
<1> USE HashFacts
<1>0. created \in Nat /\ Known \subseteq 0 .. created /\ 0 .. created \subseteq Hash
  BY CreatedFacts
<1>1. Settled
  BY StepSettles
<1>2. ASSUME NEW n \in Nodes, BuildStake(n) PROVE Order'
  <2> DEFINE k == created + 1
  <2>1. /\ created' = k /\ k \in Hash /\ published' = published \cup {k}
        /\ tip' = [tip EXCEPT ![n] = k]
        /\ UNCHANGED <<proposals, signatures, sync, mining>>
    BY <1>2 DEF BuildStake, topic
  <2>2. Known' = Known \cup {k} /\ Known' \subseteq 0 .. created'
    BY <1>0, <2>1 DEF Known
  <2>3. \A h \in Hash : tree'[h].parent \in Known'
    <3>1. tree'[k].parent = tip[n]
      BY <1>2 DEF BuildStake, Shape
    <3>2. \A h \in Hash : h # k => tree'[h] = tree[h]
      BY <1>2 DEF BuildStake, Shape
    <3> QED BY <2>2, <3>1, <3>2 DEF Order
  <2>4. \A m \in Nodes : tip'[m] \in Known'
    BY <2>1, <2>2 DEF Order, Shape
  <2>5. \A m \in Nodes : mining'[m] # Idle => mining'[m].hash \in (1 .. created') \ Known'
    BY <1>0, <2>1, <2>2 DEF Order
  <2> QED BY <1>0, <2>1, <2>2, <2>3, <2>4, <2>5 DEF Order
<1>3. ASSUME NEW n \in Nodes, NEW p, Propose(n, p) PROVE Order'
  <2> DEFINE k == created + 1
  <2>1. /\ created' = k /\ k \in Hash
        /\ proposals' = proposals \cup {[by |-> n, hash |-> k]}
        /\ mining' = [mining EXCEPT ![n] =
              [step |-> "waiting", hash |-> k, sigs |-> {}, weight |-> 0]]
        /\ UNCHANGED <<tip, published, signatures, sync>>
    BY <1>3 DEF Propose
  <2>2. Known' = Known /\ Known' \subseteq 0 .. created'
    BY <1>0, <2>1 DEF Known
  <2>3. \A h \in Hash : tree'[h].parent \in Known'
    <3>1. tree'[k].parent = tip[n]
      BY <1>3 DEF Propose, Shape
    <3>2. \A h \in Hash : h # k => tree'[h] = tree[h]
      BY <1>3 DEF Propose, Shape
    <3> QED BY <2>2, <3>1, <3>2 DEF Order
  <2>4. \A m \in Nodes : /\ m = n => mining'[m].hash = k
                         /\ m # n => mining'[m] = mining[m]
    BY <2>1 DEF Shape
  <2>5. \A m \in Nodes : mining'[m] # Idle => mining'[m].hash \in (1 .. created') \ Known'
    BY <1>0, <2>1, <2>2, <2>4 DEF Order
  <2>6. \A m, q \in Nodes :
          m # q /\ mining'[m] # Idle /\ mining'[q] # Idle => mining'[m].hash # mining'[q].hash
    BY <1>0, <2>4 DEF Order
  <2>7. \A x \in proposals' : x.hash \in 1 .. created'
    BY <1>0, <2>1 DEF Order
  <2> QED BY <1>0, <2>1, <2>2, <2>3, <2>5, <2>6, <2>7 DEF Order
<1>4. ASSUME NEW n \in Nodes, AddMined(n) PROVE Order'
  <2> DEFINE k == mining[n].hash
  <2>1. /\ mining' = [mining EXCEPT ![n] = Idle]
        /\ UNCHANGED <<created, proposals, signatures, sync>>
        /\ k \in (1 .. created) \ Known /\ k \in Hash
    BY <1>4 DEF AddMined, topic, Order, Idle, Shape
  <2>2. \/ UNCHANGED <<tip, published>>
        \/ tip' = [tip EXCEPT ![n] = k] /\ published' = published \cup {k}
    BY <1>4 DEF AddMined
  <2>2a. Known \subseteq Known' /\ Known' \subseteq Known \cup {k}
    BY <2>2 DEF Known
  <2>2b. \A m \in Nodes : tip'[m] \in Known'
    <3>1. CASE UNCHANGED <<tip, published>>
      BY <3>1 DEF Order, Known
    <3>2. CASE tip' = [tip EXCEPT ![n] = k] /\ published' = published \cup {k}
      <4>1. k \in Known'
        BY <3>2 DEF Known
      <4>2. \A m \in Nodes : tip'[m] \in {tip[m], k}
        BY <3>2 DEF Shape
      <4> QED BY <2>2a, <4>1, <4>2 DEF Order
    <3> QED BY <2>2, <3>1, <3>2
  <2>3. \A h \in Hash : tree'[h].parent \in Known'
    <3>1. \A h \in Hash : tree'[h].parent = tree[h].parent
      BY <1>4 DEF AddMined, Shape
    <3> QED BY <2>2a, <3>1 DEF Order
  <2>4. \A m \in Nodes : mining'[m] # Idle => mining'[m] = mining[m] /\ m # n
    BY <2>1 DEF Shape
  <2>5. mining[n] # Idle
    BY <1>4 DEF AddMined, Idle
  <2>6. \A m \in Nodes : mining'[m] # Idle => mining'[m].hash \in (1 .. created') \ Known'
    BY <2>1, <2>2a, <2>4, <2>5 DEF Order
  <2> HIDE DEF k
  <2>7. Known' \subseteq 0 .. created'
    BY <1>0, <2>1, <2>2a DEF Order
  <2>8. \A m \in Nodes : sync'[m] # None => sync'[m].tip \in Known'
    BY <2>1, <2>2a DEF Order
  <2>9. \A m, q \in Nodes :
          m # q /\ mining'[m] # Idle /\ mining'[q] # Idle => mining'[m].hash # mining'[q].hash
    BY <2>4 DEF Order
  <2>10. /\ \A x \in proposals' : x.hash \in 1 .. created'
         /\ \A s \in signatures' : s.hash \in 1 .. created'
    BY <2>1 DEF Order
  <2> QED BY <2>3, <2>6, <2>7, <2>8, <2>9, <2>10, <2>2b DEF Order
<1>5. ASSUME NEW n \in Nodes, NEW x \in proposals, Sign(n, x) PROVE Order'
  BY <1>5 DEF Sign, Order, Known
<1>6. ASSUME NEW n \in Nodes, TakeSignatures(n) \/ Weigh(n) PROVE Order'
  <2>1. mining[n] # Idle
    BY <1>6 DEF TakeSignatures, Weigh, Idle
  <2>2. \A m \in Nodes : mining'[m] # Idle => mining[m] # Idle /\ mining'[m].hash = mining[m].hash
    BY <1>6, <2>1 DEF TakeSignatures, Weigh, Shape
  <2>3. UNCHANGED <<created, tree, tip, published, proposals, signatures, sync>>
    BY <1>6 DEF TakeSignatures, Weigh, topic
  <2> QED BY <2>2, <2>3 DEF Order, Known
<1>7. ASSUME NEW n \in Nodes, NEW h \in published, Deliver(n, h) PROVE Order'
  BY <1>7 DEF Deliver, Order, Known, Shape, topic
<1>8. ASSUME NEW n \in Nodes, NEW p \in Nodes, Fetch(n, p) PROVE Order'
  BY <1>8 DEF Fetch, Order, Known, Shape, topic
<1>9. ASSUME NEW n \in Nodes, Apply(n) PROVE Order'
  BY <1>9 DEF Apply, Order, Known, Shape, topic
<1>10. ASSUME NEW n \in Nodes, NEW s \in signatures, ReceiveSignature(n, s) PROVE Order'
  BY <1>10 DEF ReceiveSignature, Order, Known, topic
<1>11. CASE UNCHANGED vars
  BY <1>11 DEF vars, topic, Order, Known
<1> QED BY <1>2, <1>3, <1>4, <1>5, <1>6, <1>7, <1>8, <1>9, <1>10, <1>11 DEF Next

-----------------------------------------------------------------------------
(* Who signed a block had a stake.                                         *)

LEMMA NextSigned ==
    ASSUME Shape, Order, Signed, [Next]_vars
    PROVE  Signed'
<1> USE HashFacts
<1>0. created \in Nat /\ Known \subseteq 0 .. created /\ 0 .. created \subseteq Hash
  BY CreatedFacts
<1>1. Settled
  BY StepSettles
\* A signature given before stays backed: its block and the parent are old.
<1>2. \A s \in signatures : tree'[tree'[s.hash].parent].stakes[s.by] > 0
  <2> SUFFICES ASSUME NEW s \in signatures
               PROVE  tree'[tree'[s.hash].parent].stakes[s.by] > 0
      OBVIOUS
  <2>1. s.hash \in 0 .. created /\ s.hash \in Hash
    BY <1>0 DEF Order
  <2>2. tree[s.hash].parent \in 0 .. created
    BY <1>0, <2>1 DEF Order
  <2> QED BY <1>1, <2>1, <2>2 DEF Settled, Signed
<1>3. \A s \in signatures' : tree'[tree'[s.hash].parent].stakes[s.by] > 0
  <2>1. ASSUME NEW n \in Nodes, NEW x \in proposals, Sign(n, x)
        PROVE  \A s \in signatures' : tree'[tree'[s.hash].parent].stakes[s.by] > 0
    <3>1. tree[tree[x.hash].parent].stakes[n] > 0 /\ UNCHANGED tree
      BY <2>1 DEF Sign, MaySign, Tip
    <3>2. signatures' = signatures \cup {[by |-> n, hash |-> x.hash]}
      BY <2>1 DEF Sign
    <3> QED BY <1>2, <3>1, <3>2
  <2>2. CASE UNCHANGED signatures
    BY <1>2, <2>2
  <2> QED BY <2>1, <2>2 DEF Next, BuildStake, Propose, AddMined, ReceiveSignature,
          TakeSignatures, Weigh, Deliver, Fetch, Apply, vars, topic
<1>4. \A n \in Nodes : pending'[n] \subseteq signatures'
  <2>1. \A n \in Nodes : pending'[n] \subseteq pending[n] \cup signatures
    <3>1. ASSUME NEW m \in Nodes, NEW s \in signatures, ReceiveSignature(m, s)
          PROVE  \A n \in Nodes : pending'[n] \subseteq pending[n] \cup signatures
      BY <3>1 DEF ReceiveSignature, Shape
    <3>2. ASSUME NEW m \in Nodes, TakeSignatures(m)
          PROVE  \A n \in Nodes : pending'[n] \subseteq pending[n] \cup signatures
      BY <3>2 DEF TakeSignatures, Shape
    <3>3. CASE UNCHANGED pending
      BY <3>3
    <3> QED BY <3>1, <3>2, <3>3 DEF Next, BuildStake, Propose, AddMined, Sign, Weigh,
            Deliver, Fetch, Apply, vars
  <2> QED BY <1>1, <2>1 DEF Settled, Signed
<1>5. \A n \in Nodes : \A p \in mining'[n].sigs :
          [by |-> p, hash |-> mining'[n].hash] \in signatures'
  <2>1. ASSUME NEW n \in Nodes, NEW m \in Nodes, TakeSignatures(m),
               NEW p \in mining'[n].sigs
        PROVE  [by |-> p, hash |-> mining'[n].hash] \in signatures
    <3>1. CASE n # m
      BY <2>1, <3>1 DEF TakeSignatures, Signed, Shape
    <3>2. CASE n = m
      <4>1. mining'[n].sigs = Collected(n) /\ mining'[n].hash = mining[n].hash
        BY <2>1, <3>2 DEF TakeSignatures, Shape
      <4>2. PICK s \in pending[n] : s.hash = mining[n].hash /\ s.by = p
        BY <2>1, <4>1 DEF Collected
      <4>3. s \in signatures /\ s \in Signature
        BY DEF Signed, Shape
      <4>4. s = [by |-> p, hash |-> mining[n].hash]
        BY <4>2, <4>3 DEF Signature
      <4> QED BY <4>1, <4>3, <4>4
    <3> QED BY <3>1, <3>2
  <2>2. ASSUME ~ \E m \in Nodes : TakeSignatures(m), NEW n \in Nodes
        PROVE  \/ mining'[n].sigs = {}
               \/ mining'[n].sigs = mining[n].sigs /\ mining'[n].hash = mining[n].hash
    <3> DEFINE Same == \/ mining'[n].sigs = {}
                       \/ mining'[n].sigs = mining[n].sigs /\ mining'[n].hash = mining[n].hash
    <3>1. ASSUME NEW m \in Nodes, NEW k, Propose(m, k) PROVE Same
      BY <3>1 DEF Propose, Shape
    <3>2. ASSUME NEW m \in Nodes, AddMined(m) PROVE Same
      BY <3>2 DEF AddMined, Shape, Idle
    <3>3. ASSUME NEW m \in Nodes, Weigh(m) PROVE Same
      BY <3>3 DEF Weigh, Shape
    <3>4. CASE UNCHANGED mining
      BY <3>4
    <3> QED BY <2>2, <3>1, <3>2, <3>3, <3>4 DEF Next, BuildStake, ReceiveSignature, Sign,
            Deliver, Fetch, Apply, vars
  <2>3. \A n \in Nodes : \A p \in mining[n].sigs :
          [by |-> p, hash |-> mining[n].hash] \in signatures'
    BY <1>1 DEF Settled, Signed
  <2>4. CASE \E m \in Nodes : TakeSignatures(m)
    BY <1>1, <2>1, <2>4 DEF Settled
  <2>5. CASE ~ \E m \in Nodes : TakeSignatures(m)
    BY <2>2, <2>3, <2>5
  <2> QED BY <2>4, <2>5
<1>6. \A h \in Hash : \A p \in tree'[h].sigs : [by |-> p, hash |-> h] \in signatures'
  <2>1. ASSUME NEW h \in Hash
        PROVE  \/ tree'[h].sigs \in {{}, tree[h].sigs}
               \/ \E n \in Nodes : h = mining[n].hash /\ tree'[h].sigs = mining[n].sigs
    <3> DEFINE Same ==
          \/ tree'[h].sigs \in {{}, tree[h].sigs}
          \/ \E n \in Nodes : h = mining[n].hash /\ tree'[h].sigs = mining[n].sigs
    <3>1. ASSUME NEW n \in Nodes, NEW k, Propose(n, k) PROVE Same
      BY <3>1 DEF Propose, Shape
    <3>2. ASSUME NEW n \in Nodes, BuildStake(n) PROVE Same
      BY <3>2 DEF BuildStake, Shape
    <3>3. ASSUME NEW n \in Nodes, AddMined(n) PROVE Same
      <4>1. CASE h = mining[n].hash
        BY <3>3, <4>1 DEF AddMined, Shape
      <4>2. CASE h # mining[n].hash
        BY <3>3, <4>2 DEF AddMined, Shape
      <4> QED BY <4>1, <4>2
    <3>4. CASE UNCHANGED tree
      BY <3>4
    <3> QED BY <3>1, <3>2, <3>3, <3>4 DEF Next, ReceiveSignature, Sign, TakeSignatures,
            Weigh, Deliver, Fetch, Apply, vars
  <2> QED BY <1>1, <2>1 DEF Settled, Signed
<1> QED BY <1>3, <1>4, <1>5, <1>6 DEF Signed

\* Every signer of every block had a stake on the chain the block extends.
THEOREM StakersSign == Spec => []SignersAreStakers
<1>1. Init => Shape /\ Order /\ Signed
  BY InitInvariant
<1>2. Shape /\ Order /\ Signed /\ [Next]_vars => (Shape /\ Order /\ Signed)'
  BY NextShape, NextOrder, NextSigned
<1>3. Shape /\ Signed => SignersAreStakers
  <2> SUFFICES ASSUME Shape, Signed, NEW h \in Hash, NEW p \in tree[h].sigs
               PROVE  tree[tree[h].parent].stakes[p] > 0
      BY DEF SignersAreStakers
  <2> DEFINE s == [by |-> p, hash |-> h]
  <2>1. s \in signatures
    BY DEF Signed
  <2> QED BY <2>1 DEF Signed
<1> QED BY <1>1, <1>2, <1>3, PTL DEF Spec

-----------------------------------------------------------------------------
(* A block mined undisturbed weighs what its signers had staked.           *)

LEMMA NextGrown ==
    ASSUME Shape, Order, Grown, [Next]_vars
    PROVE  Grown'
<1> USE HashFacts
<1>0. created \in Nat /\ Known \subseteq 0 .. created /\ 0 .. created \subseteq Hash
  BY CreatedFacts
<1>1. Settled
  BY StepSettles
<1> SUFFICES ASSUME NEW n \in Nodes, mining'[n] # Idle, undisturbed'[n]
             PROVE  LET q == tree'[mining'[n].hash].parent
                    IN  /\ tree'[tip'[n]].index >= tree'[q].index
                        /\ tree'[tip'[n]].index = tree'[q].index => tip'[n] = q
                        /\ mining'[n].step = "weighed" /\ tip'[n] = q =>
                              mining'[n].weight =
                                  ValidatorWeight(tree'[q].stakes, mining'[n].sigs)
    BY DEF Grown
<1> DEFINE Goal ==
      LET q == tree'[mining'[n].hash].parent
      IN  /\ tree'[tip'[n]].index >= tree'[q].index
          /\ tree'[tip'[n]].index = tree'[q].index => tip'[n] = q
          /\ mining'[n].step = "weighed" /\ tip'[n] = q =>
                mining'[n].weight = ValidatorWeight(tree'[q].stakes, mining'[n].sigs)
<1>2. \A k \in Nodes : tip[k] \in Known /\ tip[k] \in Hash /\ tree[tip[k]].index \in Nat
  BY DEF Order, Shape, BlockShape
\* What an old call refers to is what it was.
<1>3. ASSUME mining[n] # Idle, mining'[n].hash = mining[n].hash
      PROVE  LET q == tree[mining[n].hash].parent
             IN  /\ q \in Known /\ tree'[q] = tree[q] /\ tree[q].index \in Nat
                 /\ tree'[mining'[n].hash].parent = q
                 /\ tree'[tip[n]] = tree[tip[n]]
  <2>1. mining[n].hash \in 0 .. created /\ mining[n].hash \in Hash
    BY <1>0, <1>3 DEF Order
  <2> QED BY <1>0, <1>1, <1>2, <1>3, <2>1 DEF Settled, Order, Shape, BlockShape
\* The call goes on and its tip stays.
<1>4. CASE mining[n] # Idle /\ mining'[n] = mining[n] /\ undisturbed[n] /\ tip'[n] = tip[n]
  BY <1>3, <1>4 DEF Grown
\* The call goes on and its tip moves to a child.
<1>5. CASE /\ mining[n] # Idle /\ mining'[n] = mining[n] /\ undisturbed[n]
           /\ tree'[tip'[n]].index = tree[tip[n]].index + 1
  BY <1>2, <1>3, <1>5 DEF Grown
<1>6. ASSUME NEW m \in Nodes, BuildStake(m) PROVE Goal
  <2>1. mining' = mining /\ undisturbed' = undisturbed
    BY <1>6 DEF BuildStake
  <2>2. CASE m # n
    BY <1>4, <1>6, <2>1, <2>2 DEF BuildStake, Shape
  <2>3. CASE m = n
    <3>1. tip'[n] = created + 1 /\ created + 1 \in Hash
      BY <1>6, <2>3 DEF BuildStake, Shape
    <3>2. tree'[created + 1].index = tree[tip[n]].index + 1
      BY <1>6, <2>3, <3>1 DEF BuildStake, Shape, Tip
    <3> QED BY <1>5, <2>1, <3>1, <3>2
  <2> QED BY <2>2, <2>3
<1>7. ASSUME NEW m \in Nodes, NEW h \in published, Deliver(m, h) PROVE Goal
  <2>1. mining' = mining /\ undisturbed' = undisturbed /\ tree' = tree
    BY <1>7 DEF Deliver
  <2>2. CASE m # n
    BY <1>4, <1>7, <2>1, <2>2 DEF Deliver, Shape
  <2>3. CASE m = n
    <3>1. tip'[n] = h /\ tree[h].index = tree[tip[n]].index + 1
      BY <1>7, <2>3 DEF Deliver, Extends, Tip, Shape
    <3> QED BY <1>5, <2>1, <3>1
  <2> QED BY <2>2, <2>3
<1>8. ASSUME NEW m \in Nodes, NEW k, Propose(m, k) PROVE Goal
  <2>1. CASE m # n
    BY <1>4, <1>8, <2>1 DEF Propose, Shape
  <2>2. CASE m = n
    <3>1. /\ mining'[n].step = "waiting" /\ mining'[n].hash = created + 1
          /\ created + 1 \in Hash /\ tip' = tip
      BY <1>8, <2>2 DEF Propose, Shape
    <3>2. tree'[created + 1].parent = tip[n]
      BY <1>8, <2>2, <3>1 DEF Propose, Shape
    <3>3. tree'[tip[n]] = tree[tip[n]]
      BY <1>1, <1>2 DEF Settled
    <3> QED BY <1>2, <3>1, <3>2, <3>3
  <2> QED BY <2>1, <2>2
<1>9. ASSUME NEW m \in Nodes, AddMined(m) PROVE Goal
  <2>1. m # n
    BY <1>9 DEF AddMined, Shape
  <2>2. mining'[n] = mining[n] /\ tip'[n] = tip[n] /\ undisturbed' = undisturbed
    BY <1>9, <2>1 DEF AddMined, Shape
  <2> QED BY <1>4, <2>2
<1>10. ASSUME NEW m \in Nodes, TakeSignatures(m) PROVE Goal
  <2>1. tip' = tip /\ undisturbed' = undisturbed
    BY <1>10 DEF TakeSignatures
  <2>2. CASE m # n
    BY <1>4, <1>10, <2>1, <2>2 DEF TakeSignatures, Shape
  <2>3. CASE m = n
    <3>1. mining[n] # Idle /\ mining'[n].step = "signed" /\ mining'[n].hash = mining[n].hash
      BY <1>10, <2>3 DEF TakeSignatures, Shape, Idle
    <3> QED BY <1>3, <2>1, <3>1 DEF Grown
  <2> QED BY <2>2, <2>3
<1>11. ASSUME NEW m \in Nodes, Weigh(m) PROVE Goal
  <2>1. tip' = tip /\ undisturbed' = undisturbed
    BY <1>11 DEF Weigh
  <2>2. CASE m # n
    BY <1>4, <1>11, <2>1, <2>2 DEF Weigh, Shape
  <2>3. CASE m = n
    <3>1. /\ mining[n] # Idle /\ mining'[n].hash = mining[n].hash
          /\ mining'[n].weight = ValidatorWeight(tree[tip[n]].stakes, mining'[n].sigs)
      BY <1>11, <2>3 DEF Weigh, Shape, Idle, Tip
    <3> QED BY <1>3, <2>1, <3>1 DEF Grown
  <2> QED BY <2>2, <2>3
<1>12. ASSUME NEW m \in Nodes, Apply(m) PROVE Goal
  <2>1. m # n
    BY <1>12 DEF Apply, Shape
  <2> QED BY <1>4, <1>12, <2>1 DEF Apply, Shape
<1>13. CASE UNCHANGED <<mining, tip, undisturbed>>
  BY <1>4, <1>13
<1> QED BY <1>6, <1>7, <1>8, <1>9, <1>10, <1>11, <1>12, <1>13
    DEF Next, Sign, ReceiveSignature, Fetch, vars

LEMMA NextWeight ==
    ASSUME Shape, Order, Grown, WeightIsSignedStake, [Next]_vars
    PROVE  WeightIsSignedStake'
<1> USE HashFacts
<1>0. created \in Nat /\ Known \subseteq 0 .. created /\ 0 .. created \subseteq Hash
  BY CreatedFacts
<1>1. Settled
  BY StepSettles
<1> DEFINE Right(h) == tree[h].kind = "game" /\ tree[h].undisturbed =>
        tree[h].weight = tree[tree[h].parent].weight
                            + ValidatorWeight(tree[tree[h].parent].stakes, tree[h].sigs)
<1> SUFFICES ASSUME NEW h \in published' PROVE Right(h)'
    BY DEF WeightIsSignedStake
<1>2. CASE h \in published
  <2>1. tree'[h] = tree[h] /\ tree'[tree[h].parent] = tree[tree[h].parent]
    <3>1. h \in Known /\ h \in Hash
      BY <1>0, <1>2 DEF Known
    <3>2. tree[h].parent \in Known
      BY <3>1 DEF Order
    <3> QED BY <1>1, <3>1, <3>2 DEF Settled
  <2>2. Right(h)
    BY <1>2 DEF WeightIsSignedStake
  <2> QED BY <2>1, <2>2
<1>3. ASSUME NEW n \in Nodes, BuildStake(n) PROVE Right(h)'
  <2>1. CASE h = created + 1
    <3>1. tree'[h].kind = "stake"
      BY <1>3, <2>1 DEF BuildStake, Shape
    <3> QED BY <3>1
  <2>2. CASE h # created + 1
    BY <1>2, <1>3, <2>2 DEF BuildStake
  <2> QED BY <2>1, <2>2
<1>4. ASSUME NEW n \in Nodes, AddMined(n) PROVE Right(h)'
  <2>1. CASE h \notin published
    <3> DEFINE q == tree[h].parent
    <3>1. h = mining[n].hash /\ Extends(n, h)
      BY <1>4, <2>1 DEF AddMined
    <3>2. h \in Hash /\ q = tip[n] /\ mining[n] # Idle /\ mining[n].step = "weighed"
      BY <1>4, <3>1 DEF AddMined, Extends, Shape, Idle
    <3>3. /\ tree'[h].parent = q /\ tree'[h].sigs = mining[n].sigs
          /\ tree'[h].weight = tree[q].weight + mining[n].weight
          /\ tree'[h].undisturbed = undisturbed[n]
      BY <1>4, <3>1, <3>2 DEF AddMined, Shape
    <3>4. tree'[q] = tree[q]
      BY <1>1, <3>2 DEF Settled, Order
    <3>5. undisturbed[n] =>
            mining[n].weight = ValidatorWeight(tree[q].stakes, mining[n].sigs)
      BY <3>1, <3>2 DEF Grown
    <3> HIDE DEF q
    <3> QED BY <3>3, <3>4, <3>5
  <2> QED BY <1>2, <2>1
<1>5. CASE UNCHANGED published
  BY <1>2, <1>5
<1> QED BY <1>3, <1>4, <1>5
    DEF Next, Propose, ReceiveSignature, Sign, TakeSignatures, Weigh, Deliver, Fetch,
        Apply, vars

\* A block mined undisturbed has the weight of the stakes that signed it.
THEOREM MinedWeight == Spec => []WeightIsSignedStake
<1>1. Init => Shape /\ Order /\ Grown /\ WeightIsSignedStake
  BY InitInvariant DEF Init, Grown, WeightIsSignedStake
<1>2. Shape /\ Order /\ Grown /\ WeightIsSignedStake /\ [Next]_vars
        => (Shape /\ Order /\ Grown /\ WeightIsSignedStake)'
  BY NextShape, NextOrder, NextGrown, NextWeight
<1> QED BY <1>1, <1>2, PTL DEF Spec

-----------------------------------------------------------------------------
(* Types.                                                                  *)

\* The stake behind a set of signatures is a natural number, and the weight
\* it gives a positive one.
LEMMA WeightIsPositive ==
    ASSUME IsFiniteSet(Nodes), NEW stakes \in [Nodes -> Nat],
           NEW sigs \in SUBSET Nodes
    PROVE  ValidatorWeight(stakes, sigs) \in Nat \ {0}
<1>1. IsFiniteSet(sigs) /\ \A p \in sigs : stakes[p] \in Nat
  BY FS_Subset
<1>2. Stake(stakes, sigs) = SumFunctionOnSet(stakes, sigs)
  BY DEF Stake, MapThenSumSet, SumFunctionOnSet, FoldFunctionOnSet
<1>3. Stake(stakes, sigs) \in Nat
  BY <1>1, <1>2, SumOfNaturals
<1> QED BY <1>3 DEF ValidatorWeight

\* What TypeOK says of a block, field by field.
LEMMA BlockFields ==
    ASSUME NEW b \in Block
    PROVE  /\ b.parent \in Hash /\ b.index \in Nat /\ b.weight \in Nat
           /\ b.kind \in {"root", "stake", "game"} /\ b.stakes \in [Nodes -> Nat]
           /\ b.sigs \in SUBSET Nodes /\ b.undisturbed \in BOOLEAN
BY DEF Block

\* A call under way has a block, and a positive weight once it is weighed.
LEMMA CallFields ==
    ASSUME NEW c \in Waiting \cup {Idle}
    PROVE  /\ c.hash \in Hash /\ c.sigs \in SUBSET Nodes
           /\ c.step = "weighed" => c.weight \in Nat \ {0}
<1>1. CASE c = Idle
  BY <1>1, HashFacts DEF Idle
<1>2. CASE c \in Waiting
  BY <1>2 DEF Waiting
<1> QED BY <1>1, <1>2

LEMMA InitTyped == Init => TypeOK
<1> SUFFICES ASSUME Init PROVE TypeOK
    OBVIOUS
<1>1. RootBlock \in Block
  BY HashFacts DEF RootBlock, Block
<1> QED BY <1>1, HashFacts DEF Init, TypeOK

LEMMA NextTyped ==
    ASSUME IsFiniteSet(Nodes), TypeOK, [Next]_vars
    PROVE  TypeOK'
<1> USE HashFacts
<1>0. \A n \in Nodes : tip[n] \in Hash /\ Tip(n) \in Block
  BY DEF TypeOK, Tip
<1>1. ASSUME NEW n \in Nodes, BuildStake(n) PROVE TypeOK'
  <2> DEFINE t == Tip(n)
             b == [parent |-> tip[n], index |-> t.index + 1,
                   weight |-> t.weight, kind |-> "stake",
                   stakes |-> [t.stakes EXCEPT ![n] = @ + Amount],
                   sigs |-> {}, undisturbed |-> TRUE]
  <2>0. t \in Block
    BY <1>0
  <2>1. created + 1 \in Hash /\ tree' = [tree EXCEPT ![created + 1] = b]
    BY <1>1 DEF BuildStake
  <2>2. /\ created' = created + 1 /\ tip' = [tip EXCEPT ![n] = created + 1]
        /\ published' = published \cup {created + 1}
        /\ UNCHANGED <<proposals, signatures, pending, mining, undisturbed, sync, syncs>>
    BY <1>1 DEF BuildStake, topic
  <2> HIDE DEF t
  <2>3. b \in Block
    <3>1. [t.stakes EXCEPT ![n] = @ + Amount] \in [Nodes -> Nat]
      BY <2>0, BlockFields, GameBlockParameters
    <3>2. t.index + 1 \in Nat /\ t.weight \in Nat
      BY <2>0, BlockFields
    <3> QED BY <3>1, <3>2, <1>0 DEF Block
  <2> HIDE DEF b
  <2>4. tree' \in [Hash -> Block]
    BY <2>1, <2>3 DEF TypeOK
  <2> QED BY <2>1, <2>2, <2>4 DEF TypeOK
<1>2. ASSUME NEW n \in Nodes, NEW k, Propose(n, k) PROVE TypeOK'
  <2> DEFINE t == Tip(n)
             b == [parent |-> tip[n], index |-> t.index + 1,
                   weight |-> t.weight, kind |-> "game",
                   stakes |-> t.stakes, sigs |-> {}, undisturbed |-> FALSE]
             c == [step |-> "waiting", hash |-> created + 1, sigs |-> {}, weight |-> 0]
  <2>0. t \in Block
    BY <1>0
  <2>1. created + 1 \in Hash /\ tree' = [tree EXCEPT ![created + 1] = b]
    BY <1>2 DEF Propose
  <2>2. /\ created' = created + 1
        /\ proposals' = proposals \cup {[by |-> n, hash |-> created + 1]}
        /\ mining' = [mining EXCEPT ![n] = c]
        /\ undisturbed' = [undisturbed EXCEPT ![n] = TRUE]
        /\ UNCHANGED <<tip, published, signatures, pending, sync, syncs>>
    BY <1>2 DEF Propose
  <2> HIDE DEF t
  <2>3. b \in Block
    <3>1. t.index + 1 \in Nat /\ t.weight \in Nat /\ t.stakes \in [Nodes -> Nat]
      BY <2>0, BlockFields
    <3> QED BY <3>1, <1>0 DEF Block
  <2>4. c \in Waiting
    BY <2>1 DEF Waiting
  <2> HIDE DEF b, c
  <2>5. tree' \in [Hash -> Block]
    BY <2>1, <2>3 DEF TypeOK
  <2>6. mining' \in [Nodes -> Waiting \cup {Idle}]
    BY <2>2, <2>4 DEF TypeOK
  <2>7. proposals' \subseteq Proposal
    BY <2>1, <2>2 DEF TypeOK, Proposal
  <2> QED BY <2>1, <2>2, <2>5, <2>6, <2>7 DEF TypeOK
<1>3. ASSUME NEW n \in Nodes, AddMined(n) PROVE TypeOK'
  <2> DEFINE h == mining[n].hash
             t == tree[h]
             w == tree[t.parent].weight + mining[n].weight
             b == [parent |-> t.parent, index |-> t.index, weight |-> w,
                   kind |-> "game", stakes |-> t.stakes,
                   sigs |-> mining[n].sigs, undisturbed |-> undisturbed[n]]
  <2>1. /\ mining[n].step = "weighed"
        /\ mining' = [mining EXCEPT ![n] = Idle]
        /\ UNCHANGED <<created, proposals, signatures, pending, undisturbed, sync, syncs>>
    BY <1>3 DEF AddMined, topic
  <2>2. h \in Hash /\ mining[n].sigs \in SUBSET Nodes /\ mining[n].weight \in Nat
    BY <2>1, CallFields DEF TypeOK
  <2>3. t \in Block /\ t.parent \in Hash /\ tree[t.parent] \in Block
    BY <2>2, BlockFields DEF TypeOK
  <2>4. \/ UNCHANGED <<tip, tree, published>>
        \/ /\ tip' = [tip EXCEPT ![n] = h] /\ published' = published \cup {h}
           /\ tree' = [tree EXCEPT ![h] = b]
    BY <1>3, <2>2 DEF AddMined, TypeOK
  <2> HIDE DEF h, t
  <2>5. w \in Nat
    <3>1. tree[t.parent].weight \in Nat
      BY <2>3, BlockFields
    <3> QED BY <2>2, <3>1
  <2> HIDE DEF w
  <2>6. b \in Block
    <3>1. undisturbed[n] \in BOOLEAN
      BY DEF TypeOK
    <3> QED BY <2>2, <2>3, <2>5, <3>1, BlockFields DEF Block
  <2> HIDE DEF b
  <2>7. /\ tree' \in [Hash -> Block] /\ tip' \in [Nodes -> Hash]
        /\ published' \subseteq Hash
    <3>1. CASE UNCHANGED <<tip, tree, published>>
      BY <3>1 DEF TypeOK
    <3>2. CASE /\ tip' = [tip EXCEPT ![n] = h] /\ published' = published \cup {h}
               /\ tree' = [tree EXCEPT ![h] = b]
      <4>1. tree' \in [Hash -> Block]
        BY <2>6, <3>2 DEF TypeOK
      <4>2. tip' \in [Nodes -> Hash] /\ published' \subseteq Hash
        BY <2>2, <3>2 DEF TypeOK
      <4> QED BY <4>1, <4>2
    <3> QED BY <2>4, <3>1, <3>2
  <2>8. mining' \in [Nodes -> Waiting \cup {Idle}]
    BY <2>1 DEF TypeOK
  <2> QED BY <2>1, <2>7, <2>8 DEF TypeOK
<1>4. ASSUME NEW n \in Nodes, NEW s \in signatures, ReceiveSignature(n, s) PROVE TypeOK'
  BY <1>4 DEF ReceiveSignature, TypeOK, topic
<1>5. ASSUME NEW n \in Nodes, NEW x \in proposals, Sign(n, x) PROVE TypeOK'
  <2>1. x.hash \in Hash
    BY DEF TypeOK, Proposal
  <2>2. signatures' \subseteq Signature
    BY <1>5, <2>1 DEF Sign, TypeOK, Signature
  <2> QED BY <1>5, <2>2 DEF Sign, TypeOK
<1>6. ASSUME NEW n \in Nodes, TakeSignatures(n) PROVE TypeOK'
  <2> DEFINE c == [step |-> "signed", hash |-> mining[n].hash, sigs |-> Collected(n),
                   weight |-> 0]
  <2>1. Collected(n) \in SUBSET Nodes
    BY DEF Collected, TypeOK, Signature
  <2>2. mining[n].hash \in Hash
    BY CallFields DEF TypeOK
  <2>3. c \in Waiting
    BY <2>1, <2>2 DEF Waiting
  <2>4. mining' = [mining EXCEPT ![n] = c]
    BY <1>6 DEF TakeSignatures, TypeOK
  <2> HIDE DEF c
  <2>5. mining' \in [Nodes -> Waiting \cup {Idle}]
    BY <2>3, <2>4 DEF TypeOK
  <2>6. pending' \in [Nodes -> SUBSET Signature]
    BY <1>6 DEF TakeSignatures, TypeOK
  <2> QED BY <1>6, <2>5, <2>6 DEF TakeSignatures, TypeOK, topic
<1>7. ASSUME NEW n \in Nodes, Weigh(n) PROVE TypeOK'
  <2> DEFINE w == ValidatorWeight(Tip(n).stakes, mining[n].sigs)
             c == [step |-> "weighed", hash |-> mining[n].hash,
                   sigs |-> mining[n].sigs, weight |-> w]
  <2>1. mining[n].sigs \in SUBSET Nodes /\ mining[n].hash \in Hash
    BY CallFields DEF TypeOK
  <2>2. Tip(n).stakes \in [Nodes -> Nat]
    BY <1>0, BlockFields
  <2>3. w \in Nat \ {0}
    BY <2>1, <2>2, WeightIsPositive
  <2>4. mining' = [mining EXCEPT ![n] = c]
    BY <1>7 DEF Weigh, TypeOK
  <2> HIDE DEF w
  <2>5. c \in Waiting
    BY <2>1, <2>3 DEF Waiting
  <2> HIDE DEF c
  <2>6. mining' \in [Nodes -> Waiting \cup {Idle}]
    BY <2>4, <2>5 DEF TypeOK
  <2> QED BY <1>7, <2>6 DEF Weigh, TypeOK, topic
<1>8. ASSUME NEW n \in Nodes, NEW h \in published, Deliver(n, h) PROVE TypeOK'
  BY <1>8 DEF Deliver, TypeOK, topic
<1>9. ASSUME NEW n \in Nodes, NEW p \in Nodes, Fetch(n, p) PROVE TypeOK'
  <2>1. tip[p] \in Hash /\ Tip(n).weight \in Nat
    BY <1>0, BlockFields
  <2>2. sync' \in [Nodes -> Download \cup {None}]
    BY <1>9, <2>1 DEF Fetch, TypeOK, Download
  <2> QED BY <1>9, <2>2 DEF Fetch, TypeOK, topic
<1>10. ASSUME NEW n \in Nodes, Apply(n) PROVE TypeOK'
  <2>1. sync[n].tip \in Hash
    BY <1>10 DEF Apply, TypeOK, Download
  <2> QED BY <1>10, <2>1 DEF Apply, TypeOK, topic
<1>11. CASE UNCHANGED vars
  BY <1>11 DEF vars, topic, TypeOK
<1> QED BY <1>1, <1>2, <1>3, <1>4, <1>5, <1>6, <1>7, <1>8, <1>9, <1>10, <1>11 DEF Next

\* The tree, the topics and the calls keep their types, also the weights: for
\* a finite network the stakes behind a block add up to a natural number, and
\* a weighed block weighs at least 1.
THEOREM TypeCorrect ==
    ASSUME IsFiniteSet(Nodes)
    PROVE  Spec => []TypeOK
<1>1. Init => TypeOK
  BY InitTyped
<1>2. TypeOK /\ [Next]_vars => TypeOK'
  BY NextTyped
<1> QED BY <1>1, <1>2, PTL DEF Spec
=============================================================================
