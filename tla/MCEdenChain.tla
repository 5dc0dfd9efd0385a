---------------------------- MODULE MCEdenChain ----------------------------
(* Small instances of EdenChain for TLC.                                   *)
EXTENDS EdenChain

CONSTANTS n1, n2, w1, w2

\* Two calls on the same node, as two peers found one after the other start.
TwoCalls == (w1 :> n1) @@ (w2 :> n1)

\* A call on either node, the other one its peer.
MutualCalls == (w1 :> n1) @@ (w2 :> n2)

NoCall == << >>
=============================================================================
