------------------------- MODULE MCEdenMatchmaking -------------------------
(* Small instances of EdenMatchmaking for TLC.                             *)
EXTENDS EdenMatchmaking

\* Everyone queues alone.
Solo == [n \in Nodes |-> {<<n>>}]

\* Player 1 may bring player 2 or player 3.
BringsBoth == [n \in Nodes |-> IF n = 1 THEN {<<1, 2>>, <<1, 3>>, <<1>>} ELSE {<<n>>}]

SameElo == [p \in Players |-> 1500]

\* Player 3, the banned one, is the strongest and best host.
RisingElo == [p \in Players |-> 1300 + 100 * p]

\* A node is nearer to itself than to anyone else.
Near == [n \in Nodes |-> [p \in Players |-> IF p = n THEN 0 ELSE 40]]

\* Nothing has been measured that favours anyone.
Equal == [n \in Nodes |-> [p \in Players |-> 0]]

NoBans == [n \in Nodes |-> {}]

ThirdBanned == [n \in Nodes |-> {3}]
=============================================================================
