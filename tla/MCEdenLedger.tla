---------------------------- MODULE MCEdenLedger ----------------------------
(* Small instances of EdenLedger for TLC.                                  *)
EXTENDS EdenLedger

CONSTANTS p1, p2, p3, mint

\* Two versions of a three-player list, so that a restarted match can change
\* its roster and lose a voter.
MatchRosters == {<<p1, p2, p3>>, <<p1, p2>>}

\* A match of two, and one a host plays alone and can decide alone.
CoinRosters == {<<p1, p2>>, <<p1>>}

SignedAmounts == {5, -5}

StakeAmounts == {5, 10, -5}

BettorCoins == [p \in Accounts |-> IF p = p1 THEN 15 ELSE IF p = p2 THEN 5 ELSE 0]

ValidatorCoins == [p \in Accounts |-> IF p \in System THEN 0 ELSE 10]
=============================================================================
