---------------------------- MODULE MCEdenFriends ----------------------------
(* EdenFriends on small instances.                                          *)
EXTENDS EdenFriends, TLC
CONSTANTS n1, n2, n3

\* The nodes that do not crash are alike.
Alike == Permutations({n2, n3})
=============================================================================
