--------------------------- MODULE MCEdenStreams ---------------------------
(* Small instances of EdenStreams for TLC.  ip3 is nobody's address; ip2    *)
(* ends in .255, so that it is flooded like 255.255.255.255 while there is  *)
(* no route to its node.                                                    *)
EXTENDS EdenStreams, TLC

CONSTANTS n1, n2, ip1, ip2, ip3

TwoAddresses == (n1 :> ip1) @@ (n2 :> ip2)
=============================================================================
