--------------------------- MODULE MCEdenGameBlock ---------------------------
(* EdenGameBlock on small instances.                                        *)
EXTENDS EdenGameBlock, TLC

\* Validators that neither mine nor differ in anything else.
Validators == Permutations(Stakers \ Miners)
=============================================================================
