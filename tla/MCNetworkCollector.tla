------------------------- MODULE MCNetworkCollector -------------------------
(* Two of the seven statistics files show every order of closing, opening    *)
(* and reading; with four descriptors one can be taken by somebody else.     *)
EXTENDS NetworkCollector

CONSTANTS eth0, eth1, none, minus1, free, other
=============================================================================
