---------------------- MODULE MCPtpTopologyCollector ----------------------
(* A node with two ports and two masters to choose from.                    *)
EXTENDS PtpTopologyCollector

CONSTANTS m1, m2
=============================================================================
