------------------------------ MODULE MCAgent ------------------------------
(* Instances of Agent for TLC: the collectors are those of main(), of which *)
(* "ptp4l" is the one whose lines move the network collector and "gpsd"     *)
(* stands for a configured service without a handler.                       *)
EXTENDS Agent

CONSTANTS ptp4l, phc2sys, gpsd, eth0, eth1, uds, sys, free, none
=============================================================================
