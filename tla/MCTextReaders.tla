---------------------------- MODULE MCTextReaders ----------------------------
(* The parts that make sense of what other programs and the kernel write: the *)
(* collector of pmc's outputs beside a ptp4l that changes, and the stateless  *)
(* parts over their inputs.  A behaviour is one of the collector or one call  *)
(* of a stateless part, chosen at the start.                                  *)
EXTENDS MCParsers, MCPtpTopologyCollector

VARIABLE reader

readersVars == <<reader, subject, input, outcome, vars>>

ReadersInit == reader \in {"topology", "stateless"} /\ ParsersInit /\ Init

\* The call has returned.
CallReturned == subject # "none" /\ UNCHANGED <<subject, input, outcome>>

ReadersNext ==
  \/ reader = "topology" /\ Next /\ UNCHANGED <<reader, subject, input, outcome>>
  \/ reader = "stateless" /\ (ParsersNext \/ CallReturned) /\ UNCHANGED <<reader, vars>>

\* In a stateless behaviour the collector is not called and owes nothing.
ReadersSpec ==
  ReadersInit /\ [][ReadersNext]_readersVars /\ Fairness
=============================================================================
