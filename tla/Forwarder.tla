----------------------------- MODULE Forwarder -----------------------------
(***************************************************************************)
(* What the agent promises its analyzer, without threads, locks or queue:  *)
(* a log of messages that grows at its end, in the order of each source;   *)
(* after a stop request at most one more message of each source; nothing   *)
(* once run() has returned.                                                *)
(***************************************************************************)
EXTENDS Naturals, Sequences

CONSTANTS
  Sources,  \* the producers of messages
  Numbers   \* natural numbers: the readings of a source, in order

VARIABLES
  log,    \* messages accepted for the analyzer, oldest first
  phase,  \* "open", "draining" after a stop request, "closed" after run()
  late    \* sources that have forwarded a message since the stop request

vars == <<log, phase, late>>

Init == log = <<>> /\ phase = "open" /\ late = {}

\* The next reading of a source that is worth a message; readings the agent
\* keeps to itself leave gaps in the numbering.
Forward(s) ==
  /\ phase # "closed"
  /\ s \notin late
  /\ \E n \in Numbers :
       /\ \A i \in 1 .. Len(log) : log[i].src = s => log[i].n < n
       /\ log' = Append(log, [src |-> s, n |-> n])
  /\ late' = IF phase = "draining" THEN late \cup {s} ELSE late
  /\ UNCHANGED phase

RequestStop ==
  /\ phase = "open"
  /\ phase' = "draining"
  /\ UNCHANGED <<log, late>>

Return ==
  /\ phase # "closed"
  /\ phase' = "closed"
  /\ UNCHANGED <<log, late>>

Next == RequestStop \/ Return \/ \E s \in Sources : Forward(s)

Spec == Init /\ [][Next]_vars
=============================================================================
