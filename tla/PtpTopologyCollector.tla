------------------------ MODULE PtpTopologyCollector ------------------------
(***************************************************************************)
(* PtpTopologyCollector::collect(): four pmc commands, one after the other,*)
(* against a ptp4l that keeps selecting masters meanwhile.  ptp4l is       *)
(* external: one best-master decision updates its data sets at once, and   *)
(* the port of the selected master is UNCALIBRATED before it is SLAVE.  The*)
(* handler of the ptp4l reader calls collect() for each best-master line   *)
(* that ptp4l logs; a change from UNCALIBRATED to SLAVE logs none.         *)
(***************************************************************************)
EXTENDS PtpTopologyParser, FiniteSets

CONSTANTS
  Local,       \* the clock of this node
  Masters,     \* the masters it may select
  NumPorts,    \* its ports
  MaxChanges   \* bound: changes in ptp4l

\* Ports are numbered from 1, and their numbers parse.
ASSUME TopologyAssumption == NumPorts \in Nat /\ NoNumber \notin 1 .. NumPorts

VARIABLES
  ptp,       \* the state of ptp4l: selected master, its port, whether SLAVE
  changes,   \* changes in ptp4l so far
  selected,  \* best-master lines the handler has not come to yet
  pc,        \* the command collect() runs next; "out" when it is not called
  output,    \* the output of each command run so far
  result,    \* what collect() returned: <<>> for nullopt
  seen       \* history: the states of ptp4l since collect() was called

vars == <<ptp, changes, selected, pc, output, result, seen>>

PtpStates ==
  {[master |-> Local, port |-> 0, slave |-> FALSE]}
  \cup [master : Masters, port : 1 .. NumPorts, slave : BOOLEAN]

-----------------------------------------------------------------------------
(* The outputs of pmc.  With boundary_hops = 0, as in all configurations,  *)
(* only this clock answers.  Of the CURRENT data set nothing matters here. *)

StateOf(s, p) ==
  IF p # s.port THEN "MASTER" ELSE IF s.slave THEN "SLAVE" ELSE "UNCALIBRATED"

Answer(s, command) ==
  CASE command = "default" -> <<[key |-> "clockIdentity", clock |-> Local]>>
    [] command = "parent" ->
         <<[key |-> "parentPortIdentity", port |-> 1, clock |-> s.master]>>
    [] command = "current" -> <<>>
    [] command = "ports" ->
         FlattenSeq([p \in 1 .. NumPorts |->
           <<[key |-> "portIdentity", clock |-> Local, port |-> p],
             [key |-> "portState", state |-> StateOf(s, p)]>>])

-----------------------------------------------------------------------------
Init ==
  /\ ptp = [master |-> Local, port |-> 0, slave |-> FALSE]
  /\ changes = 0
  /\ selected = 0
  /\ pc = "out"
  /\ output = <<>>
  /\ result = <<>>
  /\ seen = {}

\* A best-master decision, or the end of calibration.
Change ==
  /\ changes < MaxChanges
  /\ changes' = changes + 1
  /\ ptp' \in PtpStates \ {ptp}
  /\ ptp'.slave => ptp = [ptp' EXCEPT !.slave = FALSE]
  /\ selected' = IF ptp'.slave THEN selected ELSE selected + 1
  /\ seen' = IF pc = "out" THEN seen ELSE seen \cup {ptp'}
  /\ UNCHANGED <<pc, output, result>>

\* Mutant: the outputs of the last collect() are looked at first.
CollectCached ==
  /\ pc = "out"
  /\ selected > 0
  /\ selected' = selected - 1
  /\ pc' = "default"
  /\ result' = <<>>
  /\ seen' = {ptp}
  /\ UNCHANGED <<ptp, changes, output>>

Collect ==
  /\ pc = "out"
  /\ selected > 0
  /\ selected' = selected - 1
  /\ pc' = "default"
  /\ output' = <<>>
  /\ result' = <<>>
  /\ seen' = {ptp}
  /\ UNCHANGED <<ptp, changes>>

NextCommand(command) ==
  CASE command = "default" -> "parent"
    [] command = "parent" -> "current"
    [] command = "current" -> "ports"
    [] command = "ports" -> "parse"

RunCommand ==
  /\ pc \in {"default", "parent", "current", "ports"}
  /\ output' = Append(output, Answer(ptp, pc))
  /\ pc' = NextCommand(pc)
  /\ UNCHANGED <<ptp, changes, selected, result, seen>>

\* Mutant: the parent data set is optional too.
CommandFailsAnyway ==
  /\ pc \in {"default", "parent", "current", "ports"}
  /\ IF pc = "default"
       THEN pc' = "out" /\ UNCHANGED output
       ELSE pc' = NextCommand(pc) /\ output' = Append(output, <<>>)
  /\ UNCHANGED <<ptp, changes, selected, result, seen>>

\* pmc cannot be run or exits with an error.  Without the first two data sets
\* there is no snapshot, the other two may be missing.
CommandFails ==
  /\ pc \in {"default", "parent", "current", "ports"}
  /\ IF pc \in {"default", "parent"}
       THEN pc' = "out" /\ UNCHANGED output
       ELSE pc' = NextCommand(pc) /\ output' = Append(output, <<>>)
  /\ UNCHANGED <<ptp, changes, selected, result, seen>>

\* Mutant: lines that arrived during the collect are taken as handled.
ParseOutputsSkipping ==
  /\ pc = "parse"
  /\ pc' = "out"
  /\ selected' = 0
  /\ result' = Parse(output[1], output[2], output[3], output[4])
  /\ UNCHANGED <<ptp, changes, output, seen>>

ParseOutputs ==
  /\ pc = "parse"
  /\ pc' = "out"
  /\ result' = Parse(output[1], output[2], output[3], output[4])
  /\ UNCHANGED <<ptp, changes, selected, output, seen>>

\* ptp4l has settled and its last line is handled.
Quiet == changes = MaxChanges /\ pc = "out" /\ selected = 0 /\ UNCHANGED vars

Next ==
  Change \/ Collect \/ RunCommand \/ CommandFails \/ ParseOutputs \/ Quiet

Spec == Init /\ [][Next]_vars

\* The reader thread is scheduled and every pmc ends.
Fairness == WF_vars(Collect \/ RunCommand \/ CommandFails \/ ParseOutputs)

-----------------------------------------------------------------------------
(* Properties.                                                             *)

Returned == pc = "out" /\ result # <<>>

\* Each data set of a snapshot was true at some moment of the collect: the
\* parent, and apart from it the states of all ports (or no port at all, when
\* the command failed); a failed command takes nothing from an earlier one.
FieldsWereTrue ==
  Returned =>
    /\ result[1].local = Local
    /\ \E s \in seen : result[1].parent.clock = s.master
    /\ \/ result[1].ports = <<>> /\ result[1].childPort = 0
       \/ \E s \in seen :
            /\ result[1].ports = [p \in 1 .. NumPorts |->
                                    [number |-> p, state |-> StateOf(s, p)]]
            /\ result[1].childPort = IF s.slave THEN s.port ELSE 0

\* "parentClockIdentity -> localClockIdentity is the observed graph edge when
\* the local clock is synchronized through a SLAVE port": so it is when ptp4l
\* did not change during the collect (a change between two commands may yield
\* the parent of one moment with the SLAVE port of another).
EdgeObserved ==
  result[1].childPort # 0 =>
    \E s \in seen : /\ s.slave
                    /\ s.port = result[1].childPort
                    /\ s.master = result[1].parent.clock

QuietEdgeObserved == Returned /\ Cardinality(seen) = 1 => EdgeObserved

\* A change of master during a collect is not missed for good: when ptp4l has
\* settled, the last snapshot (if no command failed) shows its master.
LastSnapshotIsCurrent ==
  <>[](/\ pc = "out"
       /\ result # <<>> => result[1].parent.clock = ptp.master)
=============================================================================
