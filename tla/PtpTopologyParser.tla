------------------------- MODULE PtpTopologyParser -------------------------
(***************************************************************************)
(* PtpTopologyParser::parse over the lines of the four pmc outputs.  A line*)
(* is what parseKeyValue makes of it: a key and the tokens of its value    *)
(* that parse() looks at; a line it rejects, or whose key parse() does not *)
(* know, is [key |-> "none"].                                              *)
(***************************************************************************)
EXTENDS Naturals, Sequences, SequencesExt

CONSTANTS
  NoClock,  \* an empty clock identity
  NoNumber  \* a number that does not parse

NoState == ""

\* Each line takes the result so far to the next one.  The last clockIdentity
\* line counts.
TakeDefault(local, line) == IF line.key = "clockIdentity" THEN line.clock ELSE local

ParseDefault(lines) == FoldLeft(TakeDefault, NoClock, lines)

\* Mutant: a port number that does not parse counts as port 0.
TakeParentZero(parent, line) ==
  CASE line.key = "parentPortIdentity" ->
         [parent EXCEPT !.clock = line.clock,
                        !.port = IF line.port = NoNumber THEN 0 ELSE line.port]
    [] line.key = "grandmasterIdentity" -> [parent EXCEPT !.grandmaster = line.clock]
    [] OTHER -> parent

\* A parentPortIdentity without a port number keeps the number found before.
TakeParent(parent, line) ==
  CASE line.key = "parentPortIdentity" ->
         [parent EXCEPT !.clock = line.clock,
                        !.port = IF line.port = NoNumber THEN @ ELSE line.port]
    [] line.key = "grandmasterIdentity" -> [parent EXCEPT !.grandmaster = line.clock]
    [] OTHER -> parent

ParseParent(lines) ==
  FoldLeft(TakeParent, [clock |-> NoClock, port |-> 0, grandmaster |-> NoClock], lines)

TakeCurrent(current, line) ==
  IF line.key \in {"stepsRemoved", "meanPathDelay"} /\ line.value # NoNumber
    THEN [current EXCEPT ![line.key] = line.value]
    ELSE current

ParseCurrent(lines) ==
  FoldLeft(TakeCurrent, [stepsRemoved |-> 0, meanPathDelay |-> 0], lines)

NewPort(line) ==
  [number |-> IF line.port = NoNumber THEN 0 ELSE line.port, state |-> NoState]

\* Mutant: a new portIdentity line drops the port before it.
TakePortLast(acc, line) ==
  CASE line.key = "portIdentity" -> [acc EXCEPT !.current = <<NewPort(line)>>]
    [] line.key = "portState" /\ acc.current # <<>> ->
         [acc EXCEPT !.current[1].state = line.state]
    [] OTHER -> acc

\* currentPort is a sequence of at most one port; a portIdentity line starts
\* the next port, a portState line before the first is skipped.
TakePort(acc, line) ==
  CASE line.key = "portIdentity" ->
         [ports |-> acc.ports \o acc.current, current |-> <<NewPort(line)>>]
    [] line.key = "portState" /\ acc.current # <<>> ->
         [acc EXCEPT !.current[1].state = line.state]
    [] OTHER -> acc

ParsePorts(lines) ==
  LET end == FoldLeft(TakePort, [ports |-> <<>>, current |-> <<>>], lines)
  IN  end.ports \o end.current

\* Mutant: the last SLAVE port counts.
ChildPortLast(ports) ==
  LET i == SelectLastInSeq(ports, LAMBDA port : port.state = "SLAVE")
  IN  IF i = 0 THEN 0 ELSE ports[i].number

\* The first port in state SLAVE; 0 when there is none.
ChildPort(ports) ==
  LET i == SelectInSeq(ports, LAMBDA port : port.state = "SLAVE")
  IN  IF i = 0 THEN 0 ELSE ports[i].number

\* The snapshot, or the empty sequence for nullopt.
Parse(default, parent, current, port) ==
  LET local == ParseDefault(default)
  IN  IF local = NoClock
        THEN <<>>
        ELSE <<[local |-> local,
                parent |-> ParseParent(parent),
                current |-> ParseCurrent(current),
                ports |-> ParsePorts(port),
                childPort |-> ChildPort(ParsePorts(port))]>>
=============================================================================
