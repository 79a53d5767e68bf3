----------------------------- MODULE MCParsers -----------------------------
(***************************************************************************)
(* The stateless parts against declarative definitions of their results:   *)
(* the topology parser over all short outputs, the line parsers over the   *)
(* lines of the three programs and damaged forms of them, the hwmon scan   *)
(* over small directories, the reader of /proc texts over a short buffer,  *)
(* the resolver of adapter names over failing calls.                       *)
(* One step gives one subject one input.                                   *)
(***************************************************************************)
EXTENDS PtpTopologyParser, LineParsers, Hwmon, ProcText, AdapterResolver

CONSTANTS
  a, b, g,        \* clocks
  MaxPortLines    \* bound: lines of PORT_DATA_SET

ASSUME ParsersAssumption == MaxPortLines \in Nat

UpTo(S, n) == UNION {[1 .. k -> S] : k \in 0 .. n}

VARIABLES
  subject,  \* what was called; "none" at first
  input,    \* its arguments
  outcome    \* what it returned

ParsersInit == subject = "none" /\ input = <<>> /\ outcome = <<>>

Run(what, arguments, value) ==
  /\ subject' = what
  /\ input' = arguments
  /\ outcome' = value

-----------------------------------------------------------------------------
(* pmc outputs                                                             *)

Noise == [key |-> "none"]

DefaultLines == {Noise, [key |-> "clockIdentity", clock |-> a],
                 [key |-> "clockIdentity", clock |-> b]}
ParentLines ==
  {[key |-> "parentPortIdentity", clock |-> c, port |-> p] :
     c \in {a, b}, p \in {2, NoNumber}}
  \cup {[key |-> "grandmasterIdentity", clock |-> g]}
CurrentLines ==
  {[key |-> k, value |-> v] :
     k \in {"stepsRemoved", "meanPathDelay"}, v \in {1, 7, NoNumber}}
PortLines ==
  {[key |-> "portIdentity", clock |-> a, port |-> p] : p \in {1, 2, NoNumber}}
  \cup {[key |-> "portState", state |-> s] : s \in {"SLAVE", "MASTER"}}

TopologyOutputs ==
  [default : UpTo(DefaultLines, 2), parent : UpTo(ParentLines, 2),
   current : UpTo(CurrentLines, 1), port : {<<>>}]
  \cup [default : UpTo(DefaultLines, 2), parent : {<<>>},
        current : UpTo(CurrentLines, 2), port : {<<>>}]
  \cup [default : UpTo(DefaultLines, 1), parent : {<<>>}, current : {<<>>},
        port : UpTo(PortLines, MaxPortLines)]

ParseTopology ==
  \E o \in TopologyOutputs :
    Run("topology", o, Parse(o.default, o.parent, o.current, o.port))

Snapshot == subject = "topology" /\ outcome # <<>>

\* The value at the last line that satisfies a test.
LastOr(lines, Test(_), Value(_), otherwise) ==
  LET I == {i \in DOMAIN lines : Test(lines[i])}
  IN  IF I = {} THEN otherwise
      ELSE Value(lines[Max(I)])

Identities(lines) == {i \in DOMAIN lines : lines[i].key = "portIdentity"}

\* The lines that belong to the portIdentity line i: up to the next one.
Belonging(lines, i) ==
  {j \in DOMAIN lines : j > i /\ \A k \in Identities(lines) : k > i => j < k}

\* The port that line i begins.
PortAt(lines, i) ==
  [number |-> IF lines[i].port = NoNumber THEN 0 ELSE lines[i].port,
   state |-> LET S == {j \in Belonging(lines, i) : lines[j].key = "portState"}
             IN  IF S = {} THEN "" ELSE lines[Max(S)].state]

\* How many ports have begun by line i.
Rank(lines, i) == Cardinality({j \in Identities(lines) : j <= i})

\* Every port of the output is in the snapshot, in order, with the state that
\* follows its identity and precedes the next one: no state crosses over to a
\* neighbour and the last port is not lost.
PortsAsListed ==
  Snapshot =>
    LET lines == input.port
        ports == outcome[1].ports
    IN  /\ Len(ports) = Cardinality(Identities(lines))
        /\ \A i \in Identities(lines) : ports[Rank(lines, i)] = PortAt(lines, i)

\* The child port is that of a SLAVE port with none before it.
ChildIsFirstSlave ==
  Snapshot =>
    LET lines == input.port
        S == {i \in Identities(lines) : PortAt(lines, i).state = "SLAVE"}
    IN  outcome[1].childPort = IF S = {} THEN 0 ELSE PortAt(lines, Min(S)).number

\* What the last lines say.
LocalOf(lines) ==
  LastOr(lines, LAMBDA l : l.key = "clockIdentity", LAMBDA l : l.clock, NoClock)

ParentOf(lines) ==
  [clock |-> LastOr(lines, LAMBDA l : l.key = "parentPortIdentity", LAMBDA l : l.clock, NoClock),
   port |-> LastOr(lines, LAMBDA l : l.key = "parentPortIdentity" /\ l.port # NoNumber,
                   LAMBDA l : l.port, 0),
   grandmaster |-> LastOr(lines, LAMBDA l : l.key = "grandmasterIdentity",
                          LAMBDA l : l.clock, NoClock)]

CurrentOf(lines, k) ==
  LastOr(lines, LAMBDA l : l.key = k /\ l.value # NoNumber, LAMBDA l : l.value, 0)

\* Without a clock identity there is no snapshot; with one, each scalar field
\* is that of the last line that has it, and a bad number does not erase the
\* good one before it.
ScalarsAreLast ==
  subject = "topology" =>
    LET local == LocalOf(input.default)
    IN  IF local = NoClock
          THEN outcome = <<>>
          ELSE /\ Len(outcome) = 1
               /\ outcome[1].local = local
               /\ outcome[1].parent = ParentOf(input.parent)
               /\ \A k \in {"stepsRemoved", "meanPathDelay"} :
                    outcome[1].current[k] = CurrentOf(input.current, k)

-----------------------------------------------------------------------------
(* Log lines                                                               *)

\* Tokens are cut out of the lines of ptp4l, phc2sys and ppswatch.
W(text) == [kind |-> "word", text |-> text]
N(text) == [kind |-> "num", text |-> text]
Time == [kind |-> "stamp", text |-> "[12.5]"]
Words(texts) == [i \in DOMAIN texts |-> W(texts[i])]
Port1 == <<Time, W("port"), N("1"), [kind |-> "paren", text |-> "eth0"]>>
Rms == <<W("rms"), N("32"), W("max"), N("40"), W("freq"), N("+12"), W("+/-"), N("5"),
         W("delay"), N("90"), W("+/-"), N("16")>>
Offset == <<W("offset"), N("-21"), [kind |-> "state", text |-> "s2"], W("freq"), N("+32")>>

\* The lines the programs write, and the event each of them is.
Lines ==
  {<<"ptp4l", "metrics", <<Time>> \o Rms>>,
   <<"ptp4l", "metrics", <<Time, W("master")>> \o Offset \o <<W("path"), W("delay"), N("7")>>>>,
   <<"ptp4l", "port", Port1 \o Words(<<"LISTENING", "to", "SLAVE", "on", "SELECTED">>)>>,
   <<"ptp4l", "foreign", Port1 \o Words(<<"new", "foreign", "master">>)
                           \o <<[kind |-> "portid", text |-> "e0d4-1"]>>>>,
   <<"ptp4l", "best", <<Time>> \o Words(<<"selected", "best", "master", "clock", "e0d4">>)>>,
   <<"ptp4l", "best", <<Time>> \o Words(<<"selected", "local", "clock", "e0d4",
                                       "as", "best", "master">>)>>,
   <<"phc2sys", "metrics", <<Time, W("CLOCK_REALTIME")>> \o Rms>>,
   <<"phc2sys", "metrics", <<Time, W("CLOCK_REALTIME"), W("phc")>> \o Offset
                             \o <<W("delay"), N("14")>>>>,
   <<"phc2sys", "waiting", <<Time>> \o Words(<<"Waiting", "for", "ptp4l">>)>>,
   <<"ppswatch", "metrics", <<W("timestamp:"), [kind |-> "numcomma", text |-> "9"], W("sequence:"),
                              [kind |-> "numcomma", text |-> "3"], W("offset:"), N("-6")>>>>}

Others == Words(<<"to", "on", "selected", "rms", "offset", "delay", "new">>) \o <<N("8")>>

\* A line cut short, with a token lost, doubled or taken for another, or with
\* two neighbours in the wrong order.
Damaged(line) ==
  {SubSeq(line, 1, n) : n \in 0 .. Len(line)}
  \cup {RemoveAt(line, i) : i \in DOMAIN line}
  \cup {InsertAt(line, i, line[i]) : i \in DOMAIN line}
  \cup {[line EXCEPT ![i] = Others[j]] : i \in DOMAIN line, j \in DOMAIN Others}
  \cup {[line EXCEPT ![i] = line[i + 1], ![i + 1] = line[i]] : i \in 1 .. (Len(line) - 1)}

ParseLine ==
  \E known \in Lines : \E line \in Damaged(known[3]) :
    Run("line", [unit |-> known[1], line |-> line, whole |-> line = known[3],
                 event |-> known[2]],
        Handle(known[1], line))

\* The words that stand before the value of a field, whatever the format.
Labels(field) ==
  CASE field = "offset" -> {"offset", "offset:", "max"}
    [] field = "freq" -> {"freq"}
    [] field = "path_delay" -> {"delay"}
    [] field = "portNumber" -> {"port"}
    [] field = "toState" -> {"to"}
    [] field = "trigger" -> {"on"}
    [] field = "masterClockIdentity" -> {"clock", "master"}
    [] field = "sequence" -> {"sequence:"}
    [] OTHER -> {}

\* Every line of the three programs leads to its event, and each field of an
\* event was in the line behind the word that names it: neither the %*s that
\* stand for any word nor a cut or damaged line shifts a value into another
\* field (the formats of collector.cpp).
FieldsAreLabelled ==
  subject = "line" =>
    /\ input.whole => outcome.event = input.event
    /\ \A f \in outcome.fields :
         Labels(f[1]) # {} =>
           \E i \in 2 .. Len(input.line) :
             /\ input.line[i - 1].text \in Labels(f[1])
             /\ f[2] = SubSeq(input.line, i, i + Len(f[2]) - 1)

\* At most one parser of ptp4l takes a line, so that the order in which the
\* handler tries them does not decide what is sent (agent.cpp:30-92).
OneMeaning ==
  subject = "line" =>
    LET events == Ptp4lParsers(input.line)
    IN  \A i, j \in DOMAIN events :
          events[i] # NoEvent /\ events[j] # NoEvent => i = j

-----------------------------------------------------------------------------
(* hwmon directories                                                       *)

Directories == {<<>>, <<"other", "zone", "zone">>, <<"label", "zone">>,
                <<"zone", "input", "zone">>, <<"zone", "error", "zone">>, <<"open">>,
                <<"zone", "unnumbered">>}
Devices == [name : {"coretemp", "nvme", NoName}, dir : Directories] \cup {[name |-> Error]}

ScanHwmon ==
  \E devices \in UpTo(Devices, 3), sensors \in {{"coretemp"}, {"coretemp", "nvme"}},
     failing \in {{}, {<<1, 1>>}} :
    Run("hwmon", [devices |-> devices, sensors |-> sensors, failing |-> failing],
        Readings(TempZones(devices, sensors), failing))

\* The devices of a name; the zones of a device that can be reached and read.
Named(devices, s) == {d \in DOMAIN devices : devices[d].name = s}

ReadZones(devices, failing, d) ==
  LET dir == devices[d].dir
  IN  {<<d, z>> : z \in {y \in DOMAIN dir : /\ dir[y] = "zone"
                                             /\ <<d, y>> \notin failing
                                             /\ \A x \in DOMAIN dir : x < y => dir[x] # "error"}}

\* The devices of the configured names.
Matching(devices, sensors) == {d \in DOMAIN devices : devices[d].name \in sensors}

\* The constructor returns after a whole scan.
Scanned ==
  /\ subject = "hwmon" /\ outcome # Thrown
  /\ \A d \in DOMAIN input.devices : input.devices[d].name # Error

\* Every reading is a readable zone of a matching device, and a device that
\* shares its name with no other has all of them.
ReadsMatching(devices, sensors, failing, readings) ==
  /\ \A r \in readings : \E d \in Matching(devices, sensors) : r \in ReadZones(devices, failing, d)
  /\ \A d \in Matching(devices, sensors) :
       Named(devices, devices[d].name) = {d} => ReadZones(devices, failing, d) \subseteq readings

\* A reading is of a zone that has a label and an input, of a device with a
\* configured name; what cannot be read in one directory or of one zone costs
\* no other zone, of this sensor or another (system_metrics.cpp:112-206).
ZonesOfSensors ==
  Scanned => ReadsMatching(input.devices, input.sensors, input.failing, outcome)

\* "Builds the set of readable temperature zones for matching sensors."
\* (system_metrics.h:181): of every device with a configured name, if none of
\* them makes the constructor throw.
EveryMatchingZone ==
  Scanned /\ (\A d \in Matching(input.devices, input.sensors) : ~StoiThrows(input.devices[d])) =>
    \A d \in Matching(input.devices, input.sensors) :
      ReadZones(input.devices, input.failing, d) \subseteq outcome

-----------------------------------------------------------------------------
(* Texts of /proc                                                          *)

ProcKeys == {"intr", "ctxt", "softirq"}

\* The cells of a text are told apart.
ASSUME ProcAssumption ==
  /\ Keys \subseteq ProcKeys
  /\ {"1", "2", "3"} \subseteq Digits
  /\ Digits \cap ({Blank, NL} \cup ProcKeys) = {}
  /\ {Blank, NL} \cap ProcKeys = {}
  /\ Blank # NL

TextLine(key) ==
  {<<>>, <<key, Blank, "1", NL>>, <<key, Blank, "1", "2", Blank, "3", NL>>,
   <<key, "2", "1", NL>>}
Texts == {i \o c \o s : i \in TextLine("intr"), c \in TextLine("ctxt"),
                        s \in TextLine("softirq")}

ReadProc ==
  \E old, text \in Texts :
    Run("proc", [old |-> old, text |-> text], CollectText(old, text))

\* Every counter is of this reading: its number if the line came before the
\* end of the buffer, the part of it before the end, or the default; nothing
\* that an earlier, longer reading has left, and no number of another line
\* (system_metrics.cpp:280-331, 354-380).
NumbersOfThisReading ==
  subject = "proc" /\ outcome # NoStats =>
    \A key \in Keys :
      LET at == {i \in DOMAIN input.text : input.text[i] = key}
          Number(i) ==
            LET from == IF input.text[i + 1] = Blank THEN i + 2 ELSE i + 1
                to == CHOOSE j \in from .. Len(input.text) :
                        /\ input.text[j] \in Digits
                        /\ input.text[j + 1] \notin Digits
                        /\ \A m \in from .. j : input.text[m] \in Digits
            IN  SubSeq(input.text, from, Min({to, Capacity}))
      IN  outcome[key] = IF at = {} THEN <<>> ELSE Number(CHOOSE i \in at : TRUE)

-----------------------------------------------------------------------------
(* Adapter names                                                           *)

ResolveAdapter == \E fails \in SUBSET Steps : Run("adapter", fails, Resolve(fails))

\* Every resource of a log is released once after it was taken, the device
\* before the access.
Balanced(log) ==
  LET At(mark, r) == {i \in DOMAIN log : log[i] = <<mark, r>>}
  IN  /\ \A r \in {"fd", "access", "device"} :
           /\ Cardinality(At("+", r)) = Cardinality(At("-", r))
           /\ \A i \in At("+", r), j \in At("-", r) : i < j
      /\ \A i \in At("-", "device"), j \in At("-", "access") : i < j

\* Whatever call fails, the socket, the libpci access and its device are each
\* released once after they were taken, the device before the access it is
\* of; a name is returned when nothing failed (network_adapter_resolver.cpp).
ResolverReleases ==
  subject = "adapter" => Balanced(outcome.log) /\ (outcome.ok <=> input = {})

-----------------------------------------------------------------------------
ParsersNext ==
  /\ subject = "none"
  /\ ParseTopology \/ ParseLine \/ ScanHwmon \/ ReadProc \/ ResolveAdapter

ParsersSpec == ParsersInit /\ [][ParsersNext]_<<subject, input, outcome>>
=============================================================================
