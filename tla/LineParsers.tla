---------------------------- MODULE LineParsers ----------------------------
(***************************************************************************)
(* The parsers of log lines and the handlers that choose between them.  A  *)
(* line is the sequence of its blank-separated tokens; a token has the     *)
(* kind that tells conversions apart and a text:                           *)
(*   "stamp"   [12.5]      the time in front of a line                     *)
(*   "num"     -42         a number                                        *)
(*   "numcomma" 3,         a number with a comma behind it                 *)
(*   "state"   s2          a servo state                                   *)
(*   "paren"   (eth0):     a port name                                     *)
(*   "portid"  b8ce.f6-1   a clock identity with a port number             *)
(*   "word"    anything else                                               *)
(* A format of sscanf is a sequence of items <<kind, x>>: a literal x, a   *)
(* conversion into the field x, or one without a field ("skip", "skipnum").*)
(***************************************************************************)
EXTENDS Naturals, Sequences, FiniteSets, SequencesExt, FiniteSetsExt

NoEvent == [event |-> "none", fields |-> {}]

Lit(x) == <<"lit", x>>
Skip == <<"skip", "none">>
SkipNum == <<"skipnum", "none">>

\* %s takes any token, %[^\n] any tail; a number or a name has its own form.
Fits(item, token) ==
  CASE item[1] = "lit" -> token.text = item[2]
    [] item[1] \in {"skip", "word", "rest"} -> TRUE
    [] item[1] = "skipnum" -> token.kind = "num"
    [] OTHER -> token.kind = item[1]

Conversions(item) ==
  CASE item[1] \in {"lit", "skip", "skipnum"} -> 0
    [] item[1] = "portid" -> 2
    [] OTHER -> 1

\* sscanf: the items that match before the first that does not, and the
\* conversions <<i, c>> of them, the c-th of item i; what comes after the last
\* conversion is not looked at.  The result counts only when there are as many
\* conversions as expected.
Scan(event, format, count, line) ==
  LET n == Max({k \in 0 .. Min({Len(format), Len(line)}) :
                  \A i \in 1 .. k : Fits(format[i], line[i])})
      converted == {p \in (1 .. n) \X {1, 2} : p[2] <= Conversions(format[p[1]])}
      Value(i) == IF format[i][1] = "rest" THEN SubSeq(line, i, Len(line))
                                           ELSE <<line[i]>>
  IN  IF Cardinality(converted) = count
        THEN [event |-> event,
              fields |-> {<<format[p[1]][2], Value(p[1])>> : p \in converted}]
        ELSE NoEvent

\* The first alternative that gives an event.
FirstOf(events) ==
  LET i == SelectInSeq(events, LAMBDA e : e # NoEvent)
  IN  IF i = 0 THEN NoEvent ELSE events[i]

\* std::string::find of some words, with blanks around them: that find takes
\* them inside a longer word too, or before a comma, is left out.
Mentions(line, words) ==
  \E i \in 0 .. Len(line) - Len(words) :
    \A j \in DOMAIN words : line[i + j].text = words[j]

-----------------------------------------------------------------------------
Stamp == <<"stamp", "timestamp">>

\* Mutant: the value before "max" is taken for the offset.
RmsTailMean ==
  <<Lit("rms"), <<"num", "offset">>, Lit("max"), SkipNum,
    Lit("freq"), <<"num", "freq">>, Lit("+/-"), SkipNum,
    Lit("delay"), <<"num", "path_delay">>>>

\* The summary of an interval; offset is its maximum.
RmsTail ==
  <<Lit("rms"), SkipNum, Lit("max"), <<"num", "offset">>,
    Lit("freq"), <<"num", "freq">>, Lit("+/-"), SkipNum,
    Lit("delay"), <<"num", "path_delay">>>>

OffsetTail ==
  <<Lit("offset"), <<"num", "offset">>, <<"state", "state">>,
    Lit("freq"), <<"num", "freq">>>>

\* Ptp4lParser::parseMetrics; the line of a port without a path delay is none.
Ptp4lRms(line) == Scan("metrics", <<Stamp>> \o RmsTail, 4, line)

Ptp4lOffset(line) ==
  Scan("metrics",
       <<Stamp, Skip>> \o OffsetTail
         \o <<Lit("path"), Lit("delay"), <<"num", "path_delay">>>>, 5, line)

Ptp4lMetrics(line) == FirstOf(<<Ptp4lRms(line), Ptp4lOffset(line)>>)

\* Phc2SysParser::parseMetrics.
Phc2sysMetrics(line) ==
  FirstOf(<<Scan("metrics", <<Stamp, Skip>> \o RmsTail, 4, line),
            Scan("metrics",
                 <<Stamp, Skip, Skip>> \o OffsetTail
                   \o <<Lit("delay"), <<"num", "path_delay">>>>, 5, line)>>)

PortHead == <<Stamp, Lit("port"), <<"num", "portNumber">>, <<"paren", "portName">>>>

PortChange(line) ==
  IF ~(Mentions(line, <<"port">>) /\ Mentions(line, <<"to">>)) THEN NoEvent
  ELSE Scan("port", PortHead \o <<<<"word", "fromState">>, Lit("to"), <<"word", "toState">>,
                                  Lit("on"), <<"rest", "trigger">>>>, 6, line)

ForeignMaster(line) ==
  IF ~Mentions(line, <<"new", "foreign", "master">>) THEN NoEvent
  ELSE Scan("foreign", PortHead \o <<Lit("new"), Lit("foreign"), Lit("master"),
                                     <<"portid", "masterClockIdentity">>>>, 5, line)

\* Mutant: the time stamp is not counted.
BestMasterCount(line) ==
  LET Selected(words) ==
        Scan("best", <<Stamp, Lit("selected")>> \o words \o <<<<"word", "masterClockIdentity">>>>,
             1, line)
  IN  IF ~Mentions(line, <<"selected">>) THEN NoEvent
      ELSE FirstOf(<<Selected(<<Lit("best"), Lit("master"), Lit("clock")>>),
                     Selected(<<Lit("local"), Lit("clock")>>)>>)

BestMaster(line) ==
  LET Selected(words) ==
        Scan("best", <<Stamp, Lit("selected")>> \o words \o <<<<"word", "masterClockIdentity">>>>,
             2, line)
  IN  IF ~Mentions(line, <<"selected">>) THEN NoEvent
      ELSE FirstOf(<<Selected(<<Lit("best"), Lit("master"), Lit("clock")>>),
                     Selected(<<Lit("local"), Lit("clock")>>)>>)

PpsMetrics(line) ==
  Scan("metrics", <<Lit("timestamp:"), <<"numcomma", "timestamp">>, Lit("sequence:"),
                    <<"numcomma", "sequence">>, Lit("offset:"), <<"num", "offset">>>>, 3, line)

\* The parsers of ptp4l in the order its handler tries them, and the event of
\* a line of each unit.
Ptp4lParsers(line) ==
  <<Ptp4lRms(line), Ptp4lOffset(line), PortChange(line), ForeignMaster(line),
    BestMaster(line)>>

Handle(unit, line) ==
  CASE unit = "ptp4l" ->
         FirstOf(<<Ptp4lMetrics(line), PortChange(line), ForeignMaster(line),
                   BestMaster(line)>>)
    [] unit = "phc2sys" ->
         LET metrics == Phc2sysMetrics(line)
         IN  IF metrics # NoEvent \/ ~Mentions(line, <<"Waiting", "for", "ptp4l">>)
               THEN metrics ELSE [event |-> "waiting", fields |-> {}]
    [] unit = "ppswatch" -> PpsMetrics(line)
=============================================================================
