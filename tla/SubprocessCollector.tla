------------------------ MODULE SubprocessCollector ------------------------
(***************************************************************************)
(* SubprocessCollector: the child process started through sudo, the pipe   *)
(* of its stdout, the reader thread in readEvent() and stop() on another   *)
(* thread.  The clock is that of the system, which ptp4l, phc2sys or an    *)
(* administrator may set forward or back at any moment; a line is its      *)
(* place in the output and whether it is empty.                            *)
(***************************************************************************)
EXTENDS Naturals, Sequences

CONSTANTS
  MaxLines,  \* bound: lines the child writes
  MaxClock   \* bound: readings of the clock

ASSUME SubprocessAssumption == MaxLines \in Nat /\ MaxClock \in Nat

VARIABLES
  clock,    \* the system clock
  shown,    \* history: its readings since readEvent() last returned an event
  child,    \* child_: "running", or "dead" and perhaps not yet noticed
  writer,   \* some process holds the write end of the pipe
  output,   \* the lines written so far, "text" or "empty"
  taken,    \* how many of them getline has taken from the pipe
  pc,       \* where readEvent() is; "out" when it has not been called
  stamp,    \* ts_usec of the event under construction
  events,   \* ts_usec of the events returned, and what was shown meanwhile
  stopped   \* stop() was called

vars == <<clock, shown, child, writer, output, taken, pc, stamp, events, stopped>>

Clock == 0 .. MaxClock
Lines == {"text", "empty"}
Events == [ts : Clock, shown : SUBSET Clock]

TypeOK ==
  /\ clock \in Clock
  /\ shown \in SUBSET Clock
  /\ child \in {"running", "dead"}
  /\ writer \in BOOLEAN
  /\ output \in Seq(Lines)
  /\ taken \in 0 .. Len(output)
  /\ pc \in {"out", "getline", "ended"}
  /\ stamp \in Clock
  /\ events \in Seq(Events)
  /\ stopped \in BOOLEAN

\* The constructor starts the child, or throws and there is no collector.
Init ==
  /\ clock \in Clock
  /\ shown = {clock}
  /\ child = "running"
  /\ writer = TRUE
  /\ output = <<>>
  /\ taken = 0
  /\ pc = "out"
  /\ stamp = clock
  /\ events = <<>>
  /\ stopped = FALSE

-----------------------------------------------------------------------------
(* The environment.                                                        *)

\* Time goes by, or the clock is set: forward or back.
Tick ==
  /\ clock' \in Clock
  /\ shown' = shown \cup {clock'}
  /\ UNCHANGED <<child, writer, output, taken, pc, stamp, events, stopped>>

ChildWrites ==
  /\ writer
  /\ Len(output) < MaxLines
  /\ \E line \in Lines : output' = Append(output, line)
  /\ UNCHANGED <<clock, shown, child, writer, taken, pc, stamp, events, stopped>>

\* The program ends, or closes its output: also one that was left behind.
ChildExits ==
  /\ writer
  /\ child' = "dead"
  /\ writer' = FALSE
  /\ UNCHANGED <<clock, shown, output, taken, pc, stamp, events, stopped>>

-----------------------------------------------------------------------------
(* readEvent() and stop().                                                 *)

\* Mutant: the time is that of the first call.
ReadEventFirstStamp ==
  /\ pc = "out"
  /\ pc' = "getline"
  /\ stamp' = IF events = <<>> THEN clock ELSE stamp
  /\ UNCHANGED <<clock, shown, child, writer, output, taken, events, stopped>>

\* The time is taken before getline is called.
ReadEvent ==
  /\ pc = "out"
  /\ pc' = "getline"
  /\ stamp' = clock
  /\ UNCHANGED <<clock, shown, child, writer, output, taken, events, stopped>>

NextLine == output[taken + 1]

ReturnEvent ==
  /\ pc' = "out"
  /\ events' = Append(events, [ts |-> stamp, shown |-> shown])
  /\ shown' = {clock}

ReturnNullopt == pc' = "ended" /\ UNCHANGED <<events, shown>>

\* Mutant: a line is returned and stays in the stream.
GetLinePeek ==
  /\ pc = "getline"
  /\ taken < Len(output)
  /\ IF NextLine = "empty" THEN ReturnNullopt ELSE ReturnEvent
  /\ UNCHANGED <<clock, child, writer, output, taken, stamp, stopped>>

\* Mutant: two lines are taken for one event.
GetLinePairs ==
  /\ pc = "getline"
  /\ taken < Len(output)
  /\ taken' = taken + 2
  /\ ReturnEvent
  /\ UNCHANGED <<clock, child, writer, output, stamp, stopped>>

\* An empty line is taken and nullopt returned.
GetLine ==
  /\ pc = "getline"
  /\ taken < Len(output)
  /\ taken' = taken + 1
  /\ IF NextLine = "empty" THEN ReturnNullopt ELSE ReturnEvent
  /\ UNCHANGED <<clock, child, writer, output, stamp, stopped>>

\* Mutant: readEvent() looks at the child instead of the pipe.
GetEofEarly ==
  /\ pc = "getline"
  /\ child = "dead"
  /\ ReturnNullopt
  /\ UNCHANGED <<clock, child, writer, output, taken, stamp, stopped>>

\* EOF: the pipe is empty and nobody can write to it.
GetEof ==
  /\ pc = "getline"
  /\ taken = Len(output)
  /\ ~writer
  /\ ReturnNullopt
  /\ UNCHANGED <<clock, child, writer, output, taken, stamp, stopped>>

\* Mutant: stop() only notes the request, as that of ICollector does.
StopIgnored ==
  /\ stopped' = TRUE
  /\ UNCHANGED <<clock, shown, child, writer, output, taken, pc, stamp, events>>

\* SIGKILL for sudo, if it still runs; the program it has started may be left
\* behind with the write end of the pipe.
Stop ==
  /\ stopped' = TRUE
  /\ child' = "dead"
  /\ writer' \in IF child = "running" THEN BOOLEAN ELSE {writer}
  /\ UNCHANGED <<clock, shown, output, taken, pc, stamp, events>>

Reader == ReadEvent \/ GetLine \/ GetEof

Next == Tick \/ ChildWrites \/ ChildExits \/ Reader \/ Stop

Spec == Init /\ [][Next]_vars

\* getline of the reader thread returns when it can; a program left behind
\* owes nobody a line or its end.
Fairness == WF_vars(GetLine \/ GetEof)

-----------------------------------------------------------------------------
(* Properties.                                                             *)

C == INSTANCE ICollector WITH
       MaxRecords <- MaxLines,
       produced <- Len(output),
       returned <- Len(events),
       call <- CASE pc = "out" -> "idle"
                 [] pc = "ended" -> "ended"
                 [] OTHER -> "reading",
       over <- ~writer

\* "Next event, or std::nullopt on EOF, stop, or fatal read failure."
\* (collector.h:160): the collector implements ICollector.
ImplementsICollector == C!Spec

\* The step by which it does not: an empty line is taken and nullopt returned.
TakesEmptyLine ==
  taken' = taken + 1 /\ NextLine = "empty" /\ pc' = "ended" /\ events' = events

\* Every other step of readEvent(), stop() and the child is one of ICollector
\* or does not show: each line is returned once and in order, and nullopt comes
\* at EOF or after stop() only.
KeepsContract == C!Init /\ [][C!Next \/ TakesEmptyLine]_(C!vars)

\* stop() ends a call that waits for a line that never comes, unless it has
\* left an orphan with the pipe behind.
Orphan == child = "dead" /\ writer

StopUnblocks == stopped /\ pc = "getline" ~> pc # "getline" \/ Orphan

\* What the child wrote before its end is not lost: nullopt comes after the
\* last line (or at an empty one), even when stop() kills the child.
EofDrains ==
  pc = "ended" => \/ taken = Len(output)
                  \/ taken > 0 /\ output[taken] = "empty"

\* The time of an event is one the system clock has shown between the return of
\* the event before it and its own return (readEvent() reads the clock once per
\* call, before it waits), however the clock is set meanwhile.  Times may go
\* back, and an event may be stamped before its line is written.
StampsOfTheirCalls == \A i \in 1 .. Len(events) : events[i].ts \in events[i].shown
=============================================================================
