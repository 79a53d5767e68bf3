--------------------- MODULE SubprocessCollectorProofs ---------------------
(***************************************************************************)
(* The drained output, the times of the events and the contract of         *)
(* ICollector, for any number of lines and every clock.                    *)
(***************************************************************************)
EXTENDS SubprocessCollector, TLAPS

\* Nobody writes once the pipe is closed, and a collector that has seen its end
\* has seen it closed; the lines before the end were not empty.
PipeInv ==
  /\ child = "running" => writer
  /\ pc = "ended" => \/ taken = Len(output) /\ ~writer
                     \/ taken > 0 /\ output[taken] = "empty"
  /\ pc # "ended" => \A i \in 1 .. taken : output[i] # "empty"

\* Every line taken gave an event, but for the one that ended the collector;
\* a call under way has stamped its event with what the clock has shown.
EventInv ==
  /\ Len(events) <= taken
  /\ pc # "ended" => Len(events) = taken
  /\ clock \in shown
  /\ pc = "getline" => stamp \in shown

SubprocessInv == TypeOK /\ PipeInv /\ EventInv /\ StampsOfTheirCalls

-----------------------------------------------------------------------------
\* The constructor leaves an empty pipe and no event.
LEMMA SubprocessInvInit == Init => SubprocessInv
<1> SUFFICES ASSUME Init PROVE SubprocessInv  OBVIOUS
<1>1. output = <<>> /\ events = <<>> /\ Len(output) = 0 /\ Len(events) = 0
  BY DEF Init
<1>2. TypeOK
  <2>1. <<>> \in Seq(Lines) /\ <<>> \in Seq(Events)  OBVIOUS
  <2>2. taken \in 0 .. Len(output)  BY <1>1 DEF Init
  <2> QED  BY <2>1, <2>2 DEF Init, TypeOK
<1> QED
  BY <1>1, <1>2 DEF Init, SubprocessInv, PipeInv, EventInv, StampsOfTheirCalls

\* A line is appended, those taken stay as they were.
LEMMA SubprocessInvWrites == SubprocessInv /\ ChildWrites => SubprocessInv'
<1> SUFFICES ASSUME SubprocessInv, ChildWrites PROVE SubprocessInv'  OBVIOUS
<1> USE DEF SubprocessInv
<1>1. PICK line \in Lines : output' = Append(output, line)  BY DEF ChildWrites
<1>2. /\ output \in Seq(Lines) /\ taken \in 0 .. Len(output) /\ Len(output) \in Nat
  BY DEF TypeOK
<1>3. /\ output' \in Seq(Lines)
      /\ Len(output') = Len(output) + 1
      /\ \A i \in 1 .. Len(output) : output'[i] = output[i]
  BY <1>1, <1>2
<1>4. /\ UNCHANGED <<clock, shown, child, writer, taken, pc, stamp, events, stopped>>
      /\ writer
  BY DEF ChildWrites
<1>5. TypeOK'  BY <1>2, <1>3, <1>4 DEF TypeOK
<1>6. PipeInv'
  <2>1. \A i \in 1 .. taken : i \in 1 .. Len(output) /\ output'[i] = output[i]
    BY <1>2, <1>3
  <2>2. taken > 0 => taken \in 1 .. taken  BY <1>2
  <2> QED  BY <1>4, <2>1, <2>2 DEF PipeInv
<1>7. EventInv' /\ StampsOfTheirCalls'
  BY <1>4 DEF EventInv, StampsOfTheirCalls
<1> QED  BY <1>5, <1>6, <1>7

\* What the return of an event makes of the events.
LEMMA EventReturned ==
  ASSUME SubprocessInv, ReturnEvent, pc = "getline"
  PROVE  /\ events' \in Seq(Events) /\ Len(events) \in Nat
         /\ Len(events') = Len(events) + 1
         /\ StampsOfTheirCalls'
<1> DEFINE event == [ts |-> stamp, shown |-> shown]
<1>1. events' = Append(events, event)  BY DEF ReturnEvent
<1>2. event \in Events /\ event.ts \in event.shown
  BY DEF SubprocessInv, TypeOK, EventInv, Events
<1>3. events \in Seq(Events) /\ Len(events) \in Nat  BY DEF SubprocessInv, TypeOK
<1> HIDE DEF event
<1>4. /\ events' \in Seq(Events)
      /\ Len(events') = Len(events) + 1
      /\ \A i \in 1 .. Len(events) : events'[i] = events[i]
      /\ events'[Len(events) + 1] = event
  BY <1>1, <1>2, <1>3
<1>5. \A i \in 1 .. (Len(events) + 1) : i \in 1 .. Len(events) \/ i = Len(events) + 1
  BY <1>3
<1>6. StampsOfTheirCalls'
  BY <1>2, <1>4, <1>5 DEF SubprocessInv, StampsOfTheirCalls
<1> QED  BY <1>3, <1>4, <1>6

\* A line is taken; unless it is empty it is the next event.
LEMMA SubprocessInvGetLine == SubprocessInv /\ GetLine => SubprocessInv'
<1> SUFFICES ASSUME SubprocessInv, GetLine PROVE SubprocessInv'  OBVIOUS
<1>1. /\ taken \in Nat /\ Len(output) \in Nat /\ taken < Len(output)
      /\ taken' = taken + 1 /\ pc = "getline"
      /\ UNCHANGED <<clock, child, writer, output, stamp, stopped>>
      /\ TypeOK /\ PipeInv /\ EventInv /\ StampsOfTheirCalls
  BY DEF GetLine, SubprocessInv, TypeOK
<1>2. Len(events) \in Nat /\ Len(events) = taken
  BY <1>1 DEF EventInv
<1>3. CASE NextLine = "empty"
  <2>1. UNCHANGED <<events, shown>> /\ pc' = "ended"
    BY <1>3 DEF GetLine, ReturnNullopt
  <2>2. TypeOK'  BY <1>1, <2>1 DEF TypeOK
  <2>3. PipeInv'  BY <1>1, <1>3, <2>1 DEF PipeInv, NextLine
  <2>4. EventInv' /\ StampsOfTheirCalls'
    BY <1>1, <1>2, <2>1 DEF EventInv, StampsOfTheirCalls
  <2> QED  BY <2>2, <2>3, <2>4 DEF SubprocessInv
<1>4. CASE NextLine # "empty"
  <2>1. ReturnEvent  BY <1>4 DEF GetLine
  <2>2. pc' = "out" /\ shown' = {clock}  BY <2>1 DEF ReturnEvent
  <2>3. /\ events' \in Seq(Events) /\ Len(events') = taken + 1
        /\ StampsOfTheirCalls'
    BY <1>1, <1>2, <2>1, EventReturned
  <2>4. TypeOK'  BY <1>1, <2>2, <2>3 DEF TypeOK
  <2>5. PipeInv'
    <3>1. \A i \in 1 .. (taken + 1) : i \in 1 .. taken \/ i = taken + 1
      BY <1>1
    <3>2. \A i \in 1 .. (taken + 1) : output[i] # "empty"
      BY <1>1, <1>4, <3>1 DEF PipeInv, NextLine
    <3> QED  BY <1>1, <2>2, <3>2 DEF PipeInv
  <2>6. EventInv'  BY <1>1, <2>2, <2>3 DEF EventInv
  <2> QED  BY <2>3, <2>4, <2>5, <2>6 DEF SubprocessInv
<1> QED  BY <1>3, <1>4

\* The invariant is inductive.
LEMMA SubprocessInvNext == SubprocessInv /\ [Next]_vars => SubprocessInv'
<1> SUFFICES ASSUME SubprocessInv, [Next]_vars PROVE SubprocessInv'  OBVIOUS
<1> USE DEF SubprocessInv, TypeOK, PipeInv, EventInv, StampsOfTheirCalls
<1>1. CASE Tick  BY <1>1 DEF Tick
<1>2. CASE ChildWrites  BY <1>2, SubprocessInvWrites
<1>3. CASE ChildExits  BY <1>3 DEF ChildExits
<1>4. CASE ReadEvent  BY <1>4 DEF ReadEvent
<1>5. CASE GetLine  BY <1>5, SubprocessInvGetLine
<1>6. CASE GetEof  BY <1>6 DEF GetEof, ReturnNullopt
<1>7. CASE Stop  BY <1>7 DEF Stop
<1>8. CASE UNCHANGED vars  BY <1>8 DEF vars
<1> QED
  BY <1>1, <1>2, <1>3, <1>4, <1>5, <1>6, <1>7, <1>8 DEF Next, Reader

\* Type correctness of readEvent(), stop() and the pipe between them.
THEOREM SubprocessTypeCorrect == Spec => []TypeOK
BY SubprocessInvInit, SubprocessInvNext, PTL DEF Spec, SubprocessInv

\* readEvent() returns nullopt only behind the last line of the output, or at
\* an empty line, whenever stop() comes and whatever it leaves behind.
THEOREM EofDrainsHolds == Spec => []EofDrains
<1>1. SubprocessInv => EofDrains
  BY DEF SubprocessInv, PipeInv, EofDrains
<1> QED  BY <1>1, SubprocessInvInit, SubprocessInvNext, PTL DEF Spec

\* The time of each event is a reading of the clock during its call or since
\* the event before it, wherever the clock is set meanwhile.
THEOREM StampsOfTheirCallsHolds == Spec => []StampsOfTheirCalls
BY SubprocessInvInit, SubprocessInvNext, PTL DEF Spec, SubprocessInv
-----------------------------------------------------------------------------
\* Every step is one of the contract, does not show, or takes an empty line.
LEMMA SubprocessStepContract ==
  SubprocessInv /\ [Next]_vars => [C!Next \/ TakesEmptyLine]_(C!vars)
<1> SUFFICES ASSUME SubprocessInv, [Next]_vars
             PROVE  [C!Next \/ TakesEmptyLine]_(C!vars)
  OBVIOUS
<1>1. CASE Tick  BY <1>1 DEF Tick, C!vars
<1>2. CASE ChildWrites
  <2>1. PICK line \in Lines : output' = Append(output, line)
    BY <1>2 DEF ChildWrites
  <2>2. Len(output') = Len(output) + 1
    BY <2>1 DEF SubprocessInv, TypeOK
  <2> QED  BY <1>2, <2>2 DEF ChildWrites, C!Next, C!Produce
<1>3. CASE ChildExits  BY <1>3 DEF ChildExits, C!Next, C!SourceEnds
<1>4. CASE ReadEvent  BY <1>4 DEF ReadEvent, C!Next, C!Call
<1>5. CASE GetLine
  <2>1. CASE NextLine = "empty"
    BY <1>5, <2>1 DEF GetLine, ReturnNullopt, TakesEmptyLine
  <2>2. CASE NextLine # "empty"
    <3>1. /\ pc = "getline" /\ ReturnEvent /\ Len(events) < Len(output)
          /\ UNCHANGED <<output, writer, stopped>>
      BY <1>5, <2>2 DEF GetLine, SubprocessInv, EventInv
    <3>2. Len(events') = Len(events) + 1 /\ pc' = "out"
      BY <3>1, EventReturned DEF ReturnEvent
    <3> QED  BY <3>1, <3>2 DEF C!Next, C!ReturnRecord
  <2> QED  BY <2>1, <2>2
<1>6. CASE GetEof
  BY <1>6 DEF GetEof, ReturnNullopt, C!Next, C!ReturnNullopt
<1>7. CASE Stop
  <2>1. /\ UNCHANGED <<output, taken, pc, events>> /\ stopped' = TRUE
        /\ writer' \in {writer, FALSE}
    BY <1>7 DEF Stop, SubprocessInv, PipeInv, TypeOK
  <2> QED  BY <2>1 DEF C!Next, C!RequestStop
<1>8. CASE UNCHANGED vars  BY <1>8 DEF vars, C!vars
<1> QED
  BY <1>1, <1>2, <1>3, <1>4, <1>5, <1>6, <1>7, <1>8 DEF Next, Reader

\* The constructor leaves a collector that has not been called.
LEMMA SubprocessInitContract == Init => C!Init
<1> SUFFICES ASSUME Init PROVE C!Init  OBVIOUS
<1>1. Len(output) = 0 /\ Len(events) = 0  BY DEF Init
<1> QED  BY <1>1 DEF Init, C!Init

\* Every step of readEvent(), stop() and the child is one of ICollector, but
\* for the one that takes an empty line for the end of the source.
THEOREM SubprocessKeepsContract == Spec => KeepsContract
BY SubprocessInitContract, SubprocessInvInit, SubprocessInvNext, SubprocessStepContract, PTL
   DEF Spec, KeepsContract

\* A program that writes no empty line.
TextOnly == \A i \in 1 .. Len(output) : output[i] # "empty"

\* For such a program the collector implements ICollector without exception.
THEOREM TextOnlyImplementsICollector == Spec /\ []TextOnly => ImplementsICollector
<1>1. SubprocessInv /\ TextOnly /\ [Next]_vars => ~(TakesEmptyLine /\ GetLine)
  <2> SUFFICES ASSUME SubprocessInv, TextOnly, TakesEmptyLine, GetLine PROVE FALSE
    OBVIOUS
  <2>1. taken + 1 \in 1 .. Len(output) /\ output[taken + 1] = "empty"
    BY DEF SubprocessInv, TypeOK, TakesEmptyLine, GetLine, NextLine
  <2> QED  BY <2>1 DEF TextOnly
<1>2. SubprocessInv /\ [Next]_vars /\ TakesEmptyLine => GetLine
  BY DEF SubprocessInv, TypeOK, TakesEmptyLine, Next, vars, Reader, Tick, ChildWrites,
         ChildExits, ReadEvent, GetEof, Stop
<1>3. SubprocessInv /\ TextOnly /\ [Next]_vars => [C!Next]_(C!vars)
  BY <1>1, <1>2, SubprocessStepContract
<1> QED
  BY <1>3, SubprocessInitContract, SubprocessInvInit, SubprocessInvNext, PTL
     DEF Spec, ImplementsICollector, C!Spec
=============================================================================
