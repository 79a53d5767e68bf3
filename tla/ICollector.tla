----------------------------- MODULE ICollector -----------------------------
(***************************************************************************)
(* The contract of ICollector: readEvent() hands out the records of one    *)
(* source, each once and in order, blocks while there is none, and returns *)
(* nullopt on EOF, stop or a fatal read failure only.                      *)
(***************************************************************************)
EXTENDS Naturals

CONSTANT MaxRecords  \* bound: records the source produces

VARIABLES
  produced,  \* records the source has produced
  returned,  \* records readEvent() has returned
  call,      \* "idle": not called; "reading": called; "ended": got nullopt
  stopped,   \* stop() was called
  over       \* the source is at EOF or has failed

vars == <<produced, returned, call, stopped, over>>

Init ==
  /\ produced = 0
  /\ returned = 0
  /\ call = "idle"
  /\ stopped = FALSE
  /\ over = FALSE

Produce ==
  /\ produced < MaxRecords
  /\ produced' = produced + 1
  /\ UNCHANGED <<returned, call, stopped, over>>

Call ==
  /\ call = "idle"
  /\ call' = "reading"
  /\ UNCHANGED <<produced, returned, stopped, over>>

ReturnRecord ==
  /\ call = "reading"
  /\ returned < produced
  /\ returned' = returned + 1
  /\ call' = "idle"
  /\ UNCHANGED <<produced, stopped, over>>

ReturnNullopt ==
  /\ call = "reading"
  /\ stopped \/ over
  /\ call' = "ended"
  /\ UNCHANGED <<produced, returned, stopped, over>>

RequestStop ==
  /\ stopped' = TRUE
  /\ over' \in {over, TRUE}
  /\ UNCHANGED <<produced, returned, call>>

SourceEnds ==
  /\ over' = TRUE
  /\ UNCHANGED <<produced, returned, call, stopped>>

Next ==
  Produce \/ Call \/ ReturnRecord \/ ReturnNullopt \/ RequestStop \/ SourceEnds

Spec == Init /\ [][Next]_vars

\* A call that is blocked when stop() is called returns.
StopUnblocks == stopped /\ call = "reading" ~> call # "reading"
=============================================================================
