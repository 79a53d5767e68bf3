----------------------- MODULE JournalCollectorProofs -----------------------
(***************************************************************************)
(* The cursor of JournalCollector and its contract, for a journal of any   *)
(* length.                                                                 *)
(***************************************************************************)
EXTENDS JournalCollector, TLAPS

\* The cursor is at the entry of the last event, or one past it while that
\* event is being built; it never passes the end of the journal.
CursorInv ==
  /\ EveryEntryOnce
  /\ cursor = journalEvents.last + (IF journalPc = "event" THEN 1 ELSE 0)
  /\ cursor <= entries

JournalInv == JournalTypeOK /\ CursorInv

-----------------------------------------------------------------------------
\* seek_tail and previous establish the invariant.
LEMMA JournalInvInit == JournalInit => JournalInv
<1> SUFFICES ASSUME JournalInit PROVE JournalInv  OBVIOUS
<1>1. journalEvents.count = 0 /\ journalEvents.last = opened /\ opened \in Nat
  BY JournalAssumption DEF JournalInit
<1>2. /\ opened \in 0 .. MaxOld /\ opened \in 0 .. MaxEntries
      /\ entries = opened /\ cursor = opened /\ journalPc = "out"
  BY JournalAssumption DEF JournalInit
<1>3. JournalTypeOK
  <2>1. journalEvents \in [count : 0 .. MaxEntries, last : 0 .. MaxEntries]
    BY <1>2, JournalAssumption DEF JournalInit
  <2> QED  BY <1>2, <2>1 DEF JournalInit, JournalTypeOK
<1>4. CursorInv  BY <1>1, <1>2 DEF CursorInv, EveryEntryOnce
<1> QED  BY <1>3, <1>4 DEF JournalInv

\* The invariant is inductive.
LEMMA JournalInvNext == JournalInv /\ [JournalStep]_journalVars => JournalInv'
<1> SUFFICES ASSUME JournalInv, [JournalStep]_journalVars PROVE JournalInv'  OBVIOUS
<1>1. /\ entries \in Nat /\ opened \in Nat /\ cursor \in Nat
      /\ journalEvents.count \in Nat /\ journalEvents.last \in Nat
  BY JournalAssumption DEF JournalInv, JournalTypeOK
<1> USE JournalAssumption, <1>1
        DEF JournalInv, JournalTypeOK, CursorInv, EveryEntryOnce
<1>2. CASE JournalReadEvent  BY <1>2 DEF JournalReadEvent
<1>3. CASE JournalNext  BY <1>3 DEF JournalNext
<1>4. CASE CheckStop  BY <1>4 DEF CheckStop
<1>5. CASE JournalWait  BY <1>5 DEF JournalWait
<1>6. CASE JournalReturnEvent
  <2>1. /\ journalEvents'.count = journalEvents.count + 1 /\ journalEvents'.last = cursor
        /\ journalEvents' \in [count : Nat, last : Nat]
        /\ journalPc = "event" /\ journalPc' = "out"
        /\ UNCHANGED <<entries, opened, cursor, broken, stopRequested>>
    BY <1>6 DEF JournalReturnEvent
  <2>2. EveryEntryOnce' /\ journalEvents'.count <= entries /\ journalEvents'.last <= entries
    BY <2>1
  <2>3. journalEvents' \in [count : 0 .. MaxEntries, last : 0 .. MaxEntries]
    BY <2>1, <2>2
  <2> QED  BY <2>1, <2>2, <2>3
<1>7. CASE JournalStop  BY <1>7 DEF JournalStop
<1>8. CASE AppendEntry  BY <1>8 DEF AppendEntry
<1>9. CASE Break  BY <1>9 DEF Break
<1>10. CASE UNCHANGED journalVars  BY <1>10 DEF journalVars
<1> QED
  BY <1>2, <1>3, <1>4, <1>5, <1>6, <1>7, <1>8, <1>9, <1>10 DEF JournalStep, JournalReader

\* Type correctness of readEvent() and stop() over the journal.
THEOREM JournalTypeCorrect == JournalSpec => []JournalTypeOK
BY JournalInvInit, JournalInvNext, PTL DEF JournalSpec, JournalInv

\* The events are exactly the entries after the one the constructor left the
\* cursor at, in order, whenever they arrive and whenever stop() is called.
THEOREM EveryEntryOnceHolds == JournalSpec => []EveryEntryOnce
<1>1. JournalInv => EveryEntryOnce  BY DEF JournalInv, CursorInv
<1> QED  BY <1>1, JournalInvInit, JournalInvNext, PTL DEF JournalSpec
-----------------------------------------------------------------------------
\* Every step is one of the contract or does not show.
LEMMA JournalStepContract == JournalInv /\ [JournalStep]_journalVars => [Contract!Next]_(Contract!vars)
<1> SUFFICES ASSUME JournalInv, [JournalStep]_journalVars PROVE [Contract!Next]_(Contract!vars)  OBVIOUS
<1>1. /\ entries \in 0 .. MaxEntries /\ opened \in 0 .. MaxOld
      /\ entries \in Nat /\ opened \in Nat /\ cursor \in Nat
      /\ journalEvents.count \in Nat /\ journalEvents.last \in Nat
      /\ opened <= entries
  BY JournalAssumption DEF JournalInv, JournalTypeOK, CursorInv, EveryEntryOnce
<1>2. CASE JournalReadEvent
  BY <1>2 DEF JournalReadEvent, Contract!Next, Contract!Call
<1>3. CASE JournalNext
  <2>1. CASE broken
    BY <1>3, <2>1 DEF JournalNext, Contract!Next, Contract!ReturnNullopt
  <2>2. CASE ~broken
    BY <1>3, <2>2 DEF JournalNext, Contract!vars
  <2> QED  BY <2>1, <2>2
<1>4. CASE CheckStop
  BY <1>4 DEF CheckStop, Contract!Next, Contract!ReturnNullopt, Contract!vars
<1>5. CASE JournalWait
  BY <1>5 DEF JournalWait, Contract!Next, Contract!ReturnNullopt, Contract!vars
<1>6. CASE JournalReturnEvent
  <2>1. /\ journalEvents'.count = journalEvents.count + 1
        /\ journalPc = "event" /\ journalPc' = "out"
        /\ UNCHANGED <<entries, opened, broken, stopRequested>>
    BY <1>6 DEF JournalReturnEvent
  <2>2. journalEvents.count < entries - opened
    BY <1>1, <2>1 DEF JournalInv, CursorInv, EveryEntryOnce
  <2> QED  BY <2>1, <2>2 DEF Contract!Next, Contract!ReturnRecord
<1>7. CASE JournalStop  BY <1>7 DEF JournalStop, Contract!Next, Contract!RequestStop
<1>8. CASE AppendEntry
  <2>1. /\ entries' = entries + 1 /\ entries < MaxEntries
        /\ UNCHANGED <<opened, broken, stopRequested, journalPc, journalEvents>>
    BY <1>8 DEF AppendEntry
  <2>2. entries - opened < MaxEntries /\ entries' - opened = (entries - opened) + 1
    BY <1>1, <2>1, JournalAssumption
  <2> QED  BY <2>1, <2>2 DEF Contract!Next, Contract!Produce
<1>9. CASE Break  BY <1>9 DEF Break, Contract!Next, Contract!SourceEnds
<1>10. CASE UNCHANGED journalVars  BY <1>10 DEF journalVars, Contract!vars
<1> QED
  BY <1>2, <1>3, <1>4, <1>5, <1>6, <1>7, <1>8, <1>9, <1>10 DEF JournalStep, JournalReader

\* JournalCollector implements the contract of ICollector: each record once and
\* in order, and nullopt only after a stop or a failure.
THEOREM JournalKeepsContract == JournalSpec => JournalContract
<1>1. JournalInit => Contract!Init
  <2> SUFFICES ASSUME JournalInit PROVE Contract!Init  OBVIOUS
  <2>1. entries = opened /\ opened \in Nat /\ journalEvents.count = 0
    BY JournalAssumption DEF JournalInit
  <2>2. entries - opened = 0  BY <2>1
  <2> QED  BY <2>1, <2>2 DEF JournalInit, Contract!Init
<1> QED
  BY <1>1, JournalInvInit, JournalInvNext, JournalStepContract, PTL
     DEF JournalSpec, JournalContract, Contract!Spec
=============================================================================
