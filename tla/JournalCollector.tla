-------------------------- MODULE JournalCollector --------------------------
(***************************************************************************)
(* JournalCollector: a reader thread in readEvent(), a thread that calls   *)
(* stop(), and the journal, to which systemd appends at any time.  The     *)
(* sd_journal calls are external and modelled by what readEvent() makes of *)
(* their results.                                                          *)
(***************************************************************************)
EXTENDS Naturals

CONSTANTS
  MaxOld,      \* bound: matching entries before the collector is opened
  MaxEntries   \* bound: matching entries in all

ASSUME JournalAssumption ==
  MaxOld \in Nat /\ MaxEntries \in Nat /\ MaxOld <= MaxEntries

VARIABLES
  entries,        \* matching entries in the journal
  opened,         \* how many there were when the constructor sought the tail
  cursor,         \* the entry sd_journal is at
  broken,         \* sd_journal_next and sd_journal_wait fail from now on
  stopRequested,  \* stop_requested_
  journalPc,      \* where readEvent() is; "out" when it has not been called
  journalEvents   \* the entries of the events returned, oldest first: since
                  \* each is the one after the last, their number and the last

journalVars == <<entries, opened, cursor, broken, stopRequested, journalPc, journalEvents>>

JournalTypeOK ==
  /\ entries \in 0 .. MaxEntries
  /\ opened \in 0 .. MaxOld
  /\ cursor \in 0 .. MaxEntries
  /\ broken \in BOOLEAN
  /\ stopRequested \in BOOLEAN
  /\ journalPc \in {"out", "next", "stop?", "wait", "event", "ended"}
  /\ journalEvents \in [count : 0 .. MaxEntries, last : 0 .. MaxEntries]

\* Mutant: the constructor stays before the last entry of the past.
JournalInitBeforeTail ==
  /\ opened \in 0 .. MaxOld
  /\ entries = opened
  /\ cursor = IF opened = 0 THEN 0 ELSE opened - 1
  /\ broken = FALSE
  /\ stopRequested = FALSE
  /\ journalPc = "out"
  /\ journalEvents = [count |-> 0, last |-> opened]

\* seek_tail and previous leave the cursor at the last entry of the past.  Their
\* results are not looked at; they are taken to succeed.
JournalInit ==
  /\ opened \in 0 .. MaxOld
  /\ entries = opened
  /\ cursor = opened
  /\ broken = FALSE
  /\ stopRequested = FALSE
  /\ journalPc = "out"
  /\ journalEvents = [count |-> 0, last |-> opened]

JournalReadEvent ==
  /\ journalPc = "out"
  /\ journalPc' = "next"
  /\ UNCHANGED <<entries, opened, cursor, broken, stopRequested, journalEvents>>

\* Mutant: an entry is announced that is not there yet.
JournalNextPast ==
  /\ journalPc = "next"
  /\ \/ ~broken /\ cursor <= entries /\ cursor' = cursor + 1 /\ journalPc' = "event"
     \/ ~broken /\ cursor = entries /\ journalPc' = "stop?" /\ UNCHANGED cursor
     \/ broken /\ journalPc' = "ended" /\ UNCHANGED cursor
  /\ UNCHANGED <<entries, opened, broken, stopRequested, journalEvents>>

\* sd_journal_next: > 0 leaves the loop, < 0 returns nullopt.
JournalNext ==
  /\ journalPc = "next"
  /\ \/ ~broken /\ cursor < entries /\ cursor' = cursor + 1 /\ journalPc' = "event"
     \/ ~broken /\ cursor = entries /\ journalPc' = "stop?" /\ UNCHANGED cursor
     \/ broken /\ journalPc' = "ended" /\ UNCHANGED cursor
  /\ UNCHANGED <<entries, opened, broken, stopRequested, journalEvents>>

\* Mutant: readEvent() gives up when the journal has nothing new.
CheckNothingNew ==
  /\ journalPc = "stop?"
  /\ journalPc' = "ended"
  /\ UNCHANGED <<entries, opened, cursor, broken, stopRequested, journalEvents>>

CheckStop ==
  /\ journalPc = "stop?"
  /\ journalPc' = IF stopRequested THEN "ended" ELSE "wait"
  /\ UNCHANGED <<entries, opened, cursor, broken, stopRequested, journalEvents>>

\* Mutant: sd_journal_wait without a timeout.
JournalWaitForever ==
  /\ journalPc = "wait"
  /\ broken \/ cursor < entries
  /\ journalPc' = IF broken THEN "ended" ELSE "next"
  /\ UNCHANGED <<entries, opened, cursor, broken, stopRequested, journalEvents>>

\* sd_journal_wait returns after a second at the latest.
JournalWait ==
  /\ journalPc = "wait"
  /\ journalPc' = IF broken THEN "ended" ELSE "next"
  /\ UNCHANGED <<entries, opened, cursor, broken, stopRequested, journalEvents>>

JournalReturnEvent ==
  /\ journalPc = "event"
  /\ journalPc' = "out"
  /\ journalEvents' = [count |-> journalEvents.count + 1, last |-> cursor]
  /\ UNCHANGED <<entries, opened, cursor, broken, stopRequested>>

JournalReader == JournalReadEvent \/ JournalNext \/ CheckStop \/ JournalWait \/ JournalReturnEvent

JournalStop ==
  /\ stopRequested' = TRUE
  /\ UNCHANGED <<entries, opened, cursor, broken, journalPc, journalEvents>>

AppendEntry ==
  /\ entries < MaxEntries
  /\ entries' = entries + 1
  /\ UNCHANGED <<opened, cursor, broken, stopRequested, journalPc, journalEvents>>

Break ==
  /\ broken' = TRUE
  /\ UNCHANGED <<entries, opened, cursor, stopRequested, journalPc, journalEvents>>

JournalStep == JournalReader \/ JournalStop \/ AppendEntry \/ Break

JournalSpec == JournalInit /\ [][JournalStep]_journalVars

\* The reader thread is scheduled; nobody owes it an entry or a stop().
JournalFairness ==
  WF_journalVars(JournalNext \/ CheckStop \/ JournalWait \/ JournalReturnEvent)

-----------------------------------------------------------------------------
(* Properties.                                                             *)

\* The events are the entries written since the collector was opened, without
\* a gap and none twice, also when entries arrive between the calls of
\* readEvent() or while it waits.
EveryEntryOnce == journalEvents.last = opened + journalEvents.count /\ journalEvents.last <= entries

\* The journal collector keeps the contract of ICollector.
Contract == INSTANCE ICollector WITH
       MaxRecords <- MaxEntries,
       produced <- entries - opened,
       returned <- journalEvents.count,
       call <- CASE journalPc = "out" -> "idle"
                 [] journalPc = "ended" -> "ended"
                 [] OTHER -> "reading",
       stopped <- stopRequested,
       over <- broken

JournalContract == Contract!Spec

\* stop() ends a call that waits for entries that never come.
JournalStopUnblocks == Contract!StopUnblocks
=============================================================================
