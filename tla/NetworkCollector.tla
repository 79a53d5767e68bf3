-------------------------- MODULE NetworkCollector --------------------------
(***************************************************************************)
(* NetworkCollector at the level of its file descriptors.  setInterface()  *)
(* runs on the ptp4l reader thread, collect() on the system metrics        *)
(* thread, and no lock orders them.  The descriptor table is the process's:*)
(* open() takes the lowest free number, and the other threads (the journal,*)
(* pmc pipes, ZMQ reconnects) open and close descriptors too.              *)
(*                                                                         *)
(* Reads of interface_ and of entry.fd that race with a write see the old  *)
(* or the new word, which is what the build makes of them.  The texts of   *)
(* the log messages, which read the same strings, are left out.            *)
(***************************************************************************)
EXTENDS Naturals, Sequences

CONSTANTS
  Interfaces,    \* names setInterface is called with
  NoInterface,   \* the empty interface_
  NumMetrics,    \* entries of kNetworkMetrics
  NumFds,        \* bound: descriptors the process may hold
  NoFd,          \* -1
  Free,          \* a descriptor that is not open
  Other,         \* a file of somebody else
  MaxCollects    \* bound: calls of collect()

ASSUME NetworkAssumption ==
  /\ NoInterface \notin Interfaces
  /\ NumMetrics \in Nat \ {0}
  /\ NumFds \in Nat
  /\ MaxCollects \in Nat
  /\ NoFd \notin Nat

Metrics == 1 .. NumMetrics
Fds == 1 .. NumFds

\* The statistics file of metric m of interface i.
Statistics == [iface : Interfaces, metric : Metrics]
File(i, m) == [iface |-> i, metric |-> m]

ASSUME FilesAssumption ==
  /\ Free \notin Statistics
  /\ Other \notin Statistics
  /\ Free # Other

VARIABLES
  interface,  \* interface_
  fd,         \* metricEntries_[m].fd
  table,      \* the process's descriptor table
  setPc,      \* where setInterface() or the destructor is
  setAt,      \* the entry its current loop is at
  wanted,     \* the argument of the last setInterface()
  colPc,      \* where collect() is
  colFd,      \* the descriptor collect() has loaded
  values,     \* the files the values of the current snapshot come from
  collects,   \* calls of collect() so far
  raced       \* history: the current collect() overlaps a setInterface()

setVars == <<interface, fd, setPc, setAt, wanted>>
colVars == <<colPc, colFd, values, collects>>
vars == <<setVars, table, colVars, raced>>

SetPcs == {"idle", "close", "clear", "name", "open", "gone"}

TypeOK ==
  /\ interface \in Interfaces \cup {NoInterface}
  /\ fd \in [Metrics -> Fds \cup {NoFd}]
  /\ table \in [Fds -> Statistics \cup {Free, Other}]
  /\ setPc \in SetPcs
  /\ setAt \in 1 .. NumMetrics + 1
  /\ wanted \in Interfaces \cup {NoInterface}
  /\ colPc \in {"idle", "fetch", "pread", "return"}
  /\ colFd \in Fds \cup {NoFd}
  /\ values \in Seq(Statistics \cup {Other})
  /\ Len(values) <= NumMetrics
  /\ collects \in 0 .. MaxCollects
  /\ raced \in BOOLEAN

Init ==
  /\ interface = NoInterface
  /\ fd = [m \in Metrics |-> NoFd]
  /\ table = [f \in Fds |-> Free]
  /\ setPc = "idle"
  /\ setAt = 1
  /\ wanted = NoInterface
  /\ colPc = "idle"
  /\ colFd = NoFd
  /\ values = <<>>
  /\ collects = 0
  /\ raced = FALSE

-----------------------------------------------------------------------------
(* setInterface() and the destructor.                                      *)

SetStart(i) ==
  /\ setPc = "idle"
  /\ setPc' = "close"
  /\ setAt' = 1
  /\ wanted' = i
  /\ raced' = (colPc # "idle")
  /\ UNCHANGED <<interface, fd, table, colVars>>

\* The destructor runs when both threads have been joined; it closes the
\* descriptors as setInterface() does, and wants no interface.
Destroy ==
  /\ setPc = "idle"
  /\ colPc = "idle"
  /\ setPc' = "close"
  /\ setAt' = 1
  /\ wanted' = NoInterface
  /\ UNCHANGED <<interface, fd, table, colVars, raced>>

\* Mutant: closeFds() forgets the descriptor without closing it.
CloseFdLeaked ==
  /\ setPc = "close"
  /\ setAt \in Metrics
  /\ fd[setAt] # NoFd
  /\ setPc' = "clear"
  /\ UNCHANGED <<interface, fd, setAt, wanted, table, colVars, raced>>

\* closeFds(): close(2) frees the number before entry.fd = -1 is written.
CloseFd ==
  /\ setPc = "close"
  /\ setAt \in Metrics
  /\ fd[setAt] # NoFd
  /\ table' = [table EXCEPT ![fd[setAt]] = Free]
  /\ setPc' = "clear"
  /\ UNCHANGED <<interface, fd, setAt, wanted, colVars, raced>>

ClearFd ==
  /\ setPc = "clear"
  /\ fd' = [fd EXCEPT ![setAt] = NoFd]
  /\ setAt' = setAt + 1
  /\ setPc' = "close"
  /\ UNCHANGED <<interface, wanted, table, colVars, raced>>

\* Mutant: the entry after one that is not open is stepped over.
SkipClosedTwice ==
  /\ setPc = "close"
  /\ setAt \in Metrics
  /\ fd[setAt] = NoFd
  /\ setAt' = setAt + 2
  /\ UNCHANGED <<interface, fd, setPc, wanted, table, colVars, raced>>

SkipClosed ==
  /\ setPc = "close"
  /\ setAt \in Metrics
  /\ fd[setAt] = NoFd
  /\ setAt' = setAt + 1
  /\ UNCHANGED <<interface, fd, setPc, wanted, table, colVars, raced>>

AllClosed ==
  /\ setPc = "close"
  /\ setAt = NumMetrics + 1
  /\ setPc' = IF wanted = NoInterface THEN "gone" ELSE "name"
  /\ UNCHANGED <<interface, fd, setAt, wanted, table, colVars, raced>>

SetName ==
  /\ setPc = "name"
  /\ interface' = wanted
  /\ setPc' = "open"
  /\ setAt' = 1
  /\ UNCHANGED <<fd, wanted, table, colVars, raced>>

FreeFds == {f \in Fds : table[f] = Free}
LowestFree(f) == f \in FreeFds /\ \A g \in FreeFds : f <= g

NextEntry ==
  /\ setAt' = setAt + 1
  /\ setPc' = IF setAt = NumMetrics THEN "idle" ELSE "open"

\* Mutant: every entry opens the first file of the interface.
OpenFdFirst ==
  /\ setPc = "open"
  /\ \E f \in Fds :
       /\ LowestFree(f)
       /\ table' = [table EXCEPT ![f] = File(wanted, 1)]
       /\ fd' = [fd EXCEPT ![setAt] = f]
  /\ NextEntry
  /\ UNCHANGED <<interface, wanted, colVars, raced>>

OpenFd ==
  /\ setPc = "open"
  /\ \E f \in Fds :
       /\ LowestFree(f)
       /\ table' = [table EXCEPT ![f] = File(wanted, setAt)]
       /\ fd' = [fd EXCEPT ![setAt] = f]
  /\ NextEntry
  /\ UNCHANGED <<interface, wanted, colVars, raced>>

\* The file is missing or no descriptor is free: logged, and the loop goes on.
OpenFails ==
  /\ setPc = "open"
  /\ fd' = [fd EXCEPT ![setAt] = NoFd]
  /\ NextEntry
  /\ UNCHANGED <<interface, wanted, table, colVars, raced>>

Set ==
  \/ \E i \in Interfaces : SetStart(i)
  \/ Destroy \/ CloseFd \/ ClearFd \/ SkipClosed \/ AllClosed
  \/ SetName \/ OpenFd \/ OpenFails

-----------------------------------------------------------------------------
(* collect().                                                              *)

Nullopt == colPc' = "idle" /\ values' = <<>> /\ colFd' = NoFd

\* The destructor never overlaps a collect().
Alive == setPc # "gone" /\ (setPc # "idle" => wanted # NoInterface)

CollectStart ==
  /\ colPc = "idle"
  /\ Alive
  /\ collects < MaxCollects
  /\ collects' = collects + 1
  /\ raced' = (setPc # "idle")
  /\ IF interface = NoInterface
       THEN Nullopt
       ELSE colPc' = "fetch" /\ UNCHANGED <<colFd, values>>
  /\ UNCHANGED <<setVars, table>>

At == Len(values) + 1

\* The test entry.fd == -1 and the load of the descriptor.
CollectFetch ==
  /\ colPc = "fetch"
  /\ IF fd[At] = NoFd
       THEN Nullopt
       ELSE colPc' = "pread" /\ colFd' = fd[At] /\ UNCHANGED values
  /\ UNCHANGED <<setVars, table, collects, raced>>

\* pread of an open file, of whomever, and a value that from_chars accepts: a
\* regular file of somebody else may begin with a number, too.
CollectRead ==
  /\ colPc = "pread"
  /\ table[colFd] # Free
  /\ values' = Append(values, table[colFd])
  /\ colPc' = IF At = NumMetrics THEN "return" ELSE "fetch"
  /\ colFd' = NoFd
  /\ UNCHANGED <<setVars, table, collects, raced>>

\* pread fails, because the descriptor was closed (EBADF), is a pipe or socket
\* (ESPIPE) or its interface is gone (ENODEV), or from_chars rejects the text.
CollectReadFails ==
  /\ colPc = "pread"
  /\ Nullopt
  /\ UNCHANGED <<setVars, table, collects, raced>>

CollectReturn ==
  /\ colPc = "return"
  /\ Nullopt
  /\ UNCHANGED <<setVars, table, collects, raced>>

Collect ==
  CollectStart \/ CollectFetch \/ CollectRead \/ CollectReadFails \/ CollectReturn

-----------------------------------------------------------------------------
(* The rest of the process.                                                *)

OtherOpens ==
  /\ \E f \in Fds : LowestFree(f) /\ table' = [table EXCEPT ![f] = Other]
  /\ UNCHANGED <<setVars, colVars, raced>>

OtherCloses ==
  /\ \E f \in Fds : table[f] = Other /\ table' = [table EXCEPT ![f] = Free]
  /\ UNCHANGED <<setVars, colVars, raced>>

Next == Set \/ Collect \/ OtherOpens \/ OtherCloses

Spec == Init /\ [][Next]_vars

-----------------------------------------------------------------------------
(* Properties.                                                             *)

\* The collector closes what it opened, once, and nothing else: the number in
\* an entry is open on a file of that entry (except between close(2) and
\* entry.fd = -1), and every open statistics file is the one its entry holds.
FdOwnership ==
  /\ \A m \in Metrics :
       fd[m] # NoFd /\ ~(setPc = "clear" /\ setAt = m) =>
         table[fd[m]] \in Statistics /\ table[fd[m]].metric = m
  /\ \A f \in Fds : table[f] \in Statistics => fd[table[f].metric] = f

\* After the destructor no statistics file is open.
NothingLeftOpen ==
  setPc = "gone" => \A f \in Fds : table[f] \notin Statistics

\* A snapshot that no setInterface() overlaps has the value of every metric,
\* in its own field, from the interface last asked for.
Snapshot(i) == [m \in Metrics |-> File(i, m)]

QuietSnapshotConsistent ==
  colPc = "return" /\ ~raced => values = Snapshot(wanted)

\* "Collects counters for one network interface": so does every snapshot.
SnapshotOfOneInterface ==
  colPc = "return" => \E i \in Interfaces : values = Snapshot(i)
=============================================================================
