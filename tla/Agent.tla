------------------------------- MODULE Agent -------------------------------
(***************************************************************************)
(* The time-agent process: Agent::run(), its reader threads, the system    *)
(* metrics thread, Agent::stop() called from the signal handler of main(), *)
(* adapterMutex_, and the outbound queue of the ZMQ PUSH socket.           *)
(*                                                                         *)
(* Collectors appear here through the ICollector contract only: readEvent  *)
(* blocks and then returns a line or nullopt.  A line is abstracted to     *)
(* what the handler built for its service does with it.                    *)
(*                                                                         *)
(* The signal handler runs on the main thread (Linux delivers a process-   *)
(* directed signal to the main thread when it does not block it), so main  *)
(* takes no step of its own while the handler is in stop().                *)
(***************************************************************************)
EXTENDS Naturals, Sequences, FiniteSets

CONSTANTS
  Collectors,    \* keys of collectors_
  Handled,       \* the collectors that handlers_ has a handler for
  Ptp4l,         \* the service whose handler knows port and best-master lines
  Interfaces,    \* port names that are network interfaces
  UdsPort,       \* a port name with a '/', e.g. /var/run/ptp/ptp4l
  NoInterface,   \* the empty interface_ of a new NetworkCollector
  TopologyOn,    \* ptp_topology.on
  SysThread,     \* sysMetricsThread_
  NoThread,      \* adapterMutex_ is free
  QueueSize,     \* zmq.queue_size, the send high-water mark; 0 is unlimited
  MaxLines,      \* bound: lines one collector returns
  MaxSnapshots,  \* bound: system snapshots collected
  MaxSignals     \* bound: signals delivered

Ports == Interfaces \cup {UdsPort}

ASSUME CollectorsAssumption ==
  /\ IsFiniteSet(Collectors)
  /\ Handled \subseteq Collectors
  /\ SysThread \notin Collectors
  /\ NoThread \notin Collectors \cup {SysThread}

ASSUME PortsAssumption ==
  /\ UdsPort \notin Interfaces
  /\ NoInterface \notin Ports
  /\ (Ports \cup {NoInterface}) \cap {"metrics", "quiet", "best"} = {}

ASSUME BoundsAssumption ==
  /\ TopologyOn \in BOOLEAN
  /\ QueueSize \in Nat
  /\ MaxLines \in Nat /\ MaxSnapshots \in Nat /\ MaxSignals \in Nat

(***************************************************************************)
(* "metrics": a statistics line, sent as one message.  A port name: a port *)
(* state transition of that port.  "best": a best master selection.        *)
(* "quiet": a line that is at most logged (foreign master, "Waiting for    *)
(* ptp4l", unhandled).                                                     *)
(***************************************************************************)
LinesOf(c) ==
  {"metrics", "quiet"} \cup (IF c = Ptp4l THEN {"best"} \cup Ports ELSE {})

Threads == Handled \cup {SysThread}

\* What a thread can have read; the system thread reads an interface name.
Readings == {"metrics", "quiet", "best", NoInterface} \cup Ports

VARIABLES
  mainPc,     \* where the main thread is in run() and ~Agent()
  toSpawn,    \* collectors the spawning loop of run() has not visited
  running,    \* running_
  pc,         \* where each started thread is
  reads,      \* what each thread has read so far: lines, or for SysThread
              \* the interface watched at each snapshot (history)
  ended,      \* readers whose readEvent returned nullopt (history)
  watched,    \* interface_ of the NetworkCollector
  owner,      \* holder of adapterMutex_
  log,        \* messages the socket has accepted, oldest first
  delivered,  \* how many of them have left the queue for the analyzer
  dropped,    \* messages whose send returned false
  stopPc,     \* where the signal handler is in stop()
  toStop,     \* collectors the loop of stop() has not visited
  stopped,    \* collectors whose stop() was called
  signals,    \* signals delivered so far
  stopMark    \* history: Len(log) + 1 when stop() first cleared running_,
              \* 0 before that, and whether run() had yet to set running_

mainVars == <<mainPc, toSpawn>>
stopVars == <<stopPc, toStop, stopped, signals, stopMark>>
threadVars == <<pc, reads, ended, watched>>
sendVars == <<owner, log, delivered, dropped>>
vars == <<mainVars, running, threadVars, sendVars, stopVars>>

MainPcs == {"enter", "spawn", "joinReaders", "clear", "joinSys", "returned",
            "exited"}
ThreadPcs == {"none", "check", "read", "handle", "collect", "lock", "send",
              "done"}
StopPcs == {"idle", "clear", "collectors"}

\* The message thread t sends for its n-th reading.
Message(t, n) == [src |-> t, n |-> n]
Current(t) == Message(t, Len(reads[t]))
CurrentLine(c) == reads[c][Len(reads[c])]

MessageOf == [src : Threads, n : Nat \ {0}]

TypeOK ==
  /\ mainPc \in MainPcs
  /\ toSpawn \subseteq Collectors
  /\ running \in BOOLEAN
  /\ pc \in [Threads -> ThreadPcs]
  /\ reads \in [Threads -> Seq(Readings)]
  /\ ended \subseteq Handled
  /\ watched \in Interfaces \cup {NoInterface}
  /\ owner \in Threads \cup {NoThread}
  /\ log \in Seq(MessageOf)
  /\ delivered \in 0 .. Len(log)
  /\ dropped \subseteq MessageOf
  /\ stopPc \in StopPcs
  /\ toStop \subseteq Collectors
  /\ stopped \subseteq Collectors
  /\ signals \in 0 .. MaxSignals
  /\ stopMark \in [at : Nat, early : BOOLEAN]

Init ==
  /\ mainPc = "enter"
  /\ toSpawn = {}
  /\ running = FALSE
  /\ pc = [t \in Threads |-> "none"]
  /\ reads = [t \in Threads |-> <<>>]
  /\ ended = {}
  /\ watched = NoInterface
  /\ owner = NoThread
  /\ log = <<>>
  /\ delivered = 0
  /\ dropped = {}
  /\ stopPc = "idle"
  /\ toStop = {}
  /\ stopped = {}
  /\ signals = 0
  /\ stopMark = [at |-> 0, early |-> FALSE]

-----------------------------------------------------------------------------
(* Agent::run() and ~Agent() on the main thread.                           *)

MainAt(here, next) ==
  /\ mainPc = here
  /\ stopPc = "idle"
  /\ mainPc' = next

\* running_ = true, then the loop over collectors_.
RunStart ==
  /\ MainAt("enter", "spawn")
  /\ running' = TRUE
  /\ toSpawn' = Collectors
  /\ UNCHANGED <<threadVars, sendVars, stopVars>>

\* A collector without a handler is skipped with a warning.
SpawnReader ==
  /\ MainAt("spawn", "spawn")
  /\ \E c \in toSpawn :
       /\ toSpawn' = toSpawn \ {c}
       /\ pc' = IF c \in Handled THEN [pc EXCEPT ![c] = "check"] ELSE pc
  /\ UNCHANGED <<running, reads, ended, watched, sendVars, stopVars>>

SpawnSys ==
  /\ MainAt("spawn", "joinReaders")
  /\ toSpawn = {}
  /\ pc' = [pc EXCEPT ![SysThread] = "check"]
  /\ UNCHANGED <<toSpawn, running, reads, ended, watched, sendVars, stopVars>>

ReadersFinished == \A c \in Handled : pc[c] = "done"

\* Mutant: running_ = false moved before the joins of the readers.
JoinReadersLate ==
  /\ MainAt("joinReaders", "clear")
  /\ UNCHANGED <<toSpawn, running, threadVars, sendVars, stopVars>>

JoinReaders ==
  /\ MainAt("joinReaders", "clear")
  /\ ReadersFinished
  /\ UNCHANGED <<toSpawn, running, threadVars, sendVars, stopVars>>

\* Mutant: run() returns without joining sysMetricsThread_.
JoinSysDetached ==
  /\ MainAt("joinSys", "returned")
  /\ UNCHANGED <<toSpawn, running, threadVars, sendVars, stopVars>>

ClearRunning ==
  /\ MainAt("clear", "joinSys")
  /\ running' = FALSE
  /\ UNCHANGED <<toSpawn, threadVars, sendVars, stopVars>>

JoinSys ==
  /\ MainAt("joinSys", "returned")
  /\ pc[SysThread] = "done"
  /\ UNCHANGED <<toSpawn, running, threadVars, sendVars, stopVars>>

\* ~ZMQAdapter closes the socket and the context: it waits until the queue is
\* flushed or the linger time is over, and what is then queued is discarded.
CloseAdapter ==
  /\ MainAt("returned", "exited")
  /\ UNCHANGED <<toSpawn, running, threadVars, sendVars, stopVars>>

Main ==
  \/ RunStart \/ SpawnReader \/ SpawnSys \/ JoinReaders
  \/ ClearRunning \/ JoinSys \/ CloseAdapter

-----------------------------------------------------------------------------
(* Agent::stop(), called by signalHandler.                                 *)

Signal ==
  /\ stopPc = "idle"
  /\ mainPc # "exited"
  /\ signals < MaxSignals
  /\ signals' = signals + 1
  /\ stopPc' = "clear"
  /\ UNCHANGED <<mainVars, running, threadVars, sendVars, toStop, stopped,
                 stopMark>>

\* Mutant: stop() clears running_ and leaves the collectors blocked.
StopFlagOnly ==
  /\ stopPc = "clear"
  /\ running' = FALSE
  /\ stopPc' = "collectors"
  /\ stopMark' = IF stopMark.at = 0
                   THEN [at |-> Len(log) + 1, early |-> mainPc = "enter"]
                   ELSE stopMark
  /\ UNCHANGED <<mainVars, threadVars, sendVars, toStop, stopped, signals>>

StopClearRunning ==
  /\ stopPc = "clear"
  /\ running' = FALSE
  /\ stopPc' = "collectors"
  /\ toStop' = Collectors
  /\ stopMark' = IF stopMark.at = 0
                   THEN [at |-> Len(log) + 1, early |-> mainPc = "enter"]
                   ELSE stopMark
  /\ UNCHANGED <<mainVars, threadVars, sendVars, stopped, signals>>

StopCollector ==
  /\ stopPc = "collectors"
  /\ \E c \in toStop :
       /\ toStop' = toStop \ {c}
       /\ stopped' = stopped \cup {c}
  /\ UNCHANGED <<mainVars, running, threadVars, sendVars, stopPc, signals,
                 stopMark>>

StopReturn ==
  /\ stopPc = "collectors"
  /\ toStop = {}
  /\ stopPc' = "idle"
  /\ UNCHANGED <<mainVars, running, threadVars, sendVars, toStop, stopped,
                 signals, stopMark>>

Stop == StopClearRunning \/ StopCollector \/ StopReturn

-----------------------------------------------------------------------------
(* Agent::readerLoop() of collector c, with the handler of its service.    *)

Step(t, here, next) ==
  /\ pc[t] = here
  /\ pc' = [pc EXCEPT ![t] = next]

\* Mutant: the loop of a reader does not look at running_.
ReaderCheckForever(c) ==
  /\ Step(c, "check", "read")
  /\ UNCHANGED <<mainVars, running, reads, ended, watched, sendVars, stopVars>>

ReaderCheck(c) ==
  /\ Step(c, "check", IF running THEN "read" ELSE "done")
  /\ UNCHANGED <<mainVars, running, reads, ended, watched, sendVars, stopVars>>

\* readEvent returns the next line; a stopped collector still returns what
\* its source has left.
ReadLine(c) ==
  /\ Step(c, "read", "handle")
  /\ Len(reads[c]) < MaxLines
  /\ \E line \in LinesOf(c) : reads' = [reads EXCEPT ![c] = Append(@, line)]
  /\ UNCHANGED <<mainVars, running, ended, watched, sendVars, stopVars>>

ReadNullopt(c) ==
  /\ Step(c, "read", "done")
  /\ ended' = ended \cup {c}
  /\ UNCHANGED <<mainVars, running, reads, watched, sendVars, stopVars>>

\* nullopt because the collector was stopped and its source is drained.
ReadStopped(c) == c \in stopped /\ ReadNullopt(c)

\* nullopt because of EOF or a fatal read failure, at any time.
ReadFailed(c) == c \notin stopped /\ ReadNullopt(c)

HandleMetrics(c) ==
  /\ Step(c, "handle", "lock")
  /\ CurrentLine(c) = "metrics"
  /\ UNCHANGED <<mainVars, running, reads, ended, watched, sendVars, stopVars>>

HandleQuiet(c) ==
  /\ Step(c, "handle", "check")
  /\ CurrentLine(c) = "quiet"
  /\ UNCHANGED <<mainVars, running, reads, ended, watched, sendVars, stopVars>>

\* Mutant: an event of an interface moves the network collector only.
HandlePortUnsent(c) ==
  /\ Step(c, "handle", IF CurrentLine(c) = UdsPort THEN "lock" ELSE "check")
  /\ CurrentLine(c) \in Ports
  /\ watched' = IF CurrentLine(c) = UdsPort THEN watched ELSE CurrentLine(c)
  /\ UNCHANGED <<mainVars, running, reads, ended, sendVars, stopVars>>

\* Mutant: the name of a socket port reaches setInterface, too.
HandlePortAny(c) ==
  /\ Step(c, "handle", "lock")
  /\ CurrentLine(c) \in Ports
  /\ watched' = CurrentLine(c)
  /\ UNCHANGED <<mainVars, running, reads, ended, sendVars, stopVars>>

\* A port event moves the network collector to the port's interface before
\* it is sent, unless the port is a socket.
HandlePort(c) ==
  /\ Step(c, "handle", "lock")
  /\ CurrentLine(c) \in Ports
  /\ watched' = IF CurrentLine(c) = UdsPort THEN watched ELSE CurrentLine(c)
  /\ UNCHANGED <<mainVars, running, reads, ended, sendVars, stopVars>>

HandleBest(c) ==
  /\ Step(c, "handle", IF TopologyOn THEN "collect" ELSE "check")
  /\ CurrentLine(c) = "best"
  /\ UNCHANGED <<mainVars, running, reads, ended, watched, sendVars, stopVars>>

\* PtpTopologyCollector::collect runs pmc and may return nullopt.
CollectTopology(c) ==
  /\ \E next \in {"lock", "check"} : Step(c, "collect", next)
  /\ UNCHANGED <<mainVars, running, reads, ended, watched, sendVars, stopVars>>

-----------------------------------------------------------------------------
(* Agent::sysMetricsLoop().  Its "read" is the sleep: the snapshot is      *)
(* collected when the thread wakes and running_ still holds.               *)

SysCheck ==
  /\ Step(SysThread, "check", IF running THEN "read" ELSE "done")
  /\ UNCHANGED <<mainVars, running, reads, ended, watched, sendVars, stopVars>>

SysWakeStopped ==
  /\ ~running
  /\ Step(SysThread, "read", "done")
  /\ UNCHANGED <<mainVars, running, reads, ended, watched, sendVars, stopVars>>

SysWake ==
  /\ running
  /\ Len(reads[SysThread]) < MaxSnapshots
  /\ Step(SysThread, "read", "collect")
  /\ UNCHANGED <<mainVars, running, reads, ended, watched, sendVars, stopVars>>

SysCollect ==
  /\ Step(SysThread, "collect", "lock")
  /\ reads' = [reads EXCEPT ![SysThread] = Append(@, watched)]
  /\ UNCHANGED <<mainVars, running, ended, watched, sendVars, stopVars>>

-----------------------------------------------------------------------------
(* std::lock_guard lock(adapterMutex_) and the send under it.              *)

\* Mutant: the send is not under adapterMutex_.
LockNothing(t) ==
  /\ Step(t, "lock", "send")
  /\ owner' = t
  /\ UNCHANGED <<mainVars, running, reads, ended, watched, log, delivered,
                 dropped, stopVars>>

Lock(t) ==
  /\ Step(t, "lock", "send")
  /\ owner = NoThread
  /\ owner' = t
  /\ UNCHANGED <<mainVars, running, reads, ended, watched, log, delivered,
                 dropped, stopVars>>

QueueHasRoom == QueueSize = 0 \/ Len(log) - delivered < QueueSize

\* send_flags::none: the call blocks while the queue is at its high-water mark.
Send(t) ==
  /\ Step(t, "send", "check")
  /\ QueueHasRoom
  /\ log' = Append(log, Current(t))
  /\ owner' = NoThread
  /\ UNCHANGED <<mainVars, running, reads, ended, watched, delivered, dropped,
                 stopVars>>

\* Mutant: the failed send forgets the message without a trace.
SendErrorSilent(t) ==
  /\ Step(t, "send", "check")
  /\ owner' = NoThread
  /\ UNCHANGED <<mainVars, running, reads, ended, watched, log, delivered,
                 dropped, stopVars>>

\* send_impl catches zmq::error_t and returns false, which no caller looks at.
SendError(t) ==
  /\ Step(t, "send", "check")
  /\ dropped' = dropped \cup {Current(t)}
  /\ owner' = NoThread
  /\ UNCHANGED <<mainVars, running, reads, ended, watched, log, delivered,
                 stopVars>>

\* The I/O thread of libzmq hands the oldest queued message to the analyzer.
Deliver ==
  /\ mainPc # "exited"
  /\ delivered < Len(log)
  /\ delivered' = delivered + 1
  /\ UNCHANGED <<mainVars, running, threadVars, owner, log, dropped, stopVars>>

-----------------------------------------------------------------------------
ReaderStep(c) ==
  \/ ReaderCheck(c) \/ ReadStopped(c)
  \/ HandleMetrics(c) \/ HandleQuiet(c) \/ HandlePort(c) \/ HandleBest(c)
  \/ CollectTopology(c)

SysStep == SysCheck \/ SysWakeStopped \/ SysWake \/ SysCollect

Terminated == mainPc = "exited" /\ UNCHANGED vars

Next ==
  \/ Main
  \/ Signal
  \/ Stop
  \/ \E c \in Handled : ReaderStep(c) \/ ReadLine(c) \/ ReadFailed(c)
  \/ SysStep
  \/ \E t \in Threads : Lock(t) \/ Send(t) \/ SendError(t)
  \/ Deliver
  \/ Terminated

Spec == Init /\ [][Next]_vars

(***************************************************************************)
(* Threads and the signal handler are scheduled.  A source owes nobody a   *)
(* line, but readEvent of a stopped collector returns.  A mutex that stays *)
(* free is granted: weak fairness is enough, since only finitely many      *)
(* messages are sent once the agent is stopping.                           *)
(***************************************************************************)
LocalFairness ==
  /\ WF_vars(Main)
  /\ WF_vars(Stop)
  /\ WF_vars(SysStep)
  /\ \A c \in Handled : WF_vars(ReaderStep(c))
  /\ \A t \in Threads : WF_vars(Lock(t)) /\ WF_vars(Send(t))

\* The analyzer may be down for good.
LocalSpec == Spec /\ LocalFairness

\* The analyzer keeps taking messages.
FairSpec == LocalSpec /\ WF_vars(Deliver)

-----------------------------------------------------------------------------
(* Properties.                                                             *)

Accepted == {log[i] : i \in 1 .. Len(log)}

\* The socket is used by one thread at a time, and that thread holds
\* adapterMutex_: a zmq::socket_t must not be shared without a full fence.
SendExclusive == \A t \in Threads : pc[t] = "send" <=> owner = t

\* A metrics line, a port event and a snapshot that a thread has finished with
\* was accepted by the socket or refused by it, and never both; a quiet line
\* left nothing behind.
MustSend(line) == line \in {"metrics", NoInterface} \cup Ports
Handling(t) == pc[t] \in {"handle", "lock", "send"}

Accounted ==
  /\ Accepted \cap dropped = {}
  /\ \A t \in Threads : \A n \in 1 .. Len(reads[t]) :
       /\ MustSend(reads[t][n]) =>
            \/ Message(t, n) \in Accepted \cup dropped
            \/ n = Len(reads[t]) /\ Handling(t)
       /\ reads[t][n] = "quiet" => Message(t, n) \notin Accepted \cup dropped

\* run() returns, and ~Agent() frees the collectors and the adapter, only when
\* no thread can use them any more.
Returned == mainPc \in {"returned", "exited"}

NoThreadOutlivesRun ==
  Returned => /\ \A t \in Threads : pc[t] \in {"none", "done"}
              /\ owner = NoThread

\* "Runs until collectors finish or stop() is requested": a reader leaves its
\* loop only when its own collector has ended or stop() was called, and the
\* system thread outlives the last reader.
StopRequested == stopMark.at > 0

RunsUntilDoneOrStopped ==
  /\ \A c \in Handled : pc[c] = "done" => c \in ended \/ StopRequested
  /\ pc[SysThread] = "done" => ReadersFinished \/ StopRequested

\* Every interface a system snapshot was collected on has been reported to
\* the analyzer by a port event when run() returns (or its send failed),
\* although the two are sent by different threads in no fixed order.
SnapshotInterfaceAnnounced ==
  Returned =>
    \A n \in 1 .. Len(reads[SysThread]) :
      reads[SysThread][n] \in Interfaces =>
        \E k \in 1 .. Len(reads[Ptp4l]) :
          /\ reads[Ptp4l][k] = reads[SysThread][n]
          /\ Message(Ptp4l, k) \in Accepted \cup dropped

\* Once stop() has been called, or every collector has ended, run() returns.
RunReturns ==
  (StopRequested \/ (mainPc = "joinReaders" /\ ReadersFinished)) ~> Returned

\* The agent implements the promise of Forwarder: each source in order, at
\* most one message of a source after stop(), nothing after run().  A stop()
\* that run() has overwritten by running_ = true counts as not requested.
Late == {i \in 1 .. Len(log) : StopRequested /\ i >= stopMark.at}
Heeded == StopRequested /\ ~stopMark.early

F == INSTANCE Forwarder WITH
       Sources <- Threads,
       Numbers <- 1 .. (MaxLines + MaxSnapshots),
       phase <- IF Returned THEN "closed"
                ELSE IF Heeded THEN "draining" ELSE "open",
       late <- IF Heeded THEN {log[i].src : i \in Late} ELSE {}

ForwardsInOrder == F!Spec
=============================================================================
