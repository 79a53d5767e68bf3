------------------------------ MODULE Startup ------------------------------
(***************************************************************************)
(* main(): the configuration file, the collectors made from it with their  *)
(* child processes, the adapter, the signal handlers and g_loop, the run   *)
(* of the agent and the destruction of its members.  Agent has what        *)
(* happens between the first and the last step of run(); here a reader     *)
(* checks running_, waits in readEvent() or is in its handler, which sends *)
(* and so waits for the other threads and for the analyzer.                *)
(***************************************************************************)
EXTENDS Naturals, Sequences

CONSTANTS
  Files,      \* the contents the configuration file may have
  None,       \* a key that is not in the file, an empty string
  MaxSignals  \* bound: signals sent to the process

Services == {"ptp4l", "phc2sys", "ppswatch"}

\* What an int means to its user: queue_size and timeout_after_close_ms are
\* refused by the socket when negative, but a linger of -1 and a huge one, like
\* a huge sleep, last forever.
Meanings ==
  [queue_size |-> {"ok", "invalid"},
   timeout_after_close_ms |-> {"ok", "invalid", "forever"},
   poll_timeout_ms |-> {"ok", "forever"}]

\* load() looks at these services and numbers only.
ASSUME StartupAssumption ==
  /\ MaxSignals \in Nat
  /\ \A f \in Files : /\ DOMAIN f.services \subseteq Services
                      /\ \A n \in DOMAIN Meanings : f.numbers[n] \in Meanings[n] \cup {None}

SignalNumbers == {"SIGINT", "SIGTERM"}

VARIABLES
  file,        \* the configuration file; does not change
  config,      \* the AgentConfig of main()
  pc,          \* where main() is
  next,        \* the next element of config.service
  collectors,  \* the sources of the collectors made, by service
  failed,      \* history: services whose collector could not be made
  child,       \* the child process of each service; "orphan": sudo is gone and
               \* the program it has started holds the pipe
  reader,      \* the reader thread of each service
  running,     \* running_
  stopped,     \* journal collectors with stop_requested_
  loop,        \* g_loop points at the agent
  handled,     \* the signals signalHandler is installed for
  signals,     \* history: signals sent
  asked        \* history: signalHandler has run

boot == <<file, config, next, collectors, failed>>
world == <<child, reader, running, stopped>>
sigs == <<loop, handled, signals, asked>>
vars == <<boot, pc, world, sigs>>

Places == {"load", "create", "agent", "sigint", "sigterm", "run",
           "join", "close", "free", "freed", "exit",
           "killed", "aborted", "crashed"}

\* The process is gone: main() returned, a signal had its default action, an
\* exception was not caught, or the handler used what is freed.
Ended == pc \in {"exit", "killed", "aborted", "crashed"}

-----------------------------------------------------------------------------
(* ConfigLoader                                                            *)

\* load() is all or nothing: a key it must have throws out of it.
Loads(f) ==
  /\ f.readable
  /\ \A s \in DOMAIN f.services :
       /\ f.services[s].source # None
       /\ s = "ppswatch" => f.services[s].dev # None

\* The entry of a service, if the file has it; only ppswatch has its device
\* read.
Entries(f, s) ==
  IF s \in DOMAIN f.services
    THEN <<[name |-> s, on |-> f.services[s].on, source |-> f.services[s].source,
            dev |-> IF s = "ppswatch" THEN f.services[s].dev ELSE None]>>
    ELSE <<>>

ServiceList(f) == Entries(f, "ptp4l") \o Entries(f, "phc2sys") \o Entries(f, "ppswatch")

\* A number of the file, taken as it is, or what an int without initializer
\* may hold.
Number(f, n) == IF f.numbers[n] = None THEN Meanings[n] ELSE {f.numbers[n]}

\* What loadOrDefault() may return.
Configs(f) ==
  IF Loads(f)
    THEN [service : {ServiceList(f)}, endpoint : {f.endpoint},
          queue_size : Number(f, "queue_size"),
          linger : Number(f, "timeout_after_close_ms"),
          poll : Number(f, "poll_timeout_ms")]
    ELSE [service : {<<>>}, endpoint : {None},
          queue_size : Meanings.queue_size, linger : Meanings.timeout_after_close_ms,
          poll : {"ok"}]

\* What makeCollector() knows; it throws for the rest.
Supported(cfg) ==
  \/ cfg.source = "subproccess"
  \/ cfg.source = "journal" /\ cfg.name # "ppswatch"

-----------------------------------------------------------------------------
Init ==
  /\ file \in Files
  /\ config = None
  /\ pc = "load"
  /\ next = 1
  /\ collectors = <<>>
  /\ failed = {}
  /\ child = [s \in Services |-> "none"]
  /\ reader = [s \in Services |-> "none"]
  /\ running = FALSE
  /\ stopped = {}
  /\ loop = FALSE
  /\ handled = {}
  /\ signals = 0
  /\ asked = FALSE

Goto(from, to) == pc = from /\ pc' = to

Load ==
  /\ Goto("load", "create")
  /\ config' \in Configs(file)
  /\ UNCHANGED <<file, next, collectors, failed, world, sigs>>

-----------------------------------------------------------------------------
(* main()                                                                  *)

Current == config.service[next]

\* One turn of the loop over config.service.
Turn ==
  /\ pc = "create"
  /\ next <= Len(config.service)
  /\ next' = next + 1
  /\ UNCHANGED <<file, config, pc, reader, running, stopped, sigs>>

SkipService == Turn /\ ~Current.on /\ UNCHANGED <<collectors, failed, child>>

\* makeCollector() throws for a source it does not know, and the loop goes on.
SkipUnknown ==
  /\ Turn
  /\ Current.on
  /\ ~Supported(Current)
  /\ UNCHANGED <<collectors, failed, child>>

\* A subprocess collector starts its child in the constructor.
MakeCollector ==
  /\ Turn
  /\ Current.on
  /\ Supported(Current)
  /\ collectors' = [s \in DOMAIN collectors \cup {Current.name} |->
                      IF s = Current.name THEN Current.source ELSE collectors[s]]
  /\ child' = IF Current.source = "subproccess"
                THEN [child EXCEPT ![Current.name] = "running"]
                ELSE child
  /\ UNCHANGED failed

\* Mutant: an exception leaves the loop over the services.
CollectorFailsBreak ==
  /\ pc = "create"
  /\ next <= Len(config.service)
  /\ Current.on
  /\ Supported(Current)
  /\ failed' = failed \cup {Current.name}
  /\ next' = Len(config.service) + 1
  /\ UNCHANGED <<file, config, pc, collectors, world, sigs>>

\* A child that is gone at once, a journal that does not open: whatever the
\* constructor throws, the loop goes on.
CollectorFails ==
  /\ Turn
  /\ Current.on
  /\ Supported(Current)
  /\ failed' = failed \cup {Current.name}
  /\ UNCHANGED <<collectors, child>>

\* What ZMQAdapter's constructor throws nobody catches, and the collectors are
\* not destroyed.
MakeAdapter ==
  /\ pc = "create"
  /\ next > Len(config.service)
  /\ pc' = IF config.endpoint = None \/ "invalid" \in {config.queue_size, config.linger}
             THEN "aborted" ELSE "agent"
  /\ UNCHANGED <<boot, world, sigs>>

\* The TemperatureCollector of the agent may throw (StoiThrows in Hwmon).
MakeAgent ==
  /\ \/ Goto("agent", "sigint") /\ loop' = TRUE
     \/ Goto("agent", "aborted") /\ UNCHANGED loop
  /\ UNCHANGED <<boot, world, handled, signals, asked>>

HandleSignals ==
  /\ \/ Goto("sigint", "sigterm") /\ handled' = {"SIGINT"}
     \/ Goto("sigterm", "run") /\ handled' = SignalNumbers
  /\ UNCHANGED <<boot, world, loop, signals, asked>>

\* Mutant: every service gets a reader, whether it has a collector or not.
EnterRunAll ==
  /\ Goto("run", "join")
  /\ running' = TRUE
  /\ reader' = [s \in Services |-> "check"]
  /\ UNCHANGED <<boot, child, stopped, sigs>>

\* running_ is set, whatever stop() has made of it before.  Each service that
\* main() knows has a handler, so each collector a reader.
EnterRun ==
  /\ Goto("run", "join")
  /\ running' = TRUE
  /\ reader' = [s \in Services |->
                  IF s \in DOMAIN collectors THEN "check" ELSE "none"]
  /\ UNCHANGED <<boot, child, stopped, sigs>>

Reads(s) == reader[s] \in {"check", "reading", "handling"}

\* The join of the readers, then that of the system thread, which may sleep.
ReturnFromRun ==
  /\ Goto("join", "close")
  /\ \A s \in Services : ~Reads(s)
  /\ running' = FALSE
  /\ UNCHANGED <<boot, child, reader, stopped, sigs>>

\* ~Agent() destroys adapter_ before collectors_; the context waits for the
\* linger time of its socket.
CloseAdapter == Goto("close", "free") /\ UNCHANGED <<boot, world, sigs>>

\* SIGKILL for the children of collectors: sudo is gone, what it has started
\* may stay behind with the pipe.
KillChildren ==
  \E left \in SUBSET Services :
    child' = [s \in Services |->
                IF s \in DOMAIN collectors /\ child[s] = "running"
                  THEN IF s \in left THEN "orphan" ELSE "gone"
                  ELSE child[s]]

\* Mutant: the destructor relies on stop() for the child.
FreeCollectorsOnly ==
  /\ Goto("free", "freed")
  /\ collectors' = <<>>
  /\ UNCHANGED <<file, config, next, failed, world, sigs>>

FreeCollectors ==
  /\ Goto("free", "freed")
  /\ collectors' = <<>>
  /\ KillChildren
  /\ UNCHANGED <<file, config, next, failed, reader, running, stopped, sigs>>

ReturnFromMain == Goto("freed", "exit") /\ UNCHANGED <<boot, world, sigs>>

Main ==
  \/ Load \/ SkipService \/ SkipUnknown \/ MakeCollector \/ CollectorFails \/ MakeAdapter
  \/ MakeAgent \/ HandleSignals \/ EnterRun \/ ReturnFromRun
  \/ CloseAdapter \/ FreeCollectors \/ ReturnFromMain

-----------------------------------------------------------------------------
(* Readers, children and signals                                           *)

\* The child ends by itself, or the program that sudo has left behind.
ChildExits(s) ==
  /\ ~Ended
  /\ child[s] \in {"running", "orphan"}
  /\ child' = [child EXCEPT ![s] = "gone"]
  /\ UNCHANGED <<boot, pc, reader, running, stopped, sigs>>

ReaderAt(s, from, to) ==
  /\ ~Ended
  /\ reader[s] = from
  /\ reader' = [reader EXCEPT ![s] = to]
  /\ UNCHANGED <<boot, pc, child, running, stopped, sigs>>

ReaderCheck(s) == ReaderAt(s, "check", IF running THEN "reading" ELSE "done")

\* readEvent() returns an event, and its handler returns.
ReaderTakes(s) == ReaderAt(s, "reading", "handling")
ReaderHandles(s) == ReaderAt(s, "handling", "check")

\* readEvent() returns nullopt: the pipe is at its end, or stop was requested
\* and the journal has nothing new.
ReaderUnblocked(s) ==
  (s \in stopped \/ child[s] = "gone") /\ ReaderAt(s, "reading", "done")

\* An empty line or a failed read ends a reader although its child runs.
ReaderFails(s) == ReaderAt(s, "reading", "done")


\* Agent::stop(): running_, and stop() on every collector.
Stop ==
  /\ running' = FALSE
  /\ stopped' = stopped \cup {s \in DOMAIN collectors : collectors[s] = "journal"}
  /\ KillChildren

\* signalHandler; g_loop still points at the agent when it is gone, and the
\* use of what is freed may be harmless or not.
Handler ==
  /\ asked' = TRUE
  /\ IF loop THEN Stop ELSE UNCHANGED <<running, stopped, child>>
  /\ pc' \in {pc} \cup (IF pc = "freed" THEN {"crashed"} ELSE {})

Signal(sig) ==
  /\ ~Ended
  /\ signals < MaxSignals
  /\ signals' = signals + 1
  /\ IF sig \in handled
       THEN Handler
       ELSE pc' = "killed" /\ UNCHANGED <<asked, running, stopped, child>>
  /\ UNCHANGED <<boot, reader, loop, handled>>

Terminated == Ended /\ UNCHANGED vars

Next ==
  \/ Main
  \/ \E s \in Services :
       \/ ChildExits(s) \/ ReaderCheck(s) \/ ReaderTakes(s) \/ ReaderHandles(s)
       \/ ReaderUnblocked(s) \/ ReaderFails(s)
  \/ \E sig \in SignalNumbers : Signal(sig)
  \/ Terminated

Spec == Init /\ [][Next]_vars

(***************************************************************************)
(* main() is scheduled, and its waits end unless they are for a number     *)
(* that lasts forever; a reader checks running_.  A journal is read to its *)
(* end again and again, and the output of a child that is gone is finite.  *)
(* No handler need return, as a send may keep it; no source owes an event  *)
(* or an end, and nobody a signal.                                         *)
(***************************************************************************)
WaitsEnd ==
  /\ pc = "join" => config.poll = "ok"
  /\ pc = "close" => config.linger = "ok"

FairSpec ==
  /\ Spec
  /\ WF_vars(Main /\ WaitsEnd)
  /\ \A s \in Services : WF_vars(ReaderCheck(s)) /\ SF_vars(ReaderUnblocked(s))

-----------------------------------------------------------------------------
(* Properties                                                              *)

\* Threads and children are those of collectors that were made.
TypeOK ==
  /\ file \in Files
  /\ pc \in Places
  /\ pc = "load" => config = None
  /\ next \in 1 .. 4
  /\ loop \in BOOLEAN /\ asked \in BOOLEAN /\ running \in BOOLEAN
  /\ signals \in 0 .. MaxSignals
  /\ DOMAIN collectors \subseteq Services
  /\ \A s \in DOMAIN collectors : collectors[s] \in {"subproccess", "journal"}
  /\ failed \subseteq Services
  /\ stopped \subseteq Services
  /\ handled \subseteq SignalNumbers
  /\ \A s \in Services :
       /\ child[s] \in {"none", "running", "orphan", "gone"}
       /\ reader[s] \in {"none", "check", "reading", "handling", "done"}
       /\ s \in DOMAIN collectors =>
            (collectors[s] = "subproccess" <=> child[s] # "none")
       /\ Reads(s) => s \in DOMAIN collectors

AgentExists == pc \in {"run", "join", "close", "free"}

\* No service is lost to another, and no half of a file runs: when an agent
\* runs, the file has an endpoint and no service of it lacks a key; an enabled
\* service without a collector has a source makeCollector() does not know or a
\* constructor that threw, whatever became of the services around it; and each
\* collector is of an enabled service and of the source its file names.  The
\* defaults of loadOrDefault() never get as far (main.cpp, config.cpp).
NoServiceLostToAnother ==
  AgentExists =>
    LET listed == DOMAIN file.services
        Has(s, source) == file.services[s].on /\ file.services[s].source = source
    IN  /\ file.readable
        /\ file.endpoint # None
        /\ \A s \in listed : file.services[s].source # None
        /\ DOMAIN collectors \cap failed = {}
        /\ {s \in listed : Has(s, "subproccess")}
             \cup {s \in listed \ {"ppswatch"} : Has(s, "journal")}
             \subseteq DOMAIN collectors \cup failed
        /\ \A s \in DOMAIN collectors : s \in listed /\ Has(s, collectors[s])

\* "Source type: journal or subprocess." (config.h:27): an enabled service of
\* one of these sources has a collector, unless its constructor threw.
DocumentedSourceStarts ==
  AgentExists =>
    \A s \in DOMAIN file.services :
      file.services[s].on /\ file.services[s].source \in {"journal", "subprocess"}
        => s \in DOMAIN collectors \cup failed

\* main() does not return with a child still running, however the readers and
\* the signals ended (collector.cpp, ~SubprocessCollector).  The child is sudo;
\* a program it leaves behind is nobody's any more.
NoChildLeft == pc = "exit" => \A s \in Services : child[s] # "running"

\* A program left behind holds the pipe its reader reads.
Orphaned == \E s \in Services : child[s] = "orphan" /\ Reads(s)

\* The numbers the process waits by, whether they are in the file or not.
WaitsAreFinite == config # None /\ config.poll = "ok" /\ config.linger = "ok"

\* A handler is at work, or waits: for an analyzer that takes no messages, with
\* the mutex, or for the mutex.
Sending == \E s \in Services : reader[s] = "handling"


\* The command of a running child was given the device its configuration
\* names ("Device or interface argument used by subprocess collectors.",
\* config.h:31); ptp4l and ppswatch have it in their arguments.
DeviceReachesCommand ==
  \A i \in 1 .. (next - 1) :
    LET cfg == config.service[i]
    IN  cfg.name \in {"ptp4l", "ppswatch"} /\ child[cfg.name] = "running"
          => cfg.dev = file.services[cfg.name].dev
=============================================================================
