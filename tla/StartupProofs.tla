--------------------------- MODULE StartupProofs ---------------------------
(***************************************************************************)
(* main(), for every set of configuration files and any number of signals: *)
(* no child is left when it returns, and no service of a file is lost to   *)
(* another.                                                                *)
(***************************************************************************)
EXTENDS Startup, TLAPS

Children == {"none", "running", "orphan", "gone"}
Readers == {"none", "check", "reading", "handling", "done"}

\* A running child belongs to a collector that is still there: main() makes
\* both in one step, and frees both in one.
ChildInv ==
  /\ child \in [Services -> Children]
  /\ \A s \in Services : child[s] = "running" => s \in DOMAIN collectors
  /\ pc \in {"freed", "exit"} => \A s \in Services : child[s] # "running"

\* There are no children before main().
LEMMA ChildInvInit == Init => ChildInv
BY DEF Init, ChildInv, Children

\* SIGKILL for the children of collectors: none of these runs afterwards, and
\* no child begins.
LEMMA KillChildrenFacts ==
  ASSUME KillChildren, child \in [Services -> Children]
  PROVE  /\ child' \in [Services -> Children]
         /\ \A s \in Services :
              /\ child'[s] = "running" => child[s] = "running" /\ s \notin DOMAIN collectors
              /\ child'[s] = "none" <=> child[s] = "none"
<1>1. PICK left \in SUBSET Services :
        child' = [s \in Services |->
                    IF s \in DOMAIN collectors /\ child[s] = "running"
                      THEN IF s \in left THEN "orphan" ELSE "gone"
                      ELSE child[s]]
  BY DEF KillChildren
<1> QED  BY <1>1 DEF Children

\* A step that starts no child and frees no collector, and ends neither the
\* destruction nor main().
LEMMA ChildInvQuiet ==
  ASSUME ChildInv, UNCHANGED collectors,
         child' \in [Services -> Children],
         \A s \in Services : child'[s] = "running" => child[s] = "running",
         pc' \in {"freed", "exit"} => pc \in {"freed", "exit"}
  PROVE  ChildInv'
BY DEF ChildInv

\* A collector is made with its child and remembered.
LEMMA ChildInvMake == ChildInv /\ MakeCollector => ChildInv'
<1> SUFFICES ASSUME ChildInv, MakeCollector PROVE ChildInv'  OBVIOUS
<1>1. DOMAIN collectors' = DOMAIN collectors \cup {Current.name}
  BY DEF MakeCollector
<1>2. /\ child' \in [Services -> Children]
      /\ \A s \in Services \ {Current.name} : child'[s] = child[s]
  BY DEF MakeCollector, ChildInv, Children
<1>3. pc' = "create"  BY DEF MakeCollector, Turn
<1> QED  BY <1>1, <1>2, <1>3 DEF ChildInv

\* main(): only FreeCollectors forgets collectors, and it kills their children.
LEMMA ChildInvMain == ChildInv /\ Main => ChildInv'
<1> SUFFICES ASSUME ChildInv, Main PROVE ChildInv'  OBVIOUS
<1> USE DEF boot, world, sigs, Goto
<1>1. CASE MakeCollector  BY <1>1, ChildInvMake
<1>2. CASE FreeCollectors
  <2>1. KillChildren /\ DOMAIN collectors' = {}  BY <1>2 DEF FreeCollectors
  <2> QED  BY <2>1, KillChildrenFacts DEF ChildInv
<1>3. CASE Load \/ SkipService \/ SkipUnknown \/ CollectorFails \/ MakeAdapter \/ MakeAgent
           \/ HandleSignals \/ EnterRun \/ ReturnFromRun \/ CloseAdapter \/ ReturnFromMain
  <2>1. UNCHANGED <<collectors, child>>
    BY <1>3 DEF Load, SkipService, SkipUnknown, CollectorFails, Turn, MakeAdapter, MakeAgent,
                HandleSignals, EnterRun, ReturnFromRun, CloseAdapter, ReturnFromMain
  <2>2. pc' \in {"freed", "exit"} => pc \in {"freed", "exit"}
    BY <1>3 DEF Load, SkipService, SkipUnknown, CollectorFails, Turn, MakeAdapter, MakeAgent,
                HandleSignals, EnterRun, ReturnFromRun, CloseAdapter, ReturnFromMain
  <2> QED  BY <2>1, <2>2 DEF ChildInv
<1> QED  BY <1>1, <1>2, <1>3 DEF Main

\* A step of a child or a reader.
SourceStep(s) ==
  \/ ChildExits(s) \/ ReaderCheck(s) \/ ReaderTakes(s) \/ ReaderHandles(s)
  \/ ReaderUnblocked(s) \/ ReaderFails(s)

\* A child may end, a reader of a collector may go on or be done.
LEMMA SourceFacts ==
  ASSUME NEW s \in Services, SourceStep(s), child \in [Services -> Children],
         reader \in [Services -> Readers]
  PROVE  /\ UNCHANGED <<boot, pc, running, stopped, sigs>>
         /\ child' \in [Services -> Children]
         /\ \A t \in Services : child'[t] = child[t] \/ (child'[t] = "gone" /\ child[t] # "none")
         /\ reader' \in [Services -> Readers]
         /\ \A t \in Services : Reads(t)' => Reads(t)
         /\ ~Ended
<1>1. CASE ChildExits(s)
  <2>1. /\ child' = [child EXCEPT ![s] = "gone"] /\ child[s] # "none" /\ ~Ended
        /\ UNCHANGED <<boot, pc, reader, running, stopped, sigs>>
    BY <1>1 DEF ChildExits
  <2>2. /\ child' \in [Services -> Children]
        /\ \A t \in Services : child'[t] = child[t] \/ (child'[t] = "gone" /\ child[t] # "none")
    BY <2>1 DEF Children
  <2> QED  BY <2>1, <2>2 DEF Reads
<1>2. CASE ~ChildExits(s)
  <2>1. PICK from \in {"check", "reading", "handling"}, to \in Readers : ReaderAt(s, from, to)
    BY <1>2 DEF SourceStep, ReaderCheck, ReaderTakes, ReaderHandles, ReaderUnblocked,
                ReaderFails, Readers
  <2>2. /\ reader[s] = from /\ reader' = [reader EXCEPT ![s] = to] /\ ~Ended
        /\ UNCHANGED <<boot, pc, child, running, stopped, sigs>>
    BY <2>1 DEF ReaderAt
  <2>3. reader' \in [Services -> Readers] /\ (\A t \in Services : t # s => reader'[t] = reader[t])
    BY <2>2
  <2> QED  BY <2>2, <2>3 DEF Reads
<1> QED  BY <1>1, <1>2

\* A child or a reader, whatever state it is in.
LEMMA ChildInvSource ==
  ASSUME ChildInv, NEW s \in Services, SourceStep(s)
  PROVE  ChildInv'
<1>1. UNCHANGED <<boot, pc>>
  BY DEF SourceStep, ChildExits, ReaderCheck, ReaderTakes, ReaderHandles, ReaderUnblocked,
         ReaderFails, ReaderAt
<1>2. child' \in {child, [child EXCEPT ![s] = "gone"]}
  BY DEF SourceStep, ChildExits, ReaderCheck, ReaderTakes, ReaderHandles, ReaderUnblocked,
         ReaderFails, ReaderAt
<1>3. /\ child' \in [Services -> Children]
      /\ \A t \in Services : child'[t] = "running" => child[t] = "running"
  BY <1>2 DEF ChildInv, Children
<1> QED  BY <1>1, <1>3, ChildInvQuiet DEF boot

\* Both signals.
LEMMA ChildInvSignal ==
  ASSUME ChildInv, NEW sig \in SignalNumbers, Signal(sig)
  PROVE  ChildInv'
<1>1. UNCHANGED collectors /\ pc' \in {pc, "killed", "crashed"}
  BY DEF Signal, Handler, boot
<1>2. UNCHANGED child \/ KillChildren
  BY DEF Signal, Handler, Stop
<1>3. /\ child' \in [Services -> Children]
      /\ \A s \in Services : child'[s] = "running" => child[s] = "running"
  BY <1>2, KillChildrenFacts DEF ChildInv
<1> QED  BY <1>1, <1>3, ChildInvQuiet

\* The invariant is inductive.
LEMMA ChildInvNext == ChildInv /\ [Next]_vars => ChildInv'
<1>1. ChildInv /\ UNCHANGED vars => ChildInv'
  BY DEF vars, boot, world, ChildInv
<1>2. ASSUME ChildInv, NEW s \in Services, SourceStep(s) PROVE ChildInv'
  BY <1>2, ChildInvSource
<1> QED  BY <1>1, <1>2, ChildInvMain, ChildInvSignal DEF Next, Terminated, SourceStep

\* When main() returns no child of a collector runs, whatever the file says,
\* however its readers ended and wherever the signals came.
THEOREM NoChildLeftHolds == Spec => []NoChildLeft
<1>1. ChildInv => NoChildLeft  BY DEF ChildInv, NoChildLeft
<1> QED  BY <1>1, ChildInvInit, ChildInvNext, PTL DEF Spec

-----------------------------------------------------------------------------
(* What the loop over config.service has done                              *)

\* The places at which config is what load() returned and collectors_ is alive.
Configured == {"create", "agent", "sigint", "sigterm", "run", "join", "close", "free"}

\* The services the loop is through with.
Tried == 1 .. (next - 1)
Service(i) == config.service[i]

LoadInv == pc = "load" => next = 1 /\ collectors = <<>> /\ failed = {}

\* Every service behind the loop that main() knows has a collector or has
\* failed, and nothing else has.
ServiceInv ==
  /\ config \in Configs(file)
  /\ next \in 1 .. (Len(config.service) + 1)
  /\ \A i \in Tried :
       Service(i).on /\ Supported(Service(i)) =>
         Service(i).name \in DOMAIN collectors \cup failed
  /\ \A s \in DOMAIN collectors : \E i \in Tried :
       /\ Service(i).name = s
       /\ Service(i).on
       /\ Service(i).source = collectors[s]
  /\ \A s \in failed : \E i \in Tried : Service(i).name = s
  /\ DOMAIN collectors \cap failed = {}

\* main() gets behind the loop with the whole list and an endpoint.
BehindInv == pc # "create" => next > Len(config.service) /\ config.endpoint # None

\* A service without a collector has no child, and readers only read while
\* run() joins them.
IdleInv ==
  /\ pc \in {"load"} \cup Configured =>
       \A s \in Services : s \notin DOMAIN collectors => child[s] = "none"
  /\ reader \in [Services -> Readers]
  /\ \A s \in Services : Reads(s) => pc \in {"join", "killed", "aborted", "crashed"}

StartupInv ==
  /\ TypeOK
  /\ ChildInv
  /\ LoadInv
  /\ pc \in Configured => ServiceInv /\ BehindInv
  /\ IdleInv

\* list has one entry, its own, for each service of done that the file f has.
Lists(f, done, n, list) ==
  /\ list \in Seq({Entries(f, s)[1] : s \in Services})
  /\ Len(list) \in 0 .. n
  /\ \A i \in 1 .. Len(list) :
       /\ list[i].name \in done \cap DOMAIN f.services
       /\ list[i].on = f.services[list[i].name].on
       /\ list[i].source = f.services[list[i].name].source
  /\ \A s \in done \cap DOMAIN f.services :
       \E i \in 1 .. Len(list) : list[i].name = s
  /\ \A i, j \in 1 .. Len(list) : list[i].name = list[j].name => i = j

\* One of the three ifs of load().
LEMMA EntriesAppend ==
  ASSUME NEW f, NEW done \in SUBSET Services, NEW s \in Services \ done, NEW n \in Nat,
         NEW list, Lists(f, done, n, list)
  PROVE  Lists(f, done \cup {s}, n + 1, list \o Entries(f, s))
<1>1. CASE s \notin DOMAIN f.services
  <2>1. list \o Entries(f, s) = list  BY <1>1 DEF Entries, Lists
  <2> QED  BY <1>1, <2>1 DEF Lists
<1>2. CASE s \in DOMAIN f.services
  <2> DEFINE new == Entries(f, s)[1]
             longer == list \o <<new>>
             E == {Entries(f, t)[1] : t \in Services}
  <2>1. /\ Entries(f, s) = <<new>>
        /\ new \in E
        /\ new.name = s /\ new.on = f.services[s].on /\ new.source = f.services[s].source
    BY <1>2 DEF Entries
  <2>2. list \in Seq(E)  BY DEF Lists
  <2> HIDE DEF new, E
  <2>3. /\ longer \in Seq(E)
        /\ Len(longer) = Len(list) + 1
        /\ \A i \in 1 .. Len(list) : longer[i] = list[i]
        /\ longer[Len(longer)] = new
    BY <2>1, <2>2
  <2> HIDE DEF longer
  <2>4. Len(list) \in Nat  BY <2>2
  <2>5. \A i \in 1 .. Len(longer) : i \in 1 .. Len(list) \/ i = Len(longer)
    BY <2>3, <2>4
  <2>6. \A i \in 1 .. Len(list) :
          list[i].name \in done \cap DOMAIN f.services /\ list[i].name # s
    BY DEF Lists
  <2>7. Len(longer) \in 0 .. (n + 1)  BY <2>3, <2>4 DEF Lists
  <2>8. \A i \in 1 .. Len(longer) :
          /\ longer[i].name \in (done \cup {s}) \cap DOMAIN f.services
          /\ longer[i].on = f.services[longer[i].name].on
          /\ longer[i].source = f.services[longer[i].name].source
    BY <1>2, <2>1, <2>3, <2>5 DEF Lists
  <2>9. \A t \in (done \cup {s}) \cap DOMAIN f.services :
          \E i \in 1 .. Len(longer) : longer[i].name = t
    <3>1. Len(longer) \in 1 .. Len(longer)
          /\ \A i \in 1 .. Len(list) : i \in 1 .. Len(longer)
      BY <2>3, <2>4
    <3> QED  BY <2>1, <2>3, <3>1 DEF Lists
  <2>10. \A i, j \in 1 .. Len(longer) : longer[i].name = longer[j].name => i = j
    BY <2>1, <2>3, <2>5, <2>6 DEF Lists
  <2>11. longer = list \o Entries(f, s)  BY <2>1 DEF longer
  <2>12. Lists(f, done \cup {s}, n + 1, longer)
    BY <2>3, <2>7, <2>8, <2>9, <2>10 DEF Lists, E
  <2> QED  BY <2>11, <2>12
<1> QED  BY <1>1, <1>2

\* load() lists each service of the file once, with its own keys.
LEMMA ServiceListIs ==
  ASSUME NEW f PROVE Lists(f, Services, 3, ServiceList(f))
<1>1. Lists(f, {}, 0, <<>>)  BY DEF Lists
<1>2. Lists(f, {"ptp4l"}, 1, Entries(f, "ptp4l"))
  <2>1. Lists(f, {} \cup {"ptp4l"}, 0 + 1, <<>> \o Entries(f, "ptp4l"))
    BY <1>1, EntriesAppend DEF Services
  <2>2. <<>> \o Entries(f, "ptp4l") = Entries(f, "ptp4l")  BY DEF Entries
  <2> QED  BY <2>1, <2>2
<1>3. Lists(f, {"ptp4l"} \cup {"phc2sys"}, 1 + 1, Entries(f, "ptp4l") \o Entries(f, "phc2sys"))
  BY <1>2, EntriesAppend DEF Services
<1>4. Lists(f, {"ptp4l", "phc2sys"} \cup {"ppswatch"}, 2 + 1, ServiceList(f))
  BY <1>3, EntriesAppend DEF Services, ServiceList
<1> QED  BY <1>4 DEF Services

\* Whatever the file, main() has a list of at most three services, each once;
\* with an endpoint the file has, it is the whole list of a readable file.
LEMMA Listing ==
  ASSUME NEW f \in Files, NEW c \in Configs(f)
  PROVE  /\ Len(c.service) \in 0 .. 3
         /\ \A i \in 1 .. Len(c.service) : c.service[i].name \in Services
         /\ \A i, j \in 1 .. Len(c.service) :
              c.service[i].name = c.service[j].name => i = j
         /\ c.endpoint # None =>
              /\ Loads(f)
              /\ f.endpoint # None
              /\ Lists(f, Services, 3, c.service)
<1>1. CASE Loads(f)
  <2>1. c.service = ServiceList(f) /\ c.endpoint = f.endpoint  BY <1>1 DEF Configs
  <2>2. Lists(f, Services, 3, c.service)  BY <2>1, ServiceListIs
  <2> DEFINE list == c.service
  <2>3. /\ Len(list) \in 0 .. 3
        /\ \A i \in 1 .. Len(list) : list[i].name \in Services
        /\ \A i, j \in 1 .. Len(list) : list[i].name = list[j].name => i = j
    BY <2>2 DEF Lists
  <2> QED  BY <1>1, <2>1, <2>2, <2>3
<1>2. CASE ~Loads(f)
  <2>1. c.service = <<>> /\ c.endpoint = None  BY <1>2 DEF Configs
  <2> QED  BY <2>1
<1> QED  BY <1>1, <1>2

\* main() has not begun.
LEMMA StartupInvInit == Init => StartupInv
<1> SUFFICES ASSUME Init PROVE StartupInv  OBVIOUS
<1>1. DOMAIN collectors = {}  BY DEF Init
<1>2. TypeOK
  <2>0. loop \in BOOLEAN /\ asked \in BOOLEAN /\ running \in BOOLEAN  BY DEF Init
  <2>1. /\ file \in Files /\ pc \in Places /\ config = None /\ next \in 1 .. 4
        /\ signals \in 0 .. MaxSignals
    BY StartupAssumption DEF Init, Places
  <2>2. \A s \in Services : child[s] = "none" /\ reader[s] = "none"
    BY DEF Init
  <2>3. failed = {} /\ stopped = {} /\ handled = {}  BY DEF Init
  <2> QED  BY <1>1, <2>0, <2>1, <2>2, <2>3 DEF TypeOK, Reads
<1>3. LoadInv /\ IdleInv /\ (pc \in Configured => ServiceInv /\ BehindInv)
  BY DEF Init, LoadInv, IdleInv, Configured, Readers, Reads
<1> QED  BY <1>2, <1>3, ChildInvInit DEF StartupInv

\* A step that leaves the loop and its results alone keeps what they say.
LEMMA ServiceInvQuiet ==
  ASSUME ServiceInv, UNCHANGED boot
  PROVE  ServiceInv'
BY DEF ServiceInv, boot, Tried, Service, Supported

\* The first step of main().
LEMMA StartupInvLoad == StartupInv /\ Load => StartupInv'
<1> SUFFICES ASSUME StartupInv, Load PROVE StartupInv'  OBVIOUS
<1> USE DEF world, sigs
<1>1. /\ pc = "load" /\ pc' = "create"
      /\ next = 1 /\ collectors = <<>> /\ failed = {}
      /\ config' \in Configs(file)
      /\ UNCHANGED <<file, next, collectors, failed, child, reader, running, stopped, loop, handled,
                    signals, asked>>
  BY DEF Load, Goto, StartupInv, LoadInv
<1>2. TypeOK'  BY <1>1 DEF StartupInv, TypeOK, Reads, Places
<1>3. ServiceInv'
  <2>1. Len(config'.service) \in Nat
    BY <1>1, Listing DEF StartupInv, TypeOK, Reads
  <2> QED  BY <1>1, <2>1 DEF ServiceInv, Tried
<1>4. ChildInv' /\ LoadInv' /\ IdleInv' /\ BehindInv'
  BY <1>1 DEF StartupInv, ChildInv, LoadInv, IdleInv, Reads, BehindInv, Configured
<1> QED  BY <1>2, <1>3, <1>4 DEF StartupInv

\* In a turn of the loop, main() is at a service it has not come to before.
LEMMA TurnFacts ==
  ASSUME StartupInv, Turn
  PROVE  /\ pc = "create" /\ pc' = "create"
         /\ ServiceInv
         /\ next \in 1 .. Len(config.service) /\ Len(config.service) \in 0 .. 3
         /\ Current.name \in Services
         /\ Current.name \notin DOMAIN collectors \cup failed
         /\ config' = config /\ config \in Configs(file)
         /\ next' = next + 1 /\ next' \in 1 .. 4
         /\ Tried' = Tried \cup {next}
         /\ child[Current.name] = "none"
<1>1. /\ pc = "create" /\ pc' = "create" /\ ServiceInv
      /\ config' = config /\ next' = next + 1 /\ next <= Len(config.service)
  BY DEF Turn, StartupInv, Configured
<1>2. file \in Files /\ config \in Configs(file)  BY <1>1 DEF StartupInv, TypeOK, Reads, ServiceInv
<1>3. /\ Len(config.service) \in 0 .. 3
      /\ \A i \in 1 .. Len(config.service) : config.service[i].name \in Services
      /\ \A i, j \in 1 .. Len(config.service) :
           config.service[i].name = config.service[j].name => i = j
  BY <1>2, Listing
<1>4. next \in 1 .. Len(config.service)  BY <1>1, <1>3 DEF ServiceInv
<1>5. \A i \in Tried : i \in 1 .. Len(config.service) /\ i # next
  BY <1>3, <1>4 DEF Tried
<1>6. Current.name \notin DOMAIN collectors \cup failed
  BY <1>1, <1>3, <1>4, <1>5 DEF ServiceInv, Current, Service
<1>7. Current.name \in Services  BY <1>3, <1>4 DEF Current
<1>8. child[Current.name] = "none"
  BY <1>1, <1>6, <1>7 DEF StartupInv, IdleInv, Configured
<1>9. Tried' = Tried \cup {next}  BY <1>1, <1>3, <1>4 DEF Tried
<1>10. next' \in 1 .. 4  BY <1>1, <1>3, <1>4
<1> QED  BY <1>1, <1>2, <1>3, <1>4, <1>6, <1>7, <1>8, <1>9, <1>10

\* A service that is off, or of a source that main() does not know, changes
\* nothing but the place in the list.
LEMMA StartupInvSkip == StartupInv /\ (SkipService \/ SkipUnknown) => StartupInv'
<1> SUFFICES ASSUME StartupInv, SkipService \/ SkipUnknown PROVE StartupInv'  OBVIOUS
<1> USE DEF sigs
<1>1. /\ Turn
      /\ ~Current.on \/ ~Supported(Current)
      /\ UNCHANGED <<collectors, failed, child>>
  BY DEF SkipService, SkipUnknown
<1>2. UNCHANGED <<file, config, pc, reader, running, stopped, loop, handled, signals, asked>>
  BY <1>1 DEF Turn
<1>3. TypeOK'
  <2>1. next' \in 1 .. 4 /\ pc # "load"  BY <1>1, TurnFacts
  <2> QED  BY <1>1, <1>2, <2>1 DEF StartupInv, TypeOK, Reads
<1>4. ServiceInv'
  <2>1. ServiceInv /\ next' \in 1 .. (Len(config.service) + 1)
    BY <1>1, TurnFacts
  <2>2. ~Service(next).on \/ ~Supported(Service(next))  BY <1>1 DEF Service, Current
  <2> QED  BY <1>1, <1>2, <2>1, <2>2, TurnFacts DEF ServiceInv, Service, Supported
<1>5. ChildInv'  BY ChildInvMain DEF StartupInv, Main
<1>6. LoadInv' /\ IdleInv' /\ BehindInv'
  BY <1>1, <1>2, TurnFacts DEF StartupInv, LoadInv, IdleInv, Reads, BehindInv
<1> QED  BY <1>3, <1>4, <1>5, <1>6 DEF StartupInv

\* A collector that is made is that of the service at hand.
LEMMA StartupInvMake == StartupInv /\ MakeCollector => StartupInv'
<1> SUFFICES ASSUME StartupInv, MakeCollector PROVE StartupInv'  OBVIOUS
<1> USE DEF sigs
<1>1. /\ Turn /\ Current.on /\ Supported(Current)
      /\ collectors' = [s \in DOMAIN collectors \cup {Current.name} |->
                          IF s = Current.name THEN Current.source ELSE collectors[s]]
      /\ child' = IF Current.source = "subproccess"
                    THEN [child EXCEPT ![Current.name] = "running"]
                    ELSE child
      /\ UNCHANGED failed
  BY DEF MakeCollector
<1>2. UNCHANGED <<file, config, pc, reader, running, stopped, loop, handled, signals, asked>>
  BY <1>1 DEF Turn
<1> DEFINE n == Current.name
<1>3. /\ n \in Services /\ n \notin DOMAIN collectors \cup failed
      /\ child[n] = "none" /\ child \in [Services -> Children]
      /\ pc = "create" /\ next \in 1 .. Len(config.service) /\ Len(config.service) \in 0 .. 3
      /\ next' = next + 1 /\ Tried' = Tried \cup {next} /\ ServiceInv
  BY <1>1, TurnFacts DEF StartupInv, ChildInv
<1>4. /\ DOMAIN collectors' = DOMAIN collectors \cup {n}
      /\ collectors'[n] = Current.source
      /\ \A s \in DOMAIN collectors : collectors'[s] = collectors[s]
  BY <1>1, <1>3
<1>5. Current.source \in {"subproccess", "journal"}  BY <1>1 DEF Supported
<1>6. /\ child'[n] # "none" <=> Current.source = "subproccess"
      /\ child'[n] \in {"none", "running"}
      /\ \A s \in Services : s # n => child'[s] = child[s]
  BY <1>1, <1>3
<1>7. Service(next) = Current  BY DEF Service, Current
<1> HIDE DEF n
<1>8. TypeOK'
  <2>1. \A s \in Services :
          /\ child'[s] \in Children
          /\ s \in DOMAIN collectors' =>
               (collectors'[s] = "subproccess" <=> child'[s] # "none")
    BY <1>3, <1>4, <1>6 DEF StartupInv, TypeOK, Reads, Children
  <2>2. /\ DOMAIN collectors' \subseteq Services
        /\ \A s \in DOMAIN collectors' : collectors'[s] \in {"subproccess", "journal"}
    BY <1>3, <1>4, <1>5 DEF StartupInv, TypeOK, Reads
  <2>3. next' \in 1 .. 4  BY <1>1, TurnFacts
  <2> QED  BY <1>1, <1>2, <1>3, <1>4, <2>1, <2>2, <2>3 DEF StartupInv, TypeOK, Reads, Children
<1>9. ServiceInv'
  <2>1. \A s \in DOMAIN collectors' : \E i \in Tried' :
          Service(i).name = s /\ Service(i).on /\ Service(i).source = collectors'[s]
    BY <1>1, <1>3, <1>4, <1>7 DEF ServiceInv, n
  <2>2. /\ next' \in 1 .. (Len(config.service) + 1)
        /\ \A s \in failed : \E i \in Tried' : Service(i).name = s
        /\ DOMAIN collectors' \cap failed = {}
        /\ config \in Configs(file)
    BY <1>3, <1>4 DEF ServiceInv
  <2>3. \A i \in Tried' : Service(i).on /\ Supported(Service(i)) =>
          Service(i).name \in DOMAIN collectors' \cup failed
    BY <1>3, <1>4, <1>7 DEF ServiceInv, n
  <2>4. config' = config /\ failed' = failed /\ file' = file  BY <1>1, <1>2
  <2> QED  BY <2>1, <2>2, <2>3, <2>4 DEF ServiceInv, Service, Supported
<1>10. ChildInv'  BY ChildInvMain DEF StartupInv, Main
<1>11. LoadInv' /\ IdleInv' /\ BehindInv'
  BY <1>1, <1>2, <1>3, <1>4, <1>6 DEF StartupInv, LoadInv, IdleInv, Reads, BehindInv, Configured
<1> QED  BY <1>8, <1>9, <1>10, <1>11 DEF StartupInv

\* A collector that cannot be made is remembered as failed.
LEMMA StartupInvFails == StartupInv /\ CollectorFails => StartupInv'
<1> SUFFICES ASSUME StartupInv, CollectorFails PROVE StartupInv'  OBVIOUS
<1> USE DEF sigs
<1>1. /\ Turn /\ failed' = failed \cup {Current.name} /\ UNCHANGED <<collectors, child>>
  BY DEF CollectorFails
<1>2. UNCHANGED <<file, config, pc, reader, running, stopped, loop, handled, signals, asked>>
  BY <1>1 DEF Turn
<1>3. TypeOK'
  <2>1. next' \in 1 .. 4 /\ pc # "load" /\ Current.name \in Services
    BY <1>1, TurnFacts
  <2>2. failed' \subseteq Services  BY <1>1, <2>1 DEF StartupInv, TypeOK, Reads
  <2> QED  BY <1>1, <1>2, <2>1, <2>2 DEF StartupInv, TypeOK, Reads
<1>4. ServiceInv'
  <2>1. ServiceInv /\ next' \in 1 .. (Len(config.service) + 1)
    BY <1>1, TurnFacts
  <2>2. Service(next) = Current  BY DEF Service, Current
  <2> QED  BY <1>1, <1>2, <2>1, <2>2, TurnFacts DEF ServiceInv, Service, Supported
<1>5. ChildInv'  BY ChildInvMain DEF StartupInv, Main
<1>6. LoadInv' /\ IdleInv' /\ BehindInv'
  BY <1>1, <1>2, TurnFacts DEF StartupInv, LoadInv, IdleInv, Reads, BehindInv
<1> QED  BY <1>3, <1>4, <1>5, <1>6 DEF StartupInv

\* The steps of main() behind the loop.
LEMMA StartupInvBehind ==
  /\ StartupInv
  /\ \/ MakeAdapter \/ MakeAgent \/ HandleSignals \/ EnterRun \/ ReturnFromRun
     \/ CloseAdapter \/ FreeCollectors \/ ReturnFromMain
  => StartupInv'
<1> SUFFICES ASSUME StartupInv,
                    \/ MakeAdapter \/ MakeAgent \/ HandleSignals \/ EnterRun \/ ReturnFromRun
                    \/ CloseAdapter \/ FreeCollectors \/ ReturnFromMain
             PROVE  StartupInv'
  OBVIOUS
<1> USE DEF boot, world, sigs, Goto
<1>1. ChildInv'  BY ChildInvMain DEF StartupInv, Main
<1>2. CASE FreeCollectors
  <2>1. /\ pc = "free" /\ pc' = "freed" /\ collectors' = <<>>
        /\ UNCHANGED <<file, config, next, failed, reader, running, stopped, loop, handled, signals, asked>>
    BY <1>2 DEF FreeCollectors
  <2>2. DOMAIN collectors' = {}  BY <2>1
  <2>3. \A s \in Services : child'[s] \in Children
    BY <1>1 DEF ChildInv
  <2>4. \A s \in Services : ~Reads(s)
    BY <2>1 DEF StartupInv, IdleInv
  <2>5. TypeOK'  BY <2>1, <2>2, <2>3, <2>4 DEF StartupInv, TypeOK, Reads, Places, Children
  <2> QED
    BY <1>1, <2>1, <2>4, <2>5 DEF StartupInv, LoadInv, IdleInv, Reads, Configured
<1>3. CASE EnterRun
  <2>1. /\ pc = "run" /\ pc' = "join"
        /\ UNCHANGED <<file, config, next, collectors, failed, child, stopped, loop, handled,
                      signals, asked>>
        /\ running' = TRUE
        /\ reader' = [s \in Services |-> IF s \in DOMAIN collectors THEN "check" ELSE "none"]
    BY <1>3 DEF EnterRun
  <2>2. /\ reader' \in [Services -> Readers]
        /\ \A s \in Services : Reads(s)' => s \in DOMAIN collectors
    BY <2>1 DEF Reads, Readers
  <2>3. TypeOK'  BY <2>1, <2>2 DEF StartupInv, TypeOK, Reads, Places
  <2>4. ServiceInv' /\ BehindInv'
    BY <2>1, ServiceInvQuiet DEF StartupInv, BehindInv, Configured
  <2>5. LoadInv' /\ pc' # "create"  BY <2>1 DEF LoadInv
  <2>6. IdleInv'
    <3>1. \A s \in Services : s \notin DOMAIN collectors' => child'[s] = "none"
      BY <2>1 DEF StartupInv, IdleInv, Configured
    <3> QED  BY <2>1, <2>2, <3>1 DEF IdleInv
  <2> QED  BY <1>1, <2>3, <2>4, <2>5, <2>6 DEF StartupInv
<1>4. CASE MakeAdapter
  <2>1. /\ pc = "create" /\ next > Len(config.service)
        /\ pc' \in {"aborted", "agent"}
        /\ pc' = "agent" => config.endpoint # None
        /\ UNCHANGED <<boot, world, sigs>>
    BY <1>4 DEF MakeAdapter
  <2>2. TypeOK'  BY <2>1 DEF StartupInv, TypeOK, Reads, Places
  <2>3. ServiceInv' /\ (pc' = "agent" => BehindInv')
    BY <2>1, ServiceInvQuiet DEF StartupInv, BehindInv, Configured
  <2>4. LoadInv' /\ IdleInv'
    BY <2>1 DEF StartupInv, LoadInv, IdleInv, Reads, Configured
  <2> QED  BY <1>1, <2>1, <2>2, <2>3, <2>4 DEF StartupInv, Configured
<1>5. CASE MakeAgent \/ HandleSignals \/ ReturnFromRun \/ CloseAdapter \/ ReturnFromMain
  <2>1. /\ UNCHANGED <<boot, child, reader, stopped, signals, asked>>
        /\ running' \in {running, FALSE}
        /\ pc \in Configured \ {"create"} \/ pc = "freed"
        /\ pc' \in Configured \ {"load", "create", "join"} \/ pc' \in {"exit", "aborted"}
        /\ pc' \in Configured => pc \in Configured
        /\ pc = "join" => \A s \in Services : ~Reads(s)
    BY <1>5 DEF MakeAgent, HandleSignals, ReturnFromRun, CloseAdapter, ReturnFromMain, Configured
  <2>2. loop' \in {loop, TRUE} /\ handled' \in {handled, {"SIGINT"}, SignalNumbers}
    BY <1>5 DEF MakeAgent, HandleSignals, ReturnFromRun, CloseAdapter, ReturnFromMain
  <2>3. loop' \in BOOLEAN /\ handled' \subseteq SignalNumbers
    BY <2>2 DEF StartupInv, TypeOK, Reads, SignalNumbers
  <2>4. pc' \in Places /\ pc' # "load" /\ pc' # "create" /\ pc # "create"
    BY <2>1 DEF Configured, Places
  <2>5. TypeOK'  BY <2>1, <2>3, <2>4 DEF StartupInv, TypeOK, Reads
  <2>6. pc' \in Configured => ServiceInv' /\ BehindInv'
    BY <2>1, <2>4, ServiceInvQuiet DEF StartupInv, BehindInv
  <2>7. \A s \in Services : ~Reads(s)
    BY <2>1 DEF StartupInv, IdleInv, Configured
  <2>8. LoadInv' /\ IdleInv'
    BY <2>1, <2>4, <2>7 DEF StartupInv, LoadInv, IdleInv, Reads, Configured
  <2> QED  BY <1>1, <2>5, <2>6, <2>8 DEF StartupInv
<1> QED  BY <1>2, <1>3, <1>4, <1>5

\* A child or a reader.
LEMMA StartupInvSource ==
  ASSUME StartupInv, NEW s \in Services, SourceStep(s)
  PROVE  StartupInv'
<1>1. ChildInv'
  BY ChildInvSource DEF StartupInv
<1>2. /\ UNCHANGED <<boot, pc, running, stopped, sigs>>
      /\ \A t \in Services : child'[t] = child[t] \/ (child'[t] = "gone" /\ child[t] # "none")
      /\ reader' \in [Services -> Readers]
      /\ \A t \in Services : Reads(t)' => Reads(t)
  BY SourceFacts DEF StartupInv, IdleInv, ChildInv
<1>3. TypeOK'
  BY <1>1, <1>2 DEF StartupInv, TypeOK, ChildInv, Children, Readers, boot, sigs
<1>4. pc' \in Configured => ServiceInv' /\ BehindInv'
  BY <1>2, ServiceInvQuiet DEF StartupInv, BehindInv, boot
<1>5. LoadInv' /\ IdleInv'
  BY <1>2 DEF StartupInv, LoadInv, IdleInv, boot
<1> QED  BY <1>1, <1>3, <1>4, <1>5 DEF StartupInv

\* A signal, whether it is handled or kills the process.
LEMMA StartupInvSignal ==
  ASSUME StartupInv, NEW sig \in SignalNumbers, Signal(sig)
  PROVE  StartupInv'
<1> USE DEF boot
<1>1. ChildInv'  BY ChildInvSignal DEF StartupInv
<1>2. UNCHANGED <<boot, reader, loop, handled>>  BY DEF Signal
<1>3. pc' \in {pc, "killed", "crashed"}  BY DEF Signal, Handler
<1>4. signals' \in 0 .. MaxSignals
  BY StartupAssumption DEF Signal, StartupInv, TypeOK
<1>5. asked' \in BOOLEAN /\ running' \in BOOLEAN
  BY DEF Signal, Handler, Stop, StartupInv, TypeOK
<1>6. stopped' \subseteq Services
  BY DEF Signal, Handler, Stop, StartupInv, TypeOK
<1>7. \A t \in Services : child'[t] = "none" <=> child[t] = "none"
  <2>1. UNCHANGED child \/ KillChildren  BY DEF Signal, Handler, Stop
  <2> QED  BY <2>1, KillChildrenFacts DEF StartupInv, ChildInv
<1>8. TypeOK'
  BY <1>1, <1>2, <1>3, <1>4, <1>5, <1>6, <1>7
     DEF StartupInv, TypeOK, Places, ChildInv, Children, Reads
<1>9. pc' \in Configured => pc' = pc /\ ServiceInv' /\ BehindInv'
  BY <1>2, <1>3, ServiceInvQuiet DEF StartupInv, BehindInv, Configured
<1>10. LoadInv' /\ IdleInv'
  BY <1>2, <1>3, <1>7 DEF StartupInv, LoadInv, IdleInv, Configured, Reads
<1> QED  BY <1>1, <1>8, <1>9, <1>10 DEF StartupInv

\* The invariant is inductive.
LEMMA StartupInvNext == StartupInv /\ [Next]_vars => StartupInv'
<1>1. StartupInv /\ UNCHANGED vars => StartupInv'
  BY DEF vars, boot, world, sigs, StartupInv, TypeOK, ChildInv, LoadInv, ServiceInv, BehindInv,
         IdleInv, Tried, Service, Supported, Reads
<1>2. StartupInv /\ Main => StartupInv'
  BY StartupInvLoad, StartupInvSkip, StartupInvMake, StartupInvFails, StartupInvBehind DEF Main
<1>3. ASSUME StartupInv, NEW s \in Services, SourceStep(s) PROVE StartupInv'
  BY <1>3, StartupInvSource
<1> QED
  BY <1>1, <1>2, <1>3, StartupInvSignal DEF Next, Terminated, SourceStep

\* Every variable of main() keeps its type, a collector of a subprocess has a
\* child and any other has none, and only collectors have readers.
THEOREM StartupTypeCorrect == Spec => []TypeOK
<1>1. StartupInv => TypeOK  BY DEF StartupInv
<1> QED  BY <1>1, StartupInvInit, StartupInvNext, PTL DEF Spec

\* Whatever the configuration file, an agent that runs has a collector for each
\* enabled service of a source makeCollector() knows whose constructor did not
\* throw, and no other.
THEOREM NoServiceLostToAnotherHolds == Spec => []NoServiceLostToAnother
<1>1. StartupInv => NoServiceLostToAnother
  <2> SUFFICES ASSUME StartupInv, AgentExists
               PROVE  NoServiceLostToAnother
    BY DEF NoServiceLostToAnother
  <2> DEFINE listed == DOMAIN file.services
             list == config.service
             Has(s, source) == file.services[s].on /\ file.services[s].source = source
  <2>1. /\ file \in Files /\ config \in Configs(file) /\ ServiceInv
        /\ next > Len(list) /\ config.endpoint # None
    BY DEF AgentExists, StartupInv, TypeOK, Configured, ServiceInv, BehindInv
  <2>2. Loads(file) /\ file.endpoint # None /\ Lists(file, Services, 3, list)
    BY <2>1, Listing
  <2>3. file.readable /\ \A s \in listed : file.services[s].source # None
    BY <2>2 DEF Loads
  <2>4. listed \subseteq Services  BY <2>1, StartupAssumption
  <2>5. Tried = 1 .. Len(list)
    <3>1. Len(list) \in Nat  BY <2>2 DEF Lists
    <3> QED  BY <2>1, <3>1 DEF ServiceInv, Tried
  <2>6. \A i \in Tried : /\ Service(i).name \in listed
                         /\ Service(i).on = file.services[Service(i).name].on
                         /\ Service(i).source = file.services[Service(i).name].source
    BY <2>2, <2>5 DEF Lists, Service
  <2>7. \A s \in listed : \E i \in Tried : Service(i).name = s
    BY <2>2, <2>4, <2>5 DEF Lists, Service
  <2>8. ASSUME NEW s \in listed,
               \/ Has(s, "subproccess")
               \/ s # "ppswatch" /\ Has(s, "journal")
        PROVE  s \in DOMAIN collectors \cup failed
    <3>1. PICK i \in Tried : Service(i).name = s  BY <2>7
    <3> QED  BY <2>1, <2>6, <2>8, <3>1 DEF ServiceInv, Supported
  <2>9. \A s \in DOMAIN collectors : s \in listed /\ Has(s, collectors[s])
    BY <2>1, <2>6 DEF ServiceInv
  <2>10. DOMAIN collectors \cap failed = {}  BY <2>1 DEF ServiceInv
  <2> QED  BY <2>2, <2>3, <2>8, <2>9, <2>10 DEF NoServiceLostToAnother
<1> QED  BY <1>1, StartupInvInit, StartupInvNext, PTL DEF Spec
=============================================================================
