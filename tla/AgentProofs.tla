---------------------------- MODULE AgentProofs ----------------------------
(***************************************************************************)
(* Theorems about Agent, for every set of collectors and interfaces and    *)
(* every bound.  Each invariant is proved inductive from the ones before   *)
(* it: typing, the lock and the order of the joins, then what has been sent*)
(* (Agent implements Forwarder), then what became of each reading.         *)
(***************************************************************************)
EXTENDS Agent, TLAPS

\* A thread that handles or sends has read something; this is what makes
\* Current and CurrentLine well defined.
HasReading ==
  \A t \in Threads :
    \/ pc[t] \in {"handle", "lock", "send"}
    \/ pc[t] = "collect" /\ t # SysThread
    => reads[t] # <<>>

TypeInv == TypeOK /\ HasReading

\* The message a thread is about to send is well formed.
LEMMA CurrentType ==
  ASSUME TypeInv, NEW t \in Threads, pc[t] \in {"handle", "lock", "send"}
  PROVE  Current(t) \in MessageOf /\ CurrentLine(t) \in Readings
<1>1. reads[t] \in Seq(Readings) /\ reads[t] # <<>>
  BY DEF TypeInv, TypeOK, HasReading
<1>2. Len(reads[t]) \in Nat \ {0} /\ CurrentLine(t) \in Readings
  BY <1>1 DEF CurrentLine
<1> QED  BY <1>2 DEF Current, Message, MessageOf

\* The initial state satisfies the typing invariant.
LEMMA TypeInvInit == Init => TypeInv
<1> SUFFICES ASSUME Init PROVE TypeInv  OBVIOUS
<1> USE DEF Init
<1>1. pc \in [Threads -> ThreadPcs] /\ HasReading
  BY DEF ThreadPcs, HasReading
<1>2. <<>> \in Seq(Readings) /\ <<>> \in Seq(MessageOf) /\ Len(log) = 0
  OBVIOUS
<1>3. reads \in [Threads -> Seq(Readings)]  BY <1>2
<1>4. /\ mainPc \in MainPcs /\ stopPc \in StopPcs
      /\ delivered \in 0 .. Len(log) /\ signals \in 0 .. MaxSignals
      /\ stopMark \in [at : Nat, early : BOOLEAN]
  BY <1>2, BoundsAssumption DEF MainPcs, StopPcs
<1> QED  BY <1>1, <1>2, <1>3, <1>4 DEF TypeInv, TypeOK

\* No step of run() or ~Agent() breaks the typing invariant.
LEMMA TypeInvMain == TypeInv /\ Main => TypeInv'
<1> SUFFICES ASSUME TypeInv, Main PROVE TypeInv'  OBVIOUS
<1> USE CollectorsAssumption
    DEF TypeInv, TypeOK, HasReading, Threads, MainPcs, ThreadPcs, MainAt,
        mainVars, stopVars, threadVars, sendVars
<1>1. CASE RunStart  BY <1>1 DEF RunStart
<1>2. CASE SpawnReader  BY <1>2 DEF SpawnReader
<1>3. CASE SpawnSys  BY <1>3 DEF SpawnSys
<1>4. CASE JoinReaders  BY <1>4 DEF JoinReaders
<1>5. CASE ClearRunning  BY <1>5 DEF ClearRunning
<1>6. CASE JoinSys  BY <1>6 DEF JoinSys
<1>7. CASE CloseAdapter  BY <1>7 DEF CloseAdapter
<1> QED  BY <1>1, <1>2, <1>3, <1>4, <1>5, <1>6, <1>7 DEF Main

\* No step of stop() breaks it.
LEMMA TypeInvStop == TypeInv /\ (Signal \/ Stop) => TypeInv'
<1> SUFFICES ASSUME TypeInv, Signal \/ Stop PROVE TypeInv'  OBVIOUS
<1> USE BoundsAssumption
    DEF TypeInv, TypeOK, HasReading, StopPcs,
        mainVars, stopVars, threadVars, sendVars
<1>1. CASE Signal  BY <1>1 DEF Signal
<1>2. CASE StopClearRunning
  <2>1. stopMark' \in [at : Nat, early : BOOLEAN]
    <3>1. Len(log) + 1 \in Nat /\ (mainPc = "enter") \in BOOLEAN  OBVIOUS
    <3> QED  BY <1>2, <3>1 DEF StopClearRunning
  <2> QED  BY <1>2, <2>1 DEF StopClearRunning
<1>3. CASE StopCollector  BY <1>3 DEF StopCollector
<1>4. CASE StopReturn  BY <1>4 DEF StopReturn
<1> QED  BY <1>1, <1>2, <1>3, <1>4 DEF Stop

\* No step of readerLoop() and its handlers breaks it: what a thread
\* handles it has read.
LEMMA TypeInvReader ==
  ASSUME TypeInv, NEW c \in Handled, ReaderStep(c) \/ ReadLine(c) \/ ReadFailed(c)
  PROVE  TypeInv'
<1> USE CollectorsAssumption, PortsAssumption
    DEF TypeInv, TypeOK, HasReading, Threads, ThreadPcs, Step,
        mainVars, stopVars, threadVars, sendVars
<1>1. CASE ReaderCheck(c)  BY <1>1 DEF ReaderCheck
<1>2. CASE ReadLine(c)
  <2>1. PICK line \in LinesOf(c) : reads' = [reads EXCEPT ![c] = Append(@, line)]
    BY <1>2 DEF ReadLine
  <2>2. line \in Readings  BY DEF LinesOf, Readings
  <2>3. Append(reads[c], line) \in Seq(Readings) /\ Append(reads[c], line) # <<>>
    <3>1. reads[c] \in Seq(Readings)  OBVIOUS
    <3> QED  BY <2>2, <3>1
  <2>4. reads' \in [Threads -> Seq(Readings)] /\ reads'[c] # <<>>
    BY <2>1, <2>3
  <2>5. HasReading'
    BY <1>2, <2>1, <2>4 DEF ReadLine
  <2> QED  BY <1>2, <2>4, <2>5 DEF ReadLine
<1>3. CASE ReadStopped(c) \/ ReadFailed(c)
  BY <1>3 DEF ReadStopped, ReadFailed, ReadNullopt
<1>4. CASE HandleMetrics(c)  BY <1>4 DEF HandleMetrics
<1>5. CASE HandleQuiet(c)  BY <1>5 DEF HandleQuiet
<1>6. CASE HandlePort(c)  BY <1>6 DEF HandlePort, Ports
<1>7. CASE HandleBest(c)  BY <1>7 DEF HandleBest
<1>8. CASE CollectTopology(c)  BY <1>8 DEF CollectTopology
<1> QED  BY <1>1, <1>2, <1>3, <1>4, <1>5, <1>6, <1>7, <1>8 DEF ReaderStep

\* No step of sysMetricsLoop() breaks it.
LEMMA TypeInvSys == TypeInv /\ SysStep => TypeInv'
<1> SUFFICES ASSUME TypeInv, SysStep PROVE TypeInv'  OBVIOUS
<1> USE CollectorsAssumption
    DEF TypeInv, TypeOK, HasReading, Threads, ThreadPcs, Step,
        mainVars, stopVars, threadVars, sendVars
<1>1. CASE SysCheck  BY <1>1 DEF SysCheck
<1>2. CASE SysWakeStopped  BY <1>2 DEF SysWakeStopped
<1>3. CASE SysWake  BY <1>3 DEF SysWake
<1>4. CASE SysCollect
  <2>1. watched \in Readings  BY DEF Readings, Ports
  <2>2. /\ Append(reads[SysThread], watched) \in Seq(Readings)
        /\ Append(reads[SysThread], watched) # <<>>
    <3>1. reads[SysThread] \in Seq(Readings)  OBVIOUS
    <3> QED  BY <2>1, <3>1
  <2>3. reads' \in [Threads -> Seq(Readings)] /\ reads'[SysThread] # <<>>
    BY <1>4, <2>2 DEF SysCollect
  <2>4. HasReading'
    BY <1>4, <2>3 DEF SysCollect
  <2> QED  BY <1>4, <2>3, <2>4 DEF SysCollect
<1> QED  BY <1>1, <1>2, <1>3, <1>4 DEF SysStep

\* Neither the mutex nor a send breaks it.
LEMMA TypeInvSend ==
  ASSUME TypeInv, NEW t \in Threads, Lock(t) \/ Send(t) \/ SendError(t)
  PROVE  TypeInv'
<1> USE DEF TypeInv, TypeOK, HasReading, ThreadPcs, Step,
            mainVars, stopVars, threadVars, sendVars
<1>1. CASE Lock(t)  BY <1>1 DEF Lock
<1>2. CASE Send(t)
  <2>1. Current(t) \in MessageOf  BY <1>2, CurrentType DEF Send
  <2>2. log' \in Seq(MessageOf) /\ Len(log') = Len(log) + 1
    BY <1>2, <2>1 DEF Send
  <2>3. delivered' \in 0 .. Len(log')  BY <1>2, <2>2 DEF Send
  <2> QED  BY <1>2, <2>2, <2>3 DEF Send
<1>3. CASE SendError(t)
  <2>1. Current(t) \in MessageOf  BY <1>3, CurrentType DEF SendError
  <2> QED  BY <1>3, <2>1 DEF SendError
<1> QED  BY <1>1, <1>2, <1>3

\* The I/O thread never delivers more than was queued.
LEMMA TypeInvDeliver == TypeInv /\ Deliver => TypeInv'
BY DEF Deliver, TypeInv, TypeOK, HasReading, mainVars, stopVars, threadVars

\* The typing invariant is inductive.
LEMMA TypeInvNext == TypeInv /\ [Next]_vars => TypeInv'
<1> SUFFICES ASSUME TypeInv, [Next]_vars PROVE TypeInv'  OBVIOUS
<1>1. CASE UNCHANGED vars
  BY <1>1 DEF TypeInv, TypeOK, HasReading, vars, mainVars, stopVars,
              threadVars, sendVars
<1> QED
  BY <1>1, TypeInvMain, TypeInvStop, TypeInvReader, TypeInvSys, TypeInvSend,
     TypeInvDeliver DEF Next, Terminated

\* Every variable keeps its type: the threads are where readerLoop() and
\* sysMetricsLoop() can be, the analyzer never takes more than was queued.
THEOREM TypeCorrect == Spec => []TypeOK
<1>1. TypeInv => TypeOK  BY DEF TypeInv
<1> QED  BY <1>1, TypeInvInit, TypeInvNext, PTL DEF Spec

-----------------------------------------------------------------------------
(***************************************************************************)
(* Where the threads are, relative to the main thread.  A thread is        *)
(* started once, so SpawnReader and SpawnSys find it at "none"; the joins  *)
(* and running_ = false come in the order that makes the rest true.        *)
(***************************************************************************)
JoinInv ==
  /\ mainPc = "enter" => \A t \in Threads : pc[t] = "none"
  /\ mainPc = "spawn" => /\ pc[SysThread] = "none"
                         /\ \A c \in Handled \cap toSpawn : pc[c] = "none"
  /\ mainPc \in {"clear", "joinSys", "returned", "exited"} => ReadersFinished
  /\ Returned => pc[SysThread] = "done"

\* Why running_ can be FALSE.
RunningInv ==
  ~running => \/ StopRequested
              \/ mainPc \in {"enter", "joinSys", "returned", "exited"}

ThreadInv == TypeInv /\ SendExclusive /\ JoinInv /\ RunningInv /\ RunsUntilDoneOrStopped

\* Before run() no thread is started and the mutex is free.
LEMMA ThreadInvInit == Init => ThreadInv
<1> SUFFICES ASSUME Init PROVE ThreadInv  OBVIOUS
<1>1. TypeInv  BY TypeInvInit
<1>2. SendExclusive
  BY CollectorsAssumption DEF Init, SendExclusive, Threads
<1>3. JoinInv /\ RunningInv /\ RunsUntilDoneOrStopped
  BY DEF Init, JoinInv, RunningInv, RunsUntilDoneOrStopped, Returned, Threads
<1> QED  BY <1>1, <1>2, <1>3 DEF ThreadInv

\* run() joins the readers before it clears running_, and the system thread
\* before it returns.
LEMMA ThreadInvMain == ThreadInv /\ Main => ThreadInv'
<1> SUFFICES ASSUME ThreadInv, Main PROVE ThreadInv'  OBVIOUS
<1>1. TypeInv'  BY TypeInvMain DEF ThreadInv
<1> USE <1>1, CollectorsAssumption
    DEF ThreadInv, TypeInv, TypeOK, SendExclusive, JoinInv, RunningInv,
        RunsUntilDoneOrStopped, ReadersFinished, Returned, StopRequested,
        Threads, MainAt, mainVars, stopVars, threadVars, sendVars
<1>2. CASE RunStart  BY <1>2 DEF RunStart
<1>3. CASE SpawnReader  BY <1>3 DEF SpawnReader
<1>4. CASE SpawnSys  BY <1>4 DEF SpawnSys
<1>5. CASE JoinReaders  BY <1>5 DEF JoinReaders
<1>6. CASE ClearRunning  BY <1>6 DEF ClearRunning
<1>7. CASE JoinSys  BY <1>7 DEF JoinSys
<1>8. CASE CloseAdapter  BY <1>8 DEF CloseAdapter
<1> QED  BY <1>2, <1>3, <1>4, <1>5, <1>6, <1>7, <1>8 DEF Main

\* stop() only clears running_ and marks the request.
LEMMA ThreadInvStop == ThreadInv /\ (Signal \/ Stop) => ThreadInv'
<1> SUFFICES ASSUME ThreadInv, Signal \/ Stop PROVE ThreadInv'  OBVIOUS
<1>1. TypeInv'  BY TypeInvStop DEF ThreadInv
<1> USE <1>1
    DEF ThreadInv, SendExclusive, JoinInv, RunningInv, RunsUntilDoneOrStopped,
        ReadersFinished, Returned, StopRequested,
        mainVars, stopVars, threadVars, sendVars
<1>2. CASE Signal  BY <1>2 DEF Signal
<1>3. CASE StopClearRunning
  <2>1. stopMark'.at > 0
    <3>1. Len(log) \in Nat /\ stopMark \in [at : Nat, early : BOOLEAN]
      BY DEF TypeInv, TypeOK
    <3> QED  BY <1>3, <3>1 DEF StopClearRunning
  <2> QED  BY <1>3, <2>1 DEF StopClearRunning
<1>4. CASE StopCollector  BY <1>4 DEF StopCollector
<1>5. CASE StopReturn  BY <1>5 DEF StopReturn
<1> QED  BY <1>2, <1>3, <1>4, <1>5 DEF Stop

\* A step that moves one started thread and neither takes nor frees the mutex.
LEMMA ThreadInvMove ==
  ASSUME ThreadInv, TypeInv', NEW t \in Threads, NEW next \in ThreadPcs,
         pc' = [pc EXCEPT ![t] = next], pc[t] \notin {"none", "send", "done"},
         next \notin {"none", "send"},
         next = "done" => t \in ended' \/ ~running,
         ended \subseteq ended', t = SysThread => ended' = ended,
         UNCHANGED <<mainVars, running, owner, stopVars>>
  PROVE  ThreadInv'
<1> USE CollectorsAssumption
    DEF ThreadInv, TypeInv, TypeOK, JoinInv, ReadersFinished, Returned,
        Threads, StopRequested, mainVars, stopVars
<1>1. SendExclusive'  BY DEF SendExclusive
<1>2. JoinInv'  OBVIOUS
<1>3. RunningInv'  BY DEF RunningInv
<1>4. RunsUntilDoneOrStopped'  BY DEF RunsUntilDoneOrStopped, RunningInv
<1> QED  BY <1>1, <1>2, <1>3, <1>4

\* A reader leaves its loop only with nullopt or after running_ was cleared.
LEMMA ThreadInvReader ==
  ASSUME ThreadInv, NEW c \in Handled, ReaderStep(c) \/ ReadLine(c) \/ ReadFailed(c)
  PROVE  ThreadInv'
<1>1. TypeInv'  BY TypeInvReader DEF ThreadInv
<1>2. c \in Threads /\ c # SysThread  BY CollectorsAssumption DEF Threads
<1> USE <1>1, <1>2
    DEF ThreadPcs, Step, sendVars
<1>3. CASE ReaderCheck(c)  BY <1>3, ThreadInvMove DEF ReaderCheck
<1>4. CASE ReadLine(c)  BY <1>4, ThreadInvMove DEF ReadLine
<1>5. CASE ReadStopped(c) \/ ReadFailed(c)
  BY <1>5, ThreadInvMove DEF ReadStopped, ReadFailed, ReadNullopt
<1>6. CASE HandleMetrics(c)  BY <1>6, ThreadInvMove DEF HandleMetrics
<1>7. CASE HandleQuiet(c)  BY <1>7, ThreadInvMove DEF HandleQuiet
<1>8. CASE HandlePort(c)  BY <1>8, ThreadInvMove DEF HandlePort
<1>9. CASE HandleBest(c)  BY <1>9, ThreadInvMove DEF HandleBest
<1>10. CASE CollectTopology(c)  BY <1>10, ThreadInvMove DEF CollectTopology
<1> QED
  BY <1>3, <1>4, <1>5, <1>6, <1>7, <1>8, <1>9, <1>10 DEF ReaderStep

\* The system thread leaves its loop only after running_ was cleared.
LEMMA ThreadInvSys == ThreadInv /\ SysStep => ThreadInv'
<1> SUFFICES ASSUME ThreadInv, SysStep PROVE ThreadInv'  OBVIOUS
<1>1. TypeInv'  BY TypeInvSys DEF ThreadInv
<1>2. SysThread \in Threads  BY DEF Threads
<1> USE <1>1, <1>2 DEF ThreadPcs, Step, sendVars
<1>3. CASE SysCheck  BY <1>3, ThreadInvMove DEF SysCheck
<1>4. CASE SysWakeStopped  BY <1>4, ThreadInvMove DEF SysWakeStopped
<1>5. CASE SysWake  BY <1>5, ThreadInvMove DEF SysWake
<1>6. CASE SysCollect  BY <1>6, ThreadInvMove DEF SysCollect
<1> QED  BY <1>3, <1>4, <1>5, <1>6 DEF SysStep

\* The mutex goes from free to one thread and back.
LEMMA ThreadInvSend ==
  ASSUME ThreadInv, NEW t \in Threads, Lock(t) \/ Send(t) \/ SendError(t)
  PROVE  ThreadInv'
<1>1. TypeInv'  BY TypeInvSend DEF ThreadInv
<1> USE <1>1, CollectorsAssumption
    DEF ThreadInv, TypeInv, TypeOK, SendExclusive, JoinInv, RunningInv,
        RunsUntilDoneOrStopped, ReadersFinished, Returned, StopRequested,
        Threads, Step, mainVars, stopVars
<1>2. CASE Lock(t)  BY <1>2 DEF Lock
<1>3. CASE Send(t)  BY <1>3 DEF Send
<1>4. CASE SendError(t)  BY <1>4 DEF SendError
<1> QED  BY <1>2, <1>3, <1>4

\* The invariant about the threads is inductive.
LEMMA ThreadInvNext == ThreadInv /\ [Next]_vars => ThreadInv'
<1> SUFFICES ASSUME ThreadInv, [Next]_vars PROVE ThreadInv'  OBVIOUS
<1>1. TypeInv'  BY TypeInvNext DEF ThreadInv
<1> USE DEF ThreadInv, SendExclusive, JoinInv, RunningInv, Returned,
            RunsUntilDoneOrStopped, ReadersFinished, StopRequested,
            mainVars, stopVars, threadVars
<1>2. CASE UNCHANGED vars  BY <1>1, <1>2 DEF vars, sendVars
<1>3. CASE Deliver  BY <1>1, <1>3 DEF Deliver
<1> QED
  BY <1>2, <1>3, ThreadInvMain, ThreadInvStop, ThreadInvReader, ThreadInvSys,
     ThreadInvSend DEF Next, Terminated

\* At every moment of a run, adapterMutex_, the joins of run() and running_
\* fit together as ThreadInv says.
THEOREM ThreadsInvariant == Spec => []ThreadInv
BY ThreadInvInit, ThreadInvNext, PTL DEF Spec

\* The socket is used by one thread at a time, the holder of adapterMutex_.
THEOREM SendExclusiveHolds == Spec => []SendExclusive
<1>1. ThreadInv => SendExclusive  BY DEF ThreadInv
<1> QED  BY <1>1, ThreadsInvariant, PTL

\* When run() has returned no thread can touch the collectors or the adapter.
THEOREM NoThreadOutlivesRunHolds == Spec => []NoThreadOutlivesRun
<1>1. ThreadInv => NoThreadOutlivesRun
  BY DEF ThreadInv, TypeInv, TypeOK, SendExclusive, JoinInv, ReadersFinished,
         NoThreadOutlivesRun, Returned, Threads
<1> QED  BY <1>1, ThreadsInvariant, PTL

\* A reader leaves its loop only because its collector ended or stop() was
\* called, and the system thread only after all readers or after stop().
THEOREM RunsUntilDoneOrStoppedHolds == Spec => []RunsUntilDoneOrStopped
<1>1. ThreadInv => RunsUntilDoneOrStopped  BY DEF ThreadInv
<1> QED  BY <1>1, ThreadsInvariant, PTL

-----------------------------------------------------------------------------
(* Agent implements Forwarder.                                             *)

\* Thread t has a reading it has not finished with.
Busy(t) ==
  \/ pc[t] \in {"handle", "lock", "send"}
  \/ pc[t] = "collect" /\ t # SysThread

\* Everything sent stems from a reading of its source, and from an earlier one
\* than the reading in hand.
SentInv ==
  \A m \in Accepted \cup dropped :
    /\ m.n <= Len(reads[m.src])
    /\ Busy(m.src) => m.n < Len(reads[m.src])

\* The bounds of the model, which give Forwarder its set of numbers.
CountInv ==
  /\ \A t \in Threads : Len(reads[t]) <= MaxLines + MaxSnapshots
  /\ \A c \in Handled : Len(reads[c]) <= MaxLines
  /\ Len(reads[SysThread]) <= MaxSnapshots
  /\ pc[SysThread] = "collect" => Len(reads[SysThread]) < MaxSnapshots

\* Once a stop is heeded running_ stays FALSE, so a thread that has sent since
\* then can only leave its loop.
LateInv ==
  /\ stopMark.at <= Len(log) + 1
  /\ Heeded => /\ ~running
               /\ mainPc # "enter"
               /\ \A i \in Late : pc[log[i].src] \in {"check", "done"}

ForwardInv == ThreadInv /\ SentInv /\ CountInv /\ LateInv

-----------------------------------------------------------------------------
\* What the typing invariant says about readings and messages.
LEMMA ReadsType ==
  ASSUME ThreadInv
  PROVE  /\ \A t \in Threads : reads[t] \in Seq(Readings) /\ Len(reads[t]) \in Nat
         /\ Len(log) \in Nat
         /\ \A i \in 1 .. Len(log) : log[i] \in MessageOf
         /\ \A m \in Accepted \cup dropped : m \in MessageOf
         /\ stopMark.at \in Nat /\ stopMark.early \in BOOLEAN
         /\ pc \in [Threads -> ThreadPcs]
<1> USE DEF ThreadInv, TypeInv, TypeOK
<1>1. \A t \in Threads : reads[t] \in Seq(Readings) /\ Len(reads[t]) \in Nat
  OBVIOUS
<1>2. Len(log) \in Nat /\ \A i \in 1 .. Len(log) : log[i] \in MessageOf
  OBVIOUS
<1> QED  BY <1>1, <1>2 DEF Accepted

\* Nothing is sent before run().
LEMMA ForwardInvInit == Init => ForwardInv
<1> SUFFICES ASSUME Init PROVE ForwardInv  OBVIOUS
<1>1. ThreadInv  BY ThreadInvInit
<1>2. Len(log) = 0 /\ \A t \in Threads : Len(reads[t]) = 0  BY DEF Init
<1>3. SentInv  BY <1>2 DEF Init, SentInv, Accepted
<1>4. CountInv
  BY <1>2, BoundsAssumption DEF CountInv, Threads, Init
<1>5. LateInv  BY <1>2 DEF Init, LateInv, Late, Heeded, StopRequested
<1> QED  BY <1>1, <1>3, <1>4, <1>5 DEF ForwardInv

\* A step that reads and sends nothing: no thread becomes busy, and a thread
\* past a heeded stop can only be done.
LEMMA ForwardInvQuiet ==
  ASSUME ForwardInv, ThreadInv',
         UNCHANGED <<reads, log, dropped, stopMark>>,
         \A t \in Threads : Busy(t)' => Busy(t),
         pc'[SysThread] = "collect" => \/ pc[SysThread] = "collect"
                                       \/ Len(reads[SysThread]) < MaxSnapshots,
         Heeded => /\ ~running' /\ mainPc' # "enter"
                   /\ \A t \in Threads : pc[t] \in {"check", "done"}
                                           => pc'[t] \in {"check", "done"}
  PROVE  ForwardInv'
<1>1. SentInv'
  <2>1. \A m \in Accepted \cup dropped : m.src \in Threads
    BY ReadsType DEF ForwardInv, MessageOf
  <2> QED  BY <2>1 DEF ForwardInv, SentInv, Accepted
<1>2. CountInv'  BY DEF ForwardInv, CountInv
<1>3. LateInv'
  <2>1. \A i \in Late : log[i].src \in Threads
    BY ReadsType DEF ForwardInv, MessageOf, Late
  <2> QED  BY <2>1 DEF ForwardInv, LateInv, Heeded, StopRequested, Late
<1> QED  BY <1>1, <1>2, <1>3 DEF ForwardInv

\* run() sends nothing itself.
LEMMA ForwardInvMain == ForwardInv /\ Main => ForwardInv'
<1> SUFFICES ASSUME ForwardInv, Main PROVE ForwardInv'  OBVIOUS
<1>1. ThreadInv /\ ThreadInv'  BY ThreadInvMain DEF ForwardInv
<1>2. pc \in [Threads -> ThreadPcs]  BY <1>1, ReadsType
<1> USE <1>1, <1>2, ForwardInvQuiet, CollectorsAssumption
    DEF MainAt, Busy, ForwardInv, LateInv, Threads,
        mainVars, stopVars, threadVars, sendVars
<1>3. CASE RunStart  BY <1>3 DEF RunStart
<1>4. CASE SpawnReader
  BY <1>4 DEF SpawnReader, ThreadInv, JoinInv
<1>5. CASE SpawnSys  BY <1>5 DEF SpawnSys, ThreadInv, JoinInv
<1>6. CASE JoinReaders  BY <1>6 DEF JoinReaders
<1>7. CASE ClearRunning  BY <1>7 DEF ClearRunning
<1>8. CASE JoinSys  BY <1>8 DEF JoinSys
<1>9. CASE CloseAdapter  BY <1>9 DEF CloseAdapter
<1> QED  BY <1>3, <1>4, <1>5, <1>6, <1>7, <1>8, <1>9 DEF Main

\* stop() sends nothing; it marks where the log is.
LEMMA ForwardInvStop == ForwardInv /\ (Signal \/ Stop) => ForwardInv'
<1> SUFFICES ASSUME ForwardInv, Signal \/ Stop PROVE ForwardInv'  OBVIOUS
<1>1. ThreadInv /\ ThreadInv'  BY ThreadInvStop DEF ForwardInv
<1> USE <1>1, ForwardInvQuiet
    DEF Busy, ForwardInv, LateInv, mainVars, stopVars, threadVars, sendVars
<1>2. CASE Signal  BY <1>2 DEF Signal
<1>3. CASE StopClearRunning
  <2>1. SentInv' /\ CountInv'
    BY <1>3 DEF StopClearRunning, SentInv, CountInv, Accepted
  <2>2. LateInv'
    <3>1. CASE stopMark.at = 0
      <4>1. /\ stopMark'.at = Len(log) + 1
            /\ stopMark'.early = (mainPc = "enter")
        BY <1>3, <3>1 DEF StopClearRunning
      <4>2. Late' = {}
        BY <1>3, <4>1, ReadsType DEF StopClearRunning, Late
      <4>3. Len(log) \in Nat /\ log' = log /\ ~running' /\ mainPc' = mainPc
        BY <1>3, ReadsType DEF StopClearRunning
      <4>4. stopMark'.at <= Len(log') + 1  BY <4>1, <4>3
      <4>5. Heeded' => mainPc' # "enter"
        BY <4>1, <4>3 DEF Heeded
      <4> QED  BY <4>2, <4>3, <4>4, <4>5
    <3>2. CASE stopMark.at # 0
      <4>1. stopMark' = stopMark  BY <1>3, <3>2 DEF StopClearRunning
      <4> QED
        BY <1>3, <4>1 DEF StopClearRunning, Late, Heeded, StopRequested
    <3> QED  BY <3>1, <3>2
  <2> QED  BY <2>1, <2>2
<1>4. CASE StopCollector  BY <1>4 DEF StopCollector
<1>5. CASE StopReturn  BY <1>5 DEF StopReturn
<1> QED  BY <1>2, <1>3, <1>4, <1>5 DEF Stop

\* A step in which thread t reads something new, which makes it busy.
LEMMA ForwardInvRead ==
  ASSUME ForwardInv, ThreadInv', NEW t \in Threads, NEW reading \in Readings,
         reads' = [reads EXCEPT ![t] = Append(@, reading)],
         pc[t] \in {"read", "collect"}, ~Busy(t),
         NEW next \in {"handle", "lock"}, pc' = [pc EXCEPT ![t] = next],
         Len(reads[t]) < IF t = SysThread THEN MaxSnapshots ELSE MaxLines,
         UNCHANGED <<mainVars, running, sendVars, stopVars>>
  PROVE  ForwardInv'
<1> USE CollectorsAssumption, BoundsAssumption DEF mainVars, sendVars, stopVars
<1>1. /\ pc \in [Threads -> ThreadPcs] /\ ThreadInv
      /\ \A s \in Threads : Len(reads[s]) \in Nat
  BY ReadsType DEF ForwardInv
<1>2. /\ Len(reads'[t]) = Len(reads[t]) + 1
      /\ \A s \in Threads \ {t} : reads'[s] = reads[s] /\ pc'[s] = pc[s]
  <2>1. reads[t] \in Seq(Readings) /\ reads \in [Threads -> Seq(Readings)]
    BY <1>1 DEF ThreadInv, TypeInv, TypeOK
  <2> QED  BY <1>1, <2>1
<1>3. SentInv'
  <2> SUFFICES ASSUME NEW m \in Accepted \cup dropped
               PROVE  /\ m.n <= Len(reads'[m.src])
                      /\ Busy(m.src)' => m.n < Len(reads'[m.src])
    BY DEF SentInv, Accepted
  <2>1. m \in MessageOf /\ m.n \in Nat /\ m.src \in Threads
    BY <1>1, ReadsType DEF MessageOf
  <2>2. m.n <= Len(reads[m.src]) /\ (Busy(m.src) => m.n < Len(reads[m.src]))
    BY DEF ForwardInv, SentInv
  <2>3. CASE m.src = t  BY <1>1, <1>2, <2>1, <2>2, <2>3
  <2>4. CASE m.src # t  BY <1>2, <2>1, <2>2, <2>4 DEF Busy
  <2> QED  BY <2>3, <2>4
<1>4. CountInv'
  BY <1>1, <1>2 DEF ForwardInv, CountInv, Threads
<1>5. LateInv'
  <2>1. \A i \in Late : log[i].src \in Threads /\ (Heeded => log[i].src # t)
    BY <1>1, ReadsType DEF ForwardInv, LateInv, MessageOf, Late
  <2> QED
    BY <1>2, <2>1 DEF ForwardInv, LateInv, Heeded, StopRequested, Late
<1> QED  BY <1>3, <1>4, <1>5 DEF ForwardInv

\* A line is read only by a thread with no message of its own pending.
LEMMA ForwardInvReadLine ==
  ASSUME ForwardInv, NEW c \in Handled, ReadLine(c)
  PROVE  ForwardInv'
<1>1. c \in Threads /\ c # SysThread  BY CollectorsAssumption DEF Threads
<1>2. PICK line \in LinesOf(c) : reads' = [reads EXCEPT ![c] = Append(@, line)]
  BY DEF ReadLine
<1>3. line \in Readings  BY DEF LinesOf, Readings
<1>4. /\ pc[c] = "read" /\ pc' = [pc EXCEPT ![c] = "handle"]
      /\ Len(reads[c]) < MaxLines
      /\ UNCHANGED <<mainVars, running, sendVars, stopVars>>
  BY DEF ReadLine, Step
<1>5. ~Busy(c)  BY <1>4 DEF Busy
<1>6. ThreadInv'  BY ThreadInvReader DEF ForwardInv
<1>7. UNCHANGED <<mainVars, running, sendVars, stopVars>>
  BY <1>4
<1>8. Len(reads[c]) < IF c = SysThread THEN MaxSnapshots ELSE MaxLines
  BY <1>1, <1>4
<1>9. pc[c] \in {"read", "collect"}  BY <1>4
<1> QED
  BY <1>1, <1>2, <1>3, <1>4, <1>5, <1>6, <1>7, <1>8, <1>9, ForwardInvRead

\* The steps of a reader before its send.
LEMMA ForwardInvReader ==
  ASSUME ForwardInv, NEW c \in Handled, ReaderStep(c) \/ ReadLine(c) \/ ReadFailed(c)
  PROVE  ForwardInv'
<1>1. ThreadInv /\ ThreadInv'  BY ThreadInvReader DEF ForwardInv
<1>2. c \in Threads /\ c # SysThread  BY CollectorsAssumption DEF Threads
<1>3. pc \in [Threads -> ThreadPcs]  BY <1>1, ReadsType
<1> USE <1>1, <1>2, <1>3
    DEF Step, Busy, ForwardInv, LateInv, mainVars, stopVars, threadVars, sendVars
<1>4. CASE ReaderCheck(c)  BY <1>4, ForwardInvQuiet DEF ReaderCheck
<1>5. CASE ReadLine(c)  BY <1>5, ForwardInvReadLine
<1>6. CASE ReadStopped(c) \/ ReadFailed(c)
  <2>1. ReadNullopt(c)  BY <1>6 DEF ReadStopped, ReadFailed
  <2> QED  BY <2>1, ForwardInvQuiet DEF ReadNullopt
<1>7. CASE HandleMetrics(c)  BY <1>7, ForwardInvQuiet DEF HandleMetrics
<1>8. CASE HandleQuiet(c)  BY <1>8, ForwardInvQuiet DEF HandleQuiet
<1>9. CASE HandlePort(c)  BY <1>9, ForwardInvQuiet DEF HandlePort
<1>10. CASE HandleBest(c)  BY <1>10, ForwardInvQuiet DEF HandleBest
<1>11. CASE CollectTopology(c)
  BY <1>11, ForwardInvQuiet DEF CollectTopology
<1> QED
  BY <1>4, <1>5, <1>6, <1>7, <1>8, <1>9, <1>10, <1>11 DEF ReaderStep

\* The steps of the system thread before its send.
LEMMA ForwardInvSys == ForwardInv /\ SysStep => ForwardInv'
<1> SUFFICES ASSUME ForwardInv, SysStep PROVE ForwardInv'  OBVIOUS
<1>1. ThreadInv /\ ThreadInv'  BY ThreadInvSys DEF ForwardInv
<1>2. SysThread \in Threads  BY DEF Threads
<1>3. pc \in [Threads -> ThreadPcs]  BY <1>1, ReadsType
<1> USE <1>1, <1>2, <1>3
    DEF Step, Busy, ForwardInv, LateInv, mainVars, stopVars, threadVars, sendVars
<1>4. CASE SysCheck  BY <1>4, ForwardInvQuiet DEF SysCheck
<1>5. CASE SysWakeStopped  BY <1>5, ForwardInvQuiet DEF SysWakeStopped
<1>6. CASE SysWake  BY <1>6, ForwardInvQuiet DEF SysWake
<1>7. CASE SysCollect
  <2>1. watched \in Readings
    BY DEF ThreadInv, TypeInv, TypeOK, Readings, Ports
  <2> QED  BY <1>7, <2>1, ForwardInvRead DEF SysCollect, CountInv
<1> QED  BY <1>4, <1>5, <1>6, <1>7 DEF SysStep

-----------------------------------------------------------------------------
\* What a send adds to the log, and to the late sources of Forwarder.
LEMMA SendAppends ==
  ASSUME ForwardInv, NEW t \in Threads, Send(t)
  PROVE  /\ Len(log') = Len(log) + 1
         /\ \A i \in 1 .. Len(log) : log'[i] = log[i]
         /\ log'[Len(log) + 1] = Current(t)
         /\ Current(t) \in MessageOf
         /\ Accepted' = Accepted \cup {Current(t)}
         /\ Late' = IF StopRequested THEN Late \cup {Len(log) + 1} ELSE {}
<1>1. log \in Seq(MessageOf) /\ Len(log) \in Nat /\ stopMark.at \in Nat
      /\ stopMark.at <= Len(log) + 1
  BY ReadsType DEF ForwardInv, ThreadInv, TypeInv, TypeOK, LateInv
<1>2. Current(t) \in MessageOf
  BY CurrentType DEF Send, Step, ForwardInv, ThreadInv
<1>3. log' = Append(log, Current(t)) /\ UNCHANGED stopMark
  BY DEF Send, stopVars
<1>4. /\ Len(log') = Len(log) + 1
      /\ \A i \in 1 .. Len(log) : log'[i] = log[i]
      /\ log'[Len(log) + 1] = Current(t)
  BY <1>1, <1>2, <1>3
<1>5. Accepted' = Accepted \cup {Current(t)}
  BY <1>1, <1>4 DEF Accepted
<1>6. Late' = IF StopRequested THEN Late \cup {Len(log) + 1} ELSE {}
  BY <1>1, <1>3, <1>4 DEF Late, StopRequested
<1> QED  BY <1>2, <1>4, <1>5, <1>6

\* A send appends the latest reading of its thread.
LEMMA ForwardInvSend ==
  ASSUME ForwardInv, NEW t \in Threads, Lock(t) \/ Send(t) \/ SendError(t)
  PROVE  ForwardInv'
<1>1. ThreadInv /\ ThreadInv'  BY ThreadInvSend DEF ForwardInv
<1>2. pc \in [Threads -> ThreadPcs]  BY <1>1, ReadsType
<1>3. CASE Lock(t)
  BY <1>1, <1>2, <1>3, ForwardInvQuiet
     DEF Lock, Step, Busy, ForwardInv, LateInv, mainVars, stopVars
<1>4. CASE Send(t) \/ SendError(t)
  <2>1. /\ UNCHANGED <<reads, stopMark, mainPc, running>>
        /\ pc[t] = "send" /\ pc' = [pc EXCEPT ![t] = "check"]
    BY <1>4 DEF Send, SendError, Step, mainVars, stopVars
  <2>2. (Accepted \cup dropped)' = Accepted \cup dropped \cup {Current(t)}
    BY <1>4, SendAppends DEF Send, SendError, Accepted
  <2>3. Current(t).src = t /\ Current(t).n = Len(reads[t])
    BY DEF Current, Message
  <2>4. SentInv'
    <3> SUFFICES ASSUME NEW m \in Accepted \cup dropped \cup {Current(t)}
                 PROVE  /\ m.n <= Len(reads[m.src])
                        /\ Busy(m.src)' => m.n < Len(reads[m.src])
      BY <2>1, <2>2 DEF SentInv
    <3>1. CASE m = Current(t)
      BY <1>1, <1>2, <2>1, <2>3, <3>1, ReadsType DEF Busy
    <3>2. CASE m \in Accepted \cup dropped
      <4>1. m.src \in Threads  BY <1>1, <3>2, ReadsType DEF MessageOf
      <4>2. Busy(m.src)' => Busy(m.src)  BY <1>2, <2>1, <4>1 DEF Busy
      <4> QED  BY <3>2, <4>2 DEF ForwardInv, SentInv
    <3> QED  BY <3>1, <3>2
  <2>5. CountInv'
    BY <1>2, <2>1 DEF ForwardInv, CountInv
  <2>6. LateInv'
    <3>1. CASE SendError(t)
      <4>1. \A i \in Late : log[i].src \in Threads
        BY <1>1, ReadsType DEF MessageOf, Late
      <4> QED
        BY <1>2, <2>1, <3>1, <4>1
           DEF SendError, ForwardInv, LateInv, Heeded, StopRequested, Late
    <3>2. CASE Send(t)
      <4>1. Len(log) \in Nat /\ stopMark.at \in Nat  BY <1>1, ReadsType
      <4>2. stopMark'.at <= Len(log') + 1
        BY <2>1, <3>2, <4>1, SendAppends DEF ForwardInv, LateInv
      <4>3. ASSUME Heeded, NEW i \in Late'
            PROVE  pc'[log'[i].src] \in {"check", "done"}
        <5>1. i \in Late \/ i = Len(log) + 1
          BY <3>2, <4>3, SendAppends
        <5>2. CASE i = Len(log) + 1
          BY <1>2, <2>1, <2>3, <3>2, <5>2, SendAppends
        <5>3. CASE i \in Late
          <6>1. log[i].src \in Threads /\ log'[i] = log[i]
            BY <1>1, <3>2, <5>3, ReadsType, SendAppends DEF MessageOf, Late
          <6> QED
            BY <1>2, <2>1, <4>3, <5>3, <6>1 DEF ForwardInv, LateInv
        <5> QED  BY <5>1, <5>2, <5>3
      <4> QED
        BY <2>1, <4>2, <4>3 DEF ForwardInv, LateInv, Heeded, StopRequested
    <3> QED  BY <1>4, <3>1, <3>2
  <2> QED  BY <1>1, <2>4, <2>5, <2>6 DEF ForwardInv
<1> QED  BY <1>3, <1>4

\* The invariant of the refinement is inductive.
LEMMA ForwardInvNext == ForwardInv /\ [Next]_vars => ForwardInv'
<1> SUFFICES ASSUME ForwardInv, [Next]_vars PROVE ForwardInv'  OBVIOUS
<1>1. ThreadInv'  BY ThreadInvNext DEF ForwardInv
<1>2. CASE UNCHANGED vars \/ Deliver
  BY <1>1, <1>2, ForwardInvQuiet
     DEF vars, Deliver, Busy, ForwardInv, LateInv,
         mainVars, stopVars, threadVars, sendVars
<1> QED
  BY <1>2, ForwardInvMain, ForwardInvStop, ForwardInvReader, ForwardInvSys,
     ForwardInvSend DEF Next, Terminated

-----------------------------------------------------------------------------
(* The steps of Agent as steps of Forwarder.                               *)

\* The initial states map to those of Forwarder.
LEMMA InitForwards == Init => F!Init
BY DEF Init, F!Init, Returned, Heeded, StopRequested

\* A step that leaves the log, the mark of stop() and Returned alone stutters.
LEMMA StepStutters ==
  ASSUME UNCHANGED <<log, stopMark>>, Returned' = Returned
  PROVE  UNCHANGED F!vars
BY DEF F!vars, Heeded, StopRequested, Late

\* Every step of the agent is a step of Forwarder or a stutter.
LEMMA StepForwards == ForwardInv /\ [Next]_vars => [F!Next]_(F!vars)
<1> SUFFICES ASSUME ForwardInv, [Next]_vars PROVE [F!Next]_(F!vars)  OBVIOUS
<1> USE DEF mainVars, stopVars, threadVars, sendVars
<1>1. ASSUME NEW t \in Threads, Send(t)  PROVE F!Next
  <2>1. ~Returned /\ Returned' = Returned
    BY <1>1 DEF Send, Step, ForwardInv, ThreadInv, JoinInv, ReadersFinished,
                Returned, Threads
  <2>2. UNCHANGED stopMark /\ log' = Append(log, Current(t)) /\ pc[t] = "send"
    BY <1>1 DEF Send, Step
  <2>3. Current(t) = [src |-> t, n |-> Len(reads[t])]  BY DEF Current, Message
  <2>4. Len(reads[t]) \in 1 .. (MaxLines + MaxSnapshots)
    <3>1. Current(t) \in MessageOf
      BY <1>1, SendAppends
    <3> QED
      BY <2>3, <3>1, BoundsAssumption DEF MessageOf, ForwardInv, CountInv
  <2>5. \A i \in 1 .. Len(log) : log[i].src = t => log[i].n < Len(reads[t])
    BY <2>2 DEF ForwardInv, SentInv, Accepted, Busy
  <2>6. Heeded => \A i \in Late : log[i].src # t
    BY <2>2 DEF ForwardInv, LateInv
  <2>7. Heeded' = Heeded  BY <2>2 DEF Heeded, StopRequested
  <2>8. Heeded => {log'[i].src : i \in Late'}
                    = {log[i].src : i \in Late} \cup {t}
    <3> SUFFICES ASSUME Heeded
                 PROVE  {log'[i].src : i \in Late'}
                          = {log[i].src : i \in Late} \cup {t}
      OBVIOUS
    <3>1. Late' = Late \cup {Len(log) + 1}
      BY <1>1, SendAppends DEF Heeded
    <3>2. \A i \in Late : log'[i] = log[i]
      BY <1>1, SendAppends DEF Late
    <3>3. log'[Len(log) + 1].src = t  BY <1>1, <2>3, SendAppends
    <3> QED  BY <3>1, <3>2, <3>3
  <2>9. F!Forward(t)
    BY <2>1, <2>2, <2>3, <2>4, <2>5, <2>6, <2>7, <2>8 DEF F!Forward
  <2> QED  BY <2>9 DEF F!Next
<1>2. CASE StopClearRunning
  <2>1. UNCHANGED <<log, mainPc>> /\ Returned' = Returned
    BY <1>2 DEF StopClearRunning, Returned
  <2>2. CASE stopMark.at # 0
    BY <1>2, <2>1, <2>2, StepStutters DEF StopClearRunning
  <2>3. CASE stopMark.at = 0
    <3>1. Len(log) \in Nat  BY ReadsType DEF ForwardInv
    <3>2. /\ ~Heeded /\ Heeded' = (mainPc # "enter")
          /\ Late' = {}
      <4>1. stopMark' = [at |-> Len(log) + 1, early |-> mainPc = "enter"]
        BY <1>2, <2>3 DEF StopClearRunning
      <4>2. stopMark'.at = Len(log) + 1 /\ stopMark'.early = (mainPc = "enter")
        BY <4>1
      <4>3. ~StopRequested /\ StopRequested'
        BY <2>3, <3>1, <4>2 DEF StopRequested
      <4>4. Late' = {}
        BY <2>1, <3>1, <4>2 DEF Late
      <4> QED  BY <4>2, <4>3, <4>4 DEF Heeded
    <3>3. CASE Returned \/ mainPc = "enter"
      BY <2>1, <3>2, <3>3 DEF F!vars, Returned
    <3>4. CASE ~Returned /\ mainPc # "enter"
      BY <2>1, <3>2, <3>4 DEF F!Next, F!RequestStop
    <3> QED  BY <3>3, <3>4
  <2> QED  BY <2>2, <2>3
<1>3. CASE JoinSys
  <2>1. UNCHANGED <<log, stopMark>> /\ ~Returned /\ Returned'
    BY <1>3 DEF JoinSys, MainAt, Returned
  <2>2. F!Return
    BY <2>1 DEF F!Return, Heeded, StopRequested, Late
  <2> QED  BY <2>2 DEF F!Next
<1>4. CASE \/ Main /\ ~JoinSys
           \/ Signal \/ StopCollector \/ StopReturn
           \/ SysStep \/ Deliver \/ UNCHANGED vars
  <2>1. UNCHANGED <<log, stopMark>> /\ Returned' = Returned
    BY <1>4 DEF Main, MainAt, RunStart, SpawnReader, SpawnSys, JoinReaders,
                ClearRunning, CloseAdapter, Signal, StopCollector, StopReturn,
                SysStep, SysCheck, SysWakeStopped, SysWake, SysCollect,
                Deliver, Returned, vars
  <2> QED  BY <2>1, StepStutters
<1>5. ASSUME NEW c \in Handled, ReaderStep(c) \/ ReadLine(c) \/ ReadFailed(c)
      PROVE  UNCHANGED F!vars
  <2>1. UNCHANGED <<log, stopMark>> /\ Returned' = Returned
    BY <1>5 DEF ReaderStep, ReaderCheck, ReadLine, ReadStopped, ReadFailed,
                ReadNullopt, HandleMetrics, HandleQuiet, HandlePort,
                HandleBest, CollectTopology, Returned
  <2> QED  BY <2>1, StepStutters
<1>6. ASSUME NEW t \in Threads, Lock(t) \/ SendError(t)
      PROVE  UNCHANGED F!vars
  <2>1. UNCHANGED <<log, stopMark>> /\ Returned' = Returned
    BY <1>6 DEF Lock, SendError, Returned
  <2> QED  BY <2>1, StepStutters
<1> QED
  BY <1>1, <1>2, <1>3, <1>4, <1>5, <1>6 DEF Next, Stop, Terminated

\* The agent forwards each source in order, at most one message of a source
\* after a heeded stop(), and nothing after run() has returned.
THEOREM AgentImplementsForwarder == Spec => ForwardsInOrder
<1>1. Spec => []ForwardInv
  BY ForwardInvInit, ForwardInvNext, PTL DEF Spec
<1> QED
  BY <1>1, InitForwards, StepForwards, PTL DEF Spec, ForwardsInOrder, F!Spec

-----------------------------------------------------------------------------
(* What becomes of the readings: each one worth a message is sent or       *)
(* refused, and each interface of a snapshot has its port event.           *)

\* A quiet line never gets as far as the mutex, and only a best-master line
\* leads to a topology collection.
LineInv ==
  /\ \A t \in Threads : pc[t] \in {"lock", "send"} => CurrentLine(t) # "quiet"
  /\ \A c \in Handled : pc[c] = "collect" => CurrentLine(c) = "best"

\* An interface was read in a line of ptp4l.
HasEvent(i) ==
  i \in Interfaces => /\ Ptp4l \in Handled
                      /\ \E k \in 1 .. Len(reads[Ptp4l]) : reads[Ptp4l][k] = i

\* Whatever the NetworkCollector watches or has collected on was.
WatchedInv ==
  /\ \A c \in Handled : \A n \in 1 .. Len(reads[c]) : reads[c][n] \in LinesOf(c)
  /\ HasEvent(watched)
  /\ \A n \in 1 .. Len(reads[SysThread]) : HasEvent(reads[SysThread][n])

AccountInv == ForwardInv /\ LineInv /\ WatchedInv /\ Accounted

-----------------------------------------------------------------------------
\* Before run() nothing has been read.
LEMMA AccountInvInit == Init => AccountInv
<1> SUFFICES ASSUME Init PROVE AccountInv  OBVIOUS
<1>1. /\ Len(log) = 0 /\ \A t \in Threads : Len(reads[t]) = 0
      /\ \A t \in Threads : pc[t] = "none"
      /\ Handled \subseteq Threads /\ SysThread \in Threads
      /\ watched = NoInterface /\ dropped = {}
  BY DEF Init, Threads
<1>2. LineInv  BY <1>1 DEF LineInv
<1>3. WatchedInv  BY <1>1, PortsAssumption DEF WatchedInv, HasEvent, Ports
<1>4. Accounted  BY <1>1 DEF Accounted, Accepted
<1> QED  BY <1>2, <1>3, <1>4, ForwardInvInit DEF AccountInv

\* A step that reads and sends nothing: what must be sent stays in hand.
LEMMA AccountInvQuiet ==
  ASSUME AccountInv, ForwardInv', LineInv', HasEvent(watched)',
         UNCHANGED <<reads, log, dropped>>,
         \A t \in Threads : Handling(t) => \/ Handling(t)'
                                          \/ CurrentLine(t) \in {"quiet", "best"}
  PROVE  AccountInv'
<1>1. /\ \A t \in Threads : reads[t] \in Seq(Readings) /\ Len(reads[t]) \in Nat
      /\ Accepted' = Accepted
  BY ReadsType DEF AccountInv, ForwardInv, Accepted
<1>2. WatchedInv'
  BY DEF AccountInv, WatchedInv, HasEvent
<1>3. Accounted'
  <2>1. \A line : MustSend(line) => line \notin {"quiet", "best"}
    BY PortsAssumption DEF MustSend
  <2> QED  BY <1>1, <2>1 DEF AccountInv, Accounted, CurrentLine
<1> QED  BY <1>2, <1>3 DEF AccountInv

\* run() and stop() leave readings and messages alone, and move no thread that
\* has something in hand.
LEMMA AccountInvMain == AccountInv /\ (Main \/ Signal \/ Stop) => AccountInv'
<1> SUFFICES ASSUME AccountInv, Main \/ Signal \/ Stop PROVE AccountInv'
  OBVIOUS
<1>1. ForwardInv'
  BY ForwardInvMain, ForwardInvStop DEF AccountInv
<1>2. pc \in [Threads -> ThreadPcs] /\ Handled \subseteq Threads
  BY ReadsType DEF AccountInv, ForwardInv, Threads
<1>3. /\ UNCHANGED <<reads, log, dropped, watched>>
      /\ \A t \in Threads : \/ pc'[t] = pc[t]
                            \/ pc[t] = "none" /\ pc'[t] = "check"
  <2> USE <1>2 DEF MainAt, mainVars, stopVars, threadVars, sendVars
  <2>1. CASE Main
    <3>1. CASE SpawnReader \/ SpawnSys
      BY <3>1 DEF SpawnReader, SpawnSys, AccountInv, ForwardInv, ThreadInv, JoinInv
    <3> QED
      BY <2>1, <3>1 DEF Main, RunStart, JoinReaders, ClearRunning, JoinSys, CloseAdapter
  <2>2. CASE Signal  BY <2>2 DEF Signal
  <2>3. CASE Stop
    BY <2>3 DEF Stop, StopClearRunning, StopCollector, StopReturn
  <2> QED  BY <2>1, <2>2, <2>3
<1>4. LineInv'  BY <1>2, <1>3 DEF AccountInv, LineInv, CurrentLine
<1>5. HasEvent(watched)'  BY <1>3 DEF AccountInv, WatchedInv, HasEvent
<1>6. \A t \in Threads : Handling(t) => Handling(t)'
  BY <1>3 DEF Handling
<1> QED  BY <1>1, <1>3, <1>4, <1>5, <1>6, AccountInvQuiet

\* The handlers: a quiet line is put down, a port event is noted before it is
\* sent.
LEMMA AccountInvReader ==
  ASSUME AccountInv, NEW c \in Handled, ReaderStep(c) \/ ReadFailed(c)
  PROVE  AccountInv'
<1>1. ForwardInv'  BY ForwardInvReader DEF AccountInv
<1>2. pc \in [Threads -> ThreadPcs] /\ c \in Threads /\ Handled \subseteq Threads
      /\ \A t \in Threads : Len(reads[t]) \in Nat
  BY ReadsType DEF AccountInv, ForwardInv, Threads
<1>3. UNCHANGED <<reads, log, dropped>>
  BY DEF ReaderStep, ReaderCheck, ReadStopped, ReadFailed, ReadNullopt, HandleMetrics,
         HandleQuiet, HandlePort, HandleBest, CollectTopology, sendVars
<1>4. \E next \in ThreadPcs :
        /\ pc' = [pc EXCEPT ![c] = next]
        /\ next \in {"lock", "send"} => \/ CurrentLine(c) \in Ports \cup {"metrics"}
                                        \/ pc[c] = "collect"
        /\ next = "collect" => CurrentLine(c) = "best"
        /\ pc[c] = "handle" => \/ next = "lock"
                               \/ CurrentLine(c) \in {"quiet", "best"}
        /\ pc[c] \notin {"lock", "send"}
  BY DEF ReaderStep, ReaderCheck, ReadStopped, ReadFailed, ReadNullopt, HandleMetrics,
         HandleQuiet, HandlePort, HandleBest, CollectTopology, Step, ThreadPcs
<1>5. LineInv'
  <2>1. \A t \in Threads : CurrentLine(t)' = CurrentLine(t)  BY <1>3 DEF CurrentLine
  <2>2. \A t \in Threads \ {c} : pc'[t] = pc[t]  BY <1>2, <1>4
  <2>3. pc'[c] \in {"lock", "send"} => CurrentLine(c) # "quiet"
    BY <1>2, <1>4, PortsAssumption DEF AccountInv, LineInv
  <2>4. pc'[c] = "collect" => CurrentLine(c) = "best"  BY <1>2, <1>4
  <2> QED  BY <1>2, <2>1, <2>2, <2>3, <2>4 DEF AccountInv, LineInv
<1>6. HasEvent(watched)'
  <2>1. CASE watched' = watched
    BY <1>3, <2>1 DEF AccountInv, WatchedInv, HasEvent
  <2>2. CASE watched' # watched
    <3>1. pc[c] = "handle" /\ watched' = CurrentLine(c) /\ CurrentLine(c) \in Ports
      BY <2>2 DEF ReaderStep, ReaderCheck, ReadStopped, ReadFailed, ReadNullopt,
                  HandleMetrics, HandleQuiet, HandlePort, HandleBest, CollectTopology, Step
    <3>2. Len(reads[c]) \in 1 .. Len(reads[c])
      <4>1. reads[c] \in Seq(Readings) /\ reads[c] # <<>>
        BY <1>2, <3>1, ReadsType
           DEF AccountInv, ForwardInv, ThreadInv, TypeInv, HasReading
      <4> QED  BY <4>1
    <3>3. CurrentLine(c) \in LinesOf(c)
      BY <3>2 DEF AccountInv, WatchedInv, CurrentLine
    <3>4. c = Ptp4l  BY <3>1, <3>3, PortsAssumption DEF LinesOf
    <3> QED  BY <1>3, <3>1, <3>2, <3>4 DEF HasEvent, CurrentLine
  <2> QED  BY <2>1, <2>2
<1>7. \A t \in Threads : Handling(t) => \/ Handling(t)'
                                        \/ CurrentLine(t) \in {"quiet", "best"}
  BY <1>2, <1>4 DEF Handling
<1> QED  BY <1>1, <1>3, <1>5, <1>6, <1>7, AccountInvQuiet

\* A step in which thread t reads something new and takes it in hand.
LEMMA AccountInvRead ==
  ASSUME AccountInv, ForwardInv', NEW t \in Threads, NEW reading \in Readings,
         reads' = [reads EXCEPT ![t] = Append(@, reading)],
         ~Handling(t), NEW next \in {"handle", "lock"}, pc' = [pc EXCEPT ![t] = next],
         next = "lock" => reading # "quiet",
         t \in Handled => reading \in LinesOf(t), t \notin Handled => HasEvent(reading),
         UNCHANGED <<log, dropped, watched>>
  PROVE  AccountInv'
<1>1. /\ pc \in [Threads -> ThreadPcs] /\ Accepted' = Accepted
      /\ reads \in [Threads -> Seq(Readings)]
      /\ \A s \in Threads : Len(reads[s]) \in Nat
      /\ Handled \subseteq Threads /\ SysThread \in Threads \ Handled
  BY ReadsType, CollectorsAssumption
     DEF AccountInv, ForwardInv, Accepted, Threads, ThreadInv, TypeInv, TypeOK
<1>2. /\ Len(reads'[t]) = Len(reads[t]) + 1
      /\ \A n \in 1 .. Len(reads[t]) : reads'[t][n] = reads[t][n]
      /\ reads'[t][Len(reads[t]) + 1] = reading
      /\ \A s \in Threads \ {t} : reads'[s] = reads[s] /\ pc'[s] = pc[s]
      /\ pc'[t] = next
  <2>1. reads[t] \in Seq(Readings) /\ reads'[t] = Append(reads[t], reading)
    BY <1>1
  <2> QED  BY <1>1, <2>1
<1>3. LineInv'
  <2>1. \A s \in Threads \ {t} : CurrentLine(s)' = CurrentLine(s)
    BY <1>2 DEF CurrentLine
  <2>2. CurrentLine(t)' = reading  BY <1>2 DEF CurrentLine
  <2> QED  BY <1>1, <1>2, <2>1, <2>2 DEF AccountInv, LineInv
<1>4. \A i : HasEvent(i) => HasEvent(i)'
  <2> SUFFICES ASSUME NEW i, HasEvent(i), i \in Interfaces
               PROVE  /\ Ptp4l \in Handled
                      /\ \E k \in 1 .. Len(reads'[Ptp4l]) : reads'[Ptp4l][k] = i
    BY DEF HasEvent
  <2>1. PICK k \in 1 .. Len(reads[Ptp4l]) : reads[Ptp4l][k] = i
    BY DEF HasEvent
  <2>2. Ptp4l \in Handled  BY DEF HasEvent
  <2>3. k \in 1 .. Len(reads'[Ptp4l]) /\ reads'[Ptp4l][k] = i
    BY <1>1, <1>2, <2>1, <2>2
  <2> QED  BY <2>2, <2>3
<1>5. WatchedInv'
  <2>1. HasEvent(watched)'  BY <1>4 DEF AccountInv, WatchedInv, HasEvent
  <2>2. \A n \in 1 .. Len(reads'[t]) : n \in 1 .. Len(reads[t]) \/ n = Len(reads[t]) + 1
    BY <1>1, <1>2
  <2>3. \A c \in Handled : \A n \in 1 .. Len(reads'[c]) : reads'[c][n] \in LinesOf(c)
    BY <1>1, <1>2, <2>2 DEF AccountInv, WatchedInv
  <2>4. \A n \in 1 .. Len(reads'[SysThread]) : HasEvent(reads'[SysThread][n])
    BY <1>1, <1>2, <2>2 DEF AccountInv, WatchedInv, Threads
  <2>5. \A n \in 1 .. Len(reads'[SysThread]) :
          HasEvent(reads'[SysThread][n]) => HasEvent(reads[SysThread][n])'
    BY <1>4 DEF HasEvent
  <2> QED  BY <2>1, <2>3, <2>4, <2>5 DEF WatchedInv
<1>6. Accounted'
  <2> SUFFICES ASSUME NEW s \in Threads, NEW n \in 1 .. Len(reads'[s])
               PROVE  /\ MustSend(reads'[s][n]) =>
                           \/ Message(s, n) \in Accepted \cup dropped
                           \/ n = Len(reads'[s]) /\ Handling(s)'
                      /\ reads'[s][n] = "quiet" =>
                           Message(s, n) \notin Accepted \cup dropped
    BY <1>1 DEF AccountInv, Accounted, MustSend, Message
  <2>1. CASE s # t
    BY <1>1, <1>2, <2>1 DEF AccountInv, Accounted, Handling
  <2>2. CASE s = t /\ n \in 1 .. Len(reads[t])
    BY <1>2, <2>2 DEF AccountInv, Accounted
  <2>3. CASE s = t /\ n = Len(reads[t]) + 1
    <3>1. Handling(t)' /\ n = Len(reads'[t])  BY <1>2, <2>3 DEF Handling
    <3>2. Message(t, n).src = t /\ Message(t, n).n = n  BY DEF Message
    <3>3. Message(t, n) \notin Accepted \cup dropped
      BY <1>1, <2>3, <3>2 DEF AccountInv, ForwardInv, SentInv
    <3> QED  BY <2>3, <3>1, <3>3
  <2> QED  BY <1>1, <1>2, <2>1, <2>2, <2>3
<1> QED  BY <1>3, <1>5, <1>6 DEF AccountInv

\* A line read by a reader is of its source.
LEMMA AccountInvReadLine ==
  ASSUME AccountInv, NEW c \in Handled, ReadLine(c)
  PROVE  AccountInv'
<1>1. ForwardInv'  BY ForwardInvReader DEF AccountInv
<1>2. PICK line \in LinesOf(c) : reads' = [reads EXCEPT ![c] = Append(@, line)]
  BY DEF ReadLine
<1>3. line \in Readings /\ c \in Threads  BY DEF LinesOf, Readings, Threads
<1>4. pc[c] = "read" /\ pc' = [pc EXCEPT ![c] = "handle"]
      /\ UNCHANGED <<log, dropped, watched>>
  BY DEF ReadLine, Step, sendVars
<1>5. ~Handling(c)  BY <1>4 DEF Handling
<1> QED  BY <1>1, <1>2, <1>3, <1>4, <1>5, AccountInvRead

\* A snapshot is of the interface that is watched; sleeping changes nothing.
LEMMA AccountInvSys == AccountInv /\ SysStep => AccountInv'
<1> SUFFICES ASSUME AccountInv, SysStep PROVE AccountInv'  OBVIOUS
<1>1. ForwardInv'  BY ForwardInvSys DEF AccountInv
<1>2. /\ SysThread \in Threads /\ SysThread \notin Handled
      /\ Handled \subseteq Threads
      /\ pc \in [Threads -> ThreadPcs]
  BY ReadsType, CollectorsAssumption DEF AccountInv, ForwardInv, Threads
<1>3. CASE SysCollect
  <2>1. watched \in Readings /\ watched # "quiet" /\ HasEvent(watched)
    BY PortsAssumption
       DEF AccountInv, WatchedInv, ForwardInv, ThreadInv, TypeInv, TypeOK, Readings, Ports
  <2>2. ~Handling(SysThread)  BY <1>3 DEF SysCollect, Step, Handling
  <2>3. /\ reads' = [reads EXCEPT ![SysThread] = Append(@, watched)]
        /\ pc' = [pc EXCEPT ![SysThread] = "lock"]
        /\ UNCHANGED <<log, dropped, watched>>
    BY <1>3 DEF SysCollect, Step, sendVars
  <2> QED  BY <1>1, <1>2, <2>1, <2>2, <2>3, AccountInvRead
<1>4. CASE SysCheck \/ SysWakeStopped \/ SysWake
  <2>1. /\ UNCHANGED <<reads, log, dropped, watched>>
        /\ pc[SysThread] \in {"check", "read"}
        /\ \E next \in {"read", "done", "collect"} : pc' = [pc EXCEPT ![SysThread] = next]
    BY <1>4 DEF SysCheck, SysWakeStopped, SysWake, Step, sendVars
  <2>2. LineInv'  BY <1>2, <2>1 DEF AccountInv, LineInv, CurrentLine
  <2>3. HasEvent(watched)'  BY <2>1 DEF AccountInv, WatchedInv, HasEvent
  <2>4. \A t \in Threads : Handling(t) => Handling(t)'
    BY <1>2, <2>1 DEF Handling
  <2> QED  BY <1>1, <2>1, <2>2, <2>3, <2>4, AccountInvQuiet
<1> QED  BY <1>3, <1>4 DEF SysStep

\* A send settles the reading in hand, which no message stems from yet.
LEMMA AccountInvSend ==
  ASSUME AccountInv, NEW t \in Threads, Lock(t) \/ Send(t) \/ SendError(t)
  PROVE  AccountInv'
<1>1. ForwardInv'  BY ForwardInvSend DEF AccountInv
<1>2. /\ pc \in [Threads -> ThreadPcs] /\ Handled \subseteq Threads
      /\ \A s \in Threads : Len(reads[s]) \in Nat
      /\ UNCHANGED <<reads, watched>>
      /\ \E next \in ThreadPcs : pc' = [pc EXCEPT ![t] = next]
      /\ \A s \in Threads : pc'[s] # pc[s] =>
           s = t /\ pc'[t] \in {"send", "check"} /\ pc[t] \in {"lock", "send"}
  BY ReadsType DEF AccountInv, ForwardInv, Threads, Lock, Send, SendError, Step, ThreadPcs
<1>3. LineInv' /\ WatchedInv'
  <2>1. LineInv'
    BY <1>2 DEF AccountInv, LineInv, CurrentLine
  <2>2. WatchedInv'  BY <1>2 DEF AccountInv, WatchedInv, HasEvent
  <2> QED  BY <2>1, <2>2
<1>4. CASE Lock(t)
  <2>1. UNCHANGED <<log, dropped>>  BY <1>4 DEF Lock
  <2>2. \A s \in Threads : Handling(s) => Handling(s)'
    BY <1>2, <1>4 DEF Handling, Lock, Step
  <2>3. HasEvent(watched)'  BY <1>3 DEF WatchedInv
  <2> QED  BY <1>1, <1>2, <1>3, <2>1, <2>2, <2>3, AccountInvQuiet
<1>5. CASE Send(t) \/ SendError(t)
  <2>1. /\ pc[t] = "send" /\ pc' = [pc EXCEPT ![t] = "check"]
        /\ (Accepted \cup dropped)' = Accepted \cup dropped \cup {Current(t)}
        /\ \/ Accepted' = Accepted /\ dropped' = dropped \cup {Current(t)}
           \/ Accepted' = Accepted \cup {Current(t)} /\ dropped' = dropped
    BY <1>5, SendAppends DEF Send, SendError, Step, Accepted, AccountInv
  <2>2. Current(t) \notin Accepted \cup dropped
    <3>1. Current(t).src = t /\ Current(t).n = Len(reads[t])
      BY DEF Current, Message
    <3> QED
      BY <1>2, <2>1, <3>1 DEF AccountInv, ForwardInv, SentInv, Busy
  <2>3. CurrentLine(t) # "quiet"
    BY <2>1 DEF AccountInv, LineInv
  <2>4. Accepted' \cap dropped' = {}
    BY <2>1, <2>2 DEF AccountInv, Accounted
  <2>5. ASSUME NEW s \in Threads, NEW n \in 1 .. Len(reads[s])
        PROVE  /\ MustSend(reads[s][n]) =>
                    \/ Message(s, n) \in Accepted' \cup dropped'
                    \/ n = Len(reads[s]) /\ Handling(s)'
               /\ reads[s][n] = "quiet" =>
                    Message(s, n) \notin Accepted' \cup dropped'
    <3>1. CASE s = t /\ n = Len(reads[t])
      BY <2>1, <2>3, <3>1 DEF Current, CurrentLine, AccountInv, Accounted
    <3>2. CASE ~(s = t /\ n = Len(reads[t]))
      <4>1. Message(s, n) # Current(t)
        <5>1. /\ Message(s, n).src = s /\ Message(s, n).n = n
              /\ Current(t).src = t /\ Current(t).n = Len(reads[t])
          BY DEF Current, Message
        <5> QED  BY <3>2, <5>1
      <4>2. n = Len(reads[s]) /\ Handling(s) => Handling(s)'
        BY <1>2, <2>1, <3>2 DEF Handling
      <4> QED  BY <2>1, <4>1, <4>2 DEF AccountInv, Accounted
    <3> QED  BY <3>1, <3>2
  <2>6. Accounted'
    BY <1>2, <2>4, <2>5 DEF Accounted, MustSend, Message
  <2> QED  BY <1>1, <1>3, <2>6 DEF AccountInv
<1> QED  BY <1>4, <1>5

\* The invariant is inductive.
LEMMA AccountInvNext == AccountInv /\ [Next]_vars => AccountInv'
<1> SUFFICES ASSUME AccountInv, [Next]_vars PROVE AccountInv'  OBVIOUS
<1>1. ForwardInv'  BY ForwardInvNext DEF AccountInv
<1>2. CASE UNCHANGED vars \/ Deliver
  <2>1. UNCHANGED <<reads, log, dropped, watched, pc>>
    BY <1>2 DEF vars, Deliver, mainVars, threadVars, sendVars, stopVars
  <2>2. LineInv' /\ HasEvent(watched)'
    BY <2>1 DEF AccountInv, LineInv, CurrentLine, WatchedInv, HasEvent
  <2>3. \A t \in Threads : Handling(t) => Handling(t)'  BY <2>1 DEF Handling
  <2> QED  BY <1>1, <2>1, <2>2, <2>3, AccountInvQuiet
<1> QED
  BY <1>2, AccountInvMain, AccountInvReader, AccountInvReadLine, AccountInvSys,
     AccountInvSend DEF Next, Terminated

\* A statistics line, a port event and a snapshot is accepted by the socket or
\* refused by it, once, before its thread goes on; quiet lines leave nothing.
THEOREM AccountedHolds == Spec => []Accounted
<1>1. AccountInv => Accounted  BY DEF AccountInv
<1> QED  BY <1>1, AccountInvInit, AccountInvNext, PTL DEF Spec

\* When run() has returned, each interface of a snapshot has a port event that
\* was accepted or refused, although two threads send them in no fixed order.
THEOREM SnapshotInterfaceAnnouncedHolds == Spec => []SnapshotInterfaceAnnounced
<1>1. AccountInv => SnapshotInterfaceAnnounced
  <2> SUFFICES ASSUME AccountInv, Returned,
                      NEW n \in 1 .. Len(reads[SysThread]),
                      reads[SysThread][n] \in Interfaces
               PROVE  \E k \in 1 .. Len(reads[Ptp4l]) :
                        /\ reads[Ptp4l][k] = reads[SysThread][n]
                        /\ Message(Ptp4l, k) \in Accepted \cup dropped
    BY DEF SnapshotInterfaceAnnounced
  <2>1. HasEvent(reads[SysThread][n])  BY DEF AccountInv, WatchedInv
  <2>2. PICK k \in 1 .. Len(reads[Ptp4l]) : reads[Ptp4l][k] = reads[SysThread][n]
    BY <2>1 DEF HasEvent
  <2>3. Ptp4l \in Handled /\ Ptp4l \in Threads  BY <2>1 DEF HasEvent, Threads
  <2>4. MustSend(reads[Ptp4l][k])  BY <2>2 DEF MustSend, Ports
  <2>5. ~Handling(Ptp4l)
    BY <2>3 DEF AccountInv, ForwardInv, ThreadInv, JoinInv, ReadersFinished, Returned, Handling
  <2>6. Message(Ptp4l, k) \in Accepted \cup dropped
    BY <2>3, <2>4, <2>5 DEF AccountInv, Accounted
  <2> QED  BY <2>2, <2>6
<1> QED  BY <1>1, AccountInvInit, AccountInvNext, PTL DEF Spec
=============================================================================
