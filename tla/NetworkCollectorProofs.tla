----------------------- MODULE NetworkCollectorProofs -----------------------
(***************************************************************************)
(* Theorems about NetworkCollector, for any number of metrics, interfaces  *)
(* and descriptors, whatever the other threads open and close.             *)
(***************************************************************************)
EXTENDS NetworkCollector, TLAPS

\* How far the loops of closeFds() and setInterface() are, and that the entries
\* they have opened are of the interface last asked for.
LoopInv ==
  /\ setPc \in {"clear", "open"} => setAt \in Metrics
  /\ setPc \in {"close", "clear"} =>
       \A m \in Metrics : m < setAt => fd[m] = NoFd
  /\ setPc \in {"name", "gone"} => \A m \in Metrics : fd[m] = NoFd
  /\ setPc = "open" => \A m \in Metrics : m >= setAt => fd[m] = NoFd
  /\ setPc = "clear" => fd[setAt] # NoFd /\ table[fd[setAt]] \notin Statistics
  /\ setPc \in {"name", "open"} => wanted \in Interfaces
  /\ setPc \in {"idle", "open"} =>
       /\ interface = wanted
       /\ \A m \in Metrics : fd[m] # NoFd => table[fd[m]] = File(wanted, m)

\* How far collect() is.
CollectInv ==
  /\ colPc = "idle" => values = <<>>
  /\ colPc \in {"fetch", "pread"} => Len(values) < NumMetrics
  /\ colPc = "return" => Len(values) = NumMetrics
  /\ colPc = "pread" => colFd \in Fds

\* FdOwnership is inductive together with the progress of the loops.
DescriptorInv == TypeOK /\ FdOwnership /\ LoopInv /\ CollectInv

\* The file of a metric is neither free nor of somebody else.
LEMMA FileIsStatistics ==
  /\ \A s \in Statistics : s.iface \in Interfaces /\ s.metric \in Metrics
  /\ \A i \in Interfaces, m \in Metrics :
       File(i, m) \in Statistics /\ File(i, m).metric = m /\ File(i, m).iface = i
BY DEF File, Statistics

\* A new collector holds no descriptor.
LEMMA DescriptorInvInit == Init => DescriptorInv
<1> SUFFICES ASSUME Init PROVE DescriptorInv  OBVIOUS
<1> USE NetworkAssumption, FilesAssumption DEF Init
<1>1. TypeOK
  <2>1. <<>> \in Seq(Statistics \cup {Other}) /\ Len(values) = 0  OBVIOUS
  <2>2. fd \in [Metrics -> Fds \cup {NoFd}]
        /\ table \in [Fds -> Statistics \cup {Free, Other}]
    OBVIOUS
  <2>3. setAt \in 1 .. NumMetrics + 1 /\ collects \in 0 .. MaxCollects
    OBVIOUS
  <2>4. values \in Seq(Statistics \cup {Other}) /\ Len(values) <= NumMetrics
    BY <2>1
  <2>5. setPc \in SetPcs /\ colPc \in {"idle", "fetch", "pread", "return"}
    BY DEF SetPcs
  <2> QED  BY <2>2, <2>3, <2>4, <2>5 DEF TypeOK
<1>2. FdOwnership  BY DEF FdOwnership
<1>3. LoopInv  BY DEF LoopInv
<1>4. CollectInv  BY DEF CollectInv
<1> QED  BY <1>1, <1>2, <1>3, <1>4 DEF DescriptorInv

\* The destination of a step of setInterface() or of the destructor.
LEMMA DescriptorInvSet == DescriptorInv /\ Set => DescriptorInv'
<1> SUFFICES ASSUME DescriptorInv, Set PROVE DescriptorInv'  OBVIOUS
<1> USE NetworkAssumption, FilesAssumption, FileIsStatistics
    DEF DescriptorInv, TypeOK, CollectInv, SetPcs, Metrics, Fds, colVars
<1> CollectInv'
  BY DEF Set, SetStart, Destroy, CloseFd, ClearFd, SkipClosed, AllClosed,
         SetName, OpenFd, OpenFails
<1>1. CASE \E i \in Interfaces : SetStart(i)
  BY <1>1 DEF SetStart, FdOwnership, LoopInv
<1>2. CASE Destroy  BY <1>2 DEF Destroy, FdOwnership, LoopInv
<1>3. CASE CloseFd
  <2>1. /\ setPc = "close" /\ setPc' = "clear" /\ setAt \in Metrics
        /\ setAt' = setAt /\ fd' = fd /\ fd[setAt] \in Fds
        /\ table' = [table EXCEPT ![fd[setAt]] = Free]
    BY <1>3 DEF CloseFd
  <2>2. TypeOK'  BY <1>3, <2>1 DEF CloseFd
  <2>3. FdOwnership'
    <3>1. \A m \in Metrics : m # setAt /\ fd[m] # NoFd => fd[m] # fd[setAt]
      BY <2>1 DEF FdOwnership
    <3> QED  BY <2>1, <3>1 DEF FdOwnership
  <2>4. LoopInv'  BY <1>3, <2>1 DEF CloseFd, LoopInv
  <2> QED  BY <2>2, <2>3, <2>4
<1>4. CASE ClearFd
  <2>1. /\ setPc = "clear" /\ setPc' = "close" /\ setAt \in Metrics
        /\ setAt' = setAt + 1 /\ table' = table
        /\ fd' = [fd EXCEPT ![setAt] = NoFd]
        /\ fd[setAt] \in Fds /\ table[fd[setAt]] \notin Statistics
    BY <1>4 DEF ClearFd, LoopInv
  <2>2. TypeOK'  BY <1>4, <2>1 DEF ClearFd
  <2>3. FdOwnership'  BY <2>1 DEF FdOwnership
  <2>4. LoopInv'  BY <1>4, <2>1 DEF ClearFd, LoopInv
  <2> QED  BY <2>2, <2>3, <2>4
<1>5. CASE SkipClosed  BY <1>5 DEF SkipClosed, FdOwnership, LoopInv
<1>6. CASE AllClosed  BY <1>6 DEF AllClosed, FdOwnership, LoopInv
<1>7. CASE SetName  BY <1>7 DEF SetName, FdOwnership, LoopInv
<1>8. CASE OpenFd
  <2>1. PICK f \in Fds :
          /\ LowestFree(f)
          /\ table' = [table EXCEPT ![f] = File(wanted, setAt)]
          /\ fd' = [fd EXCEPT ![setAt] = f]
    BY <1>8 DEF OpenFd
  <2>2. /\ setPc = "open" /\ setAt \in Metrics /\ wanted \in Interfaces
        /\ NextEntry /\ UNCHANGED <<interface, wanted, colVars, raced>>
        /\ table[f] = Free /\ fd[setAt] = NoFd /\ File(wanted, setAt) \in Statistics
        /\ File(wanted, setAt).metric = setAt
    BY <1>8, <2>1 DEF OpenFd, LoopInv, LowestFree, FreeFds
  <2>3. TypeOK'  BY <2>1, <2>2 DEF NextEntry
  <2>4. \A m \in Metrics : m # setAt /\ fd[m] # NoFd => fd[m] # f
    BY <2>2 DEF FdOwnership
  <2>5. FdOwnership'  BY <2>1, <2>2, <2>4 DEF FdOwnership, NextEntry
  <2>6. LoopInv'  BY <2>1, <2>2, <2>4 DEF LoopInv, NextEntry
  <2> QED  BY <2>3, <2>5, <2>6
<1>9. CASE OpenFails
  <2>1. /\ setPc = "open" /\ setAt \in Metrics /\ wanted \in Interfaces
        /\ fd[setAt] = NoFd /\ fd' = fd
        /\ NextEntry /\ UNCHANGED <<interface, wanted, table, colVars, raced>>
    BY <1>9 DEF OpenFails, LoopInv
  <2> QED  BY <2>1 DEF NextEntry, FdOwnership, LoopInv
<1> QED
  BY <1>1, <1>2, <1>3, <1>4, <1>5, <1>6, <1>7, <1>8, <1>9 DEF Set

\* collect() only reads the descriptors.
LEMMA DescriptorInvCollect == DescriptorInv /\ Collect => DescriptorInv'
<1> SUFFICES ASSUME DescriptorInv, Collect PROVE DescriptorInv'  OBVIOUS
<1> USE NetworkAssumption DEF DescriptorInv
<1>1. FdOwnership' /\ LoopInv'
  BY DEF FdOwnership, LoopInv, Collect, CollectStart, CollectFetch,
         CollectRead, CollectReadFails, CollectReturn, setVars
<1>2. ASSUME values' = <<>>  PROVE values' \in Seq(Statistics \cup {Other}) /\ Len(values') = 0
  BY <1>2
<1>3. TypeOK' /\ CollectInv'
  <2> USE DEF TypeOK, CollectInv, Nullopt, setVars
  <2>1. CASE CollectStart  BY <1>2, <2>1 DEF CollectStart
  <2>2. CASE CollectFetch
    <3>1. At \in Metrics /\ fd[At] \in Fds \cup {NoFd}
      BY <2>2 DEF CollectFetch, At, Metrics
    <3> QED  BY <1>2, <2>2, <3>1 DEF CollectFetch
  <2>3. CASE CollectRead
    <3>1. values' = Append(values, table[colFd]) /\ table[colFd] \in Statistics \cup {Other}
      BY <2>3 DEF CollectRead
    <3>2. values' \in Seq(Statistics \cup {Other}) /\ Len(values') = Len(values) + 1
      BY <3>1
    <3> QED  BY <2>3, <3>2 DEF CollectRead, At
  <2>4. CASE CollectReadFails \/ CollectReturn
    BY <1>2, <2>4 DEF CollectReadFails, CollectReturn
  <2> QED  BY <2>1, <2>2, <2>3, <2>4 DEF Collect
<1> QED  BY <1>1, <1>3

\* The other threads open free numbers and close their own.
LEMMA DescriptorInvOther ==
  DescriptorInv /\ (OtherOpens \/ OtherCloses) => DescriptorInv'
<1> SUFFICES ASSUME DescriptorInv, OtherOpens \/ OtherCloses PROVE DescriptorInv'
  OBVIOUS
<1> USE NetworkAssumption, FilesAssumption DEF DescriptorInv
<1>1. PICK f \in Fds : /\ table[f] \in {Free, Other}
                       /\ \/ table' = [table EXCEPT ![f] = Other]
                          \/ table' = [table EXCEPT ![f] = Free]
  BY DEF OtherOpens, OtherCloses, LowestFree, FreeFds
<1>2. UNCHANGED <<setVars, colVars, raced>>  BY DEF OtherOpens, OtherCloses
<1>3. TypeOK' /\ CollectInv'
  BY <1>1, <1>2 DEF TypeOK, CollectInv, setVars, colVars
<1>4. \A m \in Metrics : fd[m] # NoFd => fd[m] \in Fds
  BY DEF TypeOK
<1>5. \A g \in Fds : table'[g] \in Statistics <=> table[g] \in Statistics
  BY <1>1 DEF TypeOK
<1>6. \A g \in Fds : table[g] \in Statistics => table'[g] = table[g]
  BY <1>1 DEF TypeOK
<1>7. FdOwnership'
  BY <1>2, <1>4, <1>5, <1>6 DEF FdOwnership, setVars
<1>8. LoopInv'
  <2>1. setPc \in {"idle", "open"} =>
          \A m \in Metrics : fd[m] # NoFd => table[fd[m]] \in Statistics
    BY DEF FdOwnership
  <2> QED
    BY <1>2, <1>4, <1>5, <1>6, <2>1 DEF LoopInv, setVars
<1> QED  BY <1>3, <1>7, <1>8

\* The invariant about the descriptors is inductive.
LEMMA DescriptorInvNext == DescriptorInv /\ [Next]_vars => DescriptorInv'
<1>1. DescriptorInv /\ UNCHANGED vars => DescriptorInv'
  BY DEF DescriptorInv, TypeOK, FdOwnership, LoopInv, CollectInv, vars,
         setVars, colVars
<1> QED
  BY <1>1, DescriptorInvSet, DescriptorInvCollect, DescriptorInvOther DEF Next

\* The descriptors of the collector and the place setInterface() is at fit
\* together as DescriptorInv says, in every interleaving with collect().
THEOREM DescriptorInvariant == Spec => []DescriptorInv
BY DescriptorInvInit, DescriptorInvNext, PTL DEF Spec

\* The program counters of setInterface() and collect() and the descriptors they
\* hold agree with the table, whatever others open and close meanwhile.
THEOREM NetworkTypeCorrect == Spec => []TypeOK
<1>1. DescriptorInv => TypeOK  BY DEF DescriptorInv
<1> QED  BY <1>1, DescriptorInvariant, PTL

\* closeFds() and setInterface() close each descriptor they opened exactly
\* once and never one of another thread, however the numbers are reused.
THEOREM FdOwnershipHolds == Spec => []FdOwnership
<1>1. DescriptorInv => FdOwnership  BY DEF DescriptorInv
<1> QED  BY <1>1, DescriptorInvariant, PTL

\* The destructor leaves no statistics file open.
THEOREM NothingLeftOpenHolds == Spec => []NothingLeftOpen
<1>1. DescriptorInv => NothingLeftOpen
  <2> SUFFICES ASSUME DescriptorInv, setPc = "gone", NEW f \in Fds,
                      table[f] \in Statistics
               PROVE  FALSE
    BY DEF NothingLeftOpen
  <2>1. table[f].metric \in Metrics  BY FileIsStatistics
  <2>2. fd[table[f].metric] = f /\ fd[table[f].metric] = NoFd
    BY <2>1 DEF DescriptorInv, FdOwnership, LoopInv
  <2> QED  BY <2>2, NetworkAssumption DEF Fds
<1> QED  BY <1>1, DescriptorInvariant, PTL

-----------------------------------------------------------------------------
\* A collect() that no setInterface() overlaps finds setInterface() idle, and
\* what it has read so far is of the interface last asked for.
QuietInv ==
  ~raced /\ colPc # "idle" =>
    /\ setPc = "idle"
    /\ colPc = "pread" => colFd = fd[At] /\ fd[At] # NoFd
    /\ \A m \in 1 .. Len(values) : values[m] = File(wanted, m)

\* A collect() that no setInterface() overlaps fills its values in order.
LEMMA QuietInvNext ==
  DescriptorInv /\ QuietInv /\ [Next]_vars => QuietInv'
<1> SUFFICES ASSUME DescriptorInv, QuietInv, [Next]_vars,
                    ~raced', colPc' # "idle"
             PROVE  QuietInv'
  BY DEF QuietInv
<1> USE DEF setVars, colVars
<1>1. CASE UNCHANGED vars  BY <1>1 DEF vars, QuietInv, At
<1>2. CASE Set
  BY <1>2 DEF Set, SetStart, Destroy, CloseFd, ClearFd, SkipClosed, AllClosed,
              SetName, OpenFd, OpenFails, QuietInv
<1>3. CASE OtherOpens \/ OtherCloses
  BY <1>3 DEF OtherOpens, OtherCloses, QuietInv, At
<1>4. CASE CollectStart
  <2>1. values = <<>> /\ colPc' = "fetch" /\ values' = values /\ setPc' = "idle"
    BY <1>4 DEF CollectStart, Nullopt, DescriptorInv, CollectInv
  <2> QED  BY <2>1 DEF QuietInv
<1>5. CASE CollectFetch
  BY <1>5 DEF CollectFetch, Nullopt, QuietInv, At
<1>6. CASE CollectRead
  <2>1. /\ values \in Seq(Statistics \cup {Other}) /\ values' = Append(values, table[colFd])
        /\ colPc = "pread" /\ setPc = "idle"
        /\ colFd = fd[At] /\ fd[At] # NoFd
        /\ UNCHANGED <<wanted, setPc>> /\ colPc' # "pread"
    BY <1>6 DEF CollectRead, QuietInv, DescriptorInv, TypeOK
  <2>2. At \in Metrics /\ At = Len(values) + 1
    BY <2>1, NetworkAssumption
       DEF At, Metrics, DescriptorInv, TypeOK, CollectInv
  <2>3. table[colFd] = File(wanted, At)
    BY <2>1, <2>2 DEF DescriptorInv, LoopInv
  <2>4. \A m \in 1 .. Len(values') : values'[m] = File(wanted, m)
    BY <1>6, <2>1, <2>2, <2>3 DEF QuietInv, CollectRead
  <2> QED  BY <2>1, <2>4 DEF QuietInv
<1>7. CASE CollectReadFails \/ CollectReturn
  BY <1>7 DEF CollectReadFails, CollectReturn, Nullopt
<1> QED
  BY <1>1, <1>2, <1>3, <1>4, <1>5, <1>6, <1>7 DEF Next, Collect

\* A snapshot taken while setInterface() is idle has every metric in its own
\* field, from the interface last asked for.
THEOREM QuietSnapshotConsistentHolds == Spec => []QuietSnapshotConsistent
<1>1. Init => QuietInv  BY DEF Init, QuietInv
<1>2. DescriptorInv /\ QuietInv => QuietSnapshotConsistent
  <2> SUFFICES ASSUME DescriptorInv, QuietInv, colPc = "return", ~raced
               PROVE  values = Snapshot(wanted)
    BY DEF QuietSnapshotConsistent
  <2>1. values \in Seq(Statistics \cup {Other}) /\ Len(values) = NumMetrics
    BY DEF DescriptorInv, TypeOK, CollectInv
  <2>2. \A m \in Metrics : values[m] = File(wanted, m)
    BY <2>1 DEF QuietInv, Metrics
  <2>3. values = [m \in 1 .. Len(values) |-> values[m]]  BY <2>1
  <2> QED  BY <2>1, <2>2, <2>3 DEF Snapshot, Metrics
<1> QED
  BY <1>1, <1>2, QuietInvNext, DescriptorInvInit, DescriptorInvNext, PTL DEF Spec
=============================================================================
