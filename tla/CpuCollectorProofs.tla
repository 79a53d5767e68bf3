------------------------- MODULE CpuCollectorProofs -------------------------
(* Proofs about CpuCollector for every size of its counters.               *)
EXTENDS CpuCollector, TLAPS

(* The difference of two uint64_t is one, and exact when it does not wrap. *)
LEMMA MinusWraps ==
  ASSUME NEW a \in UInt64, NEW b \in UInt64
  PROVE  /\ Minus(a, b) \in UInt64
         /\ b <= a => Minus(a, b) = a - b
BY CpuAssumption DEF Minus, UInt64

\* The same for a sum.
LEMMA PlusWraps ==
  ASSUME NEW a \in UInt64, NEW b \in UInt64
  PROVE  /\ Plus(a, b) \in UInt64
         /\ a + b < Modulus => Plus(a, b) = a + b
BY CpuAssumption DEF Plus, UInt64

(* What passes between two samples adds up, with wrapping at every step.   *)
LEMMA PlusMinus ==
  ASSUME NEW a \in UInt64, NEW r \in UInt64, NEW p \in UInt64, NEW n \in UInt64,
         Plus(a, r) = p
  PROVE  Plus(a, Plus(r, Minus(n, p))) = n
BY CpuAssumption DEF Plus, Minus, UInt64

(* The counters and their sums are uint64_t values.                        *)
LEMMA SumsFit ==
  /\ Jiffies \subseteq UInt64
  /\ 0 .. 2 * MaxJiffies \subseteq UInt64
  /\ \A a, b \in Jiffies : a + b \in 0 .. 2 * MaxJiffies
  /\ 0 \in Jiffies /\ 0 \in 0 .. 2 * MaxJiffies /\ 0 \in UInt64
BY CpuAssumption DEF Jiffies, UInt64

(* The usage of a new sample is made of two uint64_t.                      *)
LEMMA NewUsageType ==
  ASSUME CpuTypeOK
  PROVE  NewUsage \in [idle : UInt64, total : UInt64]
<1>1. /\ busy + idle \in UInt64 /\ prevTotal \in UInt64
      /\ idle \in UInt64 /\ prevIdle \in UInt64
  BY SumsFit DEF CpuTypeOK
<1>2. /\ Minus(busy + idle, prevTotal) \in UInt64
      /\ Minus(idle, prevIdle) \in UInt64
  BY <1>1, MinusWraps
<1> QED
  BY <1>2, SumsFit DEF NewUsage, Nothing

(* Every variable keeps its type, whatever iowait does: differences that   *)
(* wrap stay uint64_t values.                                              *)
THEOREM TypeCorrect == CpuSpec => []CpuTypeOK
<1> DEFINE Flags == lowered \in BOOLEAN /\ spoilt \in BOOLEAN
           Counts == /\ busy \in Jiffies /\ idle \in Jiffies /\ prevIdle \in Jiffies
                     /\ prevTotal \in 0 .. 2 * MaxJiffies
                     /\ usage \in [idle : UInt64, total : UInt64]
                     /\ base \in 0 .. 2 * MaxJiffies
                     /\ reported \in UInt64
<1>0. CpuTypeOK <=> Flags /\ Counts
  BY Zenon DEF CpuTypeOK
<1>1. CpuInit => CpuTypeOK
  <2>1. CpuInit => Flags
    BY Zenon DEF CpuInit
  <2>2. CpuInit => Counts
    BY SumsFit DEF CpuInit, Nothing
  <2> QED
    BY <1>0, <2>1, <2>2
<1>2. CpuTypeOK /\ [CpuNext]_cpuVars => CpuTypeOK'
  <2> SUFFICES ASSUME CpuTypeOK, [CpuNext]_cpuVars PROVE CpuTypeOK'
    OBVIOUS
  <2>0. Flags'
    BY Zenon DEF CpuTypeOK, CpuNext, Work, Rest, LowerIowait, CollectCpu, CollectCpuFails, cpuVars
  <2> SUFFICES Counts'
    BY <2>0 DEF CpuTypeOK
  <2>1. CASE Work
    BY <2>1, CpuAssumption DEF Work, CpuTypeOK, Jiffies
  <2>2. CASE Rest
    BY <2>2, CpuAssumption DEF Rest, CpuTypeOK, Jiffies
  <2>3. CASE LowerIowait
    BY <2>3, CpuAssumption DEF LowerIowait, CpuTypeOK, Jiffies
  <2>4. CASE CollectCpu
    <3>1. /\ busy + idle \in 0 .. 2 * MaxJiffies
          /\ NewUsage.idle \in UInt64 /\ NewUsage.total \in UInt64
      BY SumsFit, NewUsageType DEF CpuTypeOK
    <3>2. Plus(reported, NewUsage.total) \in UInt64
      BY <3>1, PlusWraps DEF CpuTypeOK
    <3> QED
      BY <2>4, <3>1, <3>2, NewUsageType, SumsFit DEF CollectCpu, CpuTypeOK, Nothing
  <2>5. CASE CollectCpuFails
    BY <2>5, SumsFit DEF CollectCpuFails, CpuTypeOK, Nothing
  <2>6. CASE UNCHANGED cpuVars
    BY <2>6 DEF cpuVars, CpuTypeOK
  <2> QED
    BY <2>1, <2>2, <2>3, <2>4, <2>5, <2>6 DEF CpuNext
<1> QED
  BY <1>1, <1>2, PTL DEF CpuSpec

(* The lengths of the intervals reported by collect() add up to the time   *)
(* from the first sample to the last, also when reads fail in between and  *)
(* when iowait is taken back.                                              *)
THEOREM TotalsTileHolds == CpuSpec => []TotalsTile
<1>1. CpuInit => TotalsTile
  BY CpuAssumption DEF CpuInit, TotalsTile, Plus, Nothing
<1>2. CpuTypeOK /\ TotalsTile /\ [CpuNext]_cpuVars => TotalsTile'
  <2> SUFFICES ASSUME CpuTypeOK, TotalsTile, [CpuNext]_cpuVars PROVE TotalsTile'
    OBVIOUS
  <2>1. CASE CollectCpu
    <3> DEFINE total == busy + idle
    <3>1. /\ total \in UInt64 /\ prevTotal \in UInt64
          /\ base \in UInt64 /\ reported \in UInt64
      BY SumsFit DEF CpuTypeOK
    <3>2. CASE prevTotal > 0
      <4>1. NewUsage.total = Minus(total, prevTotal)
        <5>1. Minus(total, prevTotal) \in UInt64
          BY <3>1, MinusWraps
        <5> QED
          BY <3>2, <5>1 DEF NewUsage, Nothing, UInt64
      <4>2. Plus(base, Plus(reported, NewUsage.total)) = total
        BY <3>1, <4>1, PlusMinus DEF TotalsTile
      <4> QED
        BY <2>1, <3>2, <4>2 DEF CollectCpu, TotalsTile
    <3>3. CASE ~(prevTotal > 0)
      <4>1. Plus(total, 0) = total
        BY <3>1, CpuAssumption DEF Plus, UInt64
      <4> QED
        BY <2>1, <3>3, <4>1 DEF CollectCpu, TotalsTile, Nothing
    <3> QED
      BY <3>2, <3>3
  <2>2. CASE Work \/ Rest \/ LowerIowait \/ CollectCpuFails \/ UNCHANGED cpuVars
    BY <2>2 DEF Work, Rest, LowerIowait, CollectCpuFails, cpuVars, TotalsTile
  <2> QED
    BY <2>1, <2>2 DEF CpuNext
<1> QED
  BY <1>1, <1>2, TypeCorrect, PTL DEF CpuSpec

(* While iowait is not lowered, no counter is below its last sample; this  *)
(* is what makes the differences exact.                                    *)
Grown ==
  ~lowered => /\ prevIdle <= idle
              /\ prevTotal - prevIdle <= busy
              /\ prevIdle <= prevTotal

(* Differences from the last sample do not wrap when no counter is below it.*)
LEMMA UsageExact ==
  ASSUME CpuTypeOK, Grown, ~lowered
  PROVE  /\ Minus(idle, prevIdle) = idle - prevIdle
         /\ Minus(busy + idle, prevTotal) = (busy + idle) - prevTotal
<1>1. /\ busy + idle \in UInt64 /\ prevTotal \in UInt64
      /\ idle \in UInt64 /\ prevIdle \in UInt64
  BY SumsFit DEF CpuTypeOK
<1>2. prevTotal <= busy + idle
  BY CpuAssumption DEF CpuTypeOK, Grown, Jiffies
<1>3. Minus(idle, prevIdle) = idle - prevIdle
  BY <1>1, MinusWraps DEF Grown
<1>4. Minus(busy + idle, prevTotal) = (busy + idle) - prevTotal
  BY <1>1, <1>2, MinusWraps
<1> QED
  BY <1>3, <1>4

(* Grown is inductive: a sample ends the effect of a lowered iowait.       *)
LEMMA GrownInvariant == CpuSpec => []Grown
<1>1. CpuInit => Grown
  BY CpuAssumption DEF CpuInit, Grown, Jiffies
<1>2. CpuTypeOK /\ Grown /\ [CpuNext]_cpuVars => Grown'
  BY CpuAssumption
     DEF CpuTypeOK, Grown, CpuNext, cpuVars, Work, Rest, LowerIowait, CollectCpu,
         CollectCpuFails, Jiffies
<1> QED
  BY <1>1, <1>2, TypeCorrect, PTL DEF CpuSpec

(* usage_percent is between 0 and 100 unless iowait was lowered in the     *)
(* very interval it is about: collect() never reports more idle time than  *)
(* has passed, and recovers with the next sample.                          *)
THEOREM UsageIsPercentageHolds == CpuSpec => []UsageIsPercentage
<1>1. CpuInit => UsageIsPercentage
  BY DEF CpuInit, UsageIsPercentage, Nothing
<1>2. CpuTypeOK /\ Grown /\ UsageIsPercentage /\ [CpuNext]_cpuVars => UsageIsPercentage'
  <2> SUFFICES ASSUME CpuTypeOK, Grown, UsageIsPercentage, [CpuNext]_cpuVars
               PROVE  UsageIsPercentage'
    OBVIOUS
  <2>1. CASE CollectCpu
    <3> SUFFICES ASSUME ~lowered PROVE NewUsage.idle <= NewUsage.total
      BY <2>1 DEF CollectCpu, UsageIsPercentage
    <3>1. idle - prevIdle <= (busy + idle) - prevTotal
      BY CpuAssumption DEF CpuTypeOK, Grown, Jiffies
    <3> QED
      BY <3>1, UsageExact DEF NewUsage, Nothing
  <2>2. CASE CollectCpuFails
    BY <2>2 DEF CollectCpuFails, UsageIsPercentage, Nothing
  <2>3. CASE Work \/ Rest \/ LowerIowait \/ UNCHANGED cpuVars
    BY <2>3 DEF Work, Rest, LowerIowait, cpuVars, UsageIsPercentage
  <2> QED
    BY <2>1, <2>2, <2>3 DEF CpuNext
<1> QED
  BY <1>1, <1>2, TypeCorrect, GrownInvariant, PTL DEF CpuSpec
=============================================================================
