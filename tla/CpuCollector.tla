---------------------------- MODULE CpuCollector ----------------------------
(***************************************************************************)
(* CpuCollector::collect(): usage_percent from the difference of two reads *)
(* of /proc/stat.  The eight fields of the "cpu" line are abstracted to the*)
(* two sums the code makes of them: idle + iowait, and the other six.  The *)
(* kernel may lower iowait (proc(5)), the other fields only grow.          *)
(***************************************************************************)
EXTENDS Integers

CONSTANTS
  Modulus,     \* 2^64: the differences are of type uint64_t
  MaxJiffies   \* bound: the value of each sum

ASSUME CpuAssumption ==
  /\ Modulus \in Nat /\ MaxJiffies \in Nat
  /\ 2 * MaxJiffies < Modulus

VARIABLES
  busy, idle,  \* the counters of the kernel
  prevIdle,    \* prevIdle_
  prevTotal,   \* prevTotal_
  usage,       \* usage_percent is 100 * (1 - idle / total), or 0 if total = 0
  lowered,     \* history: iowait was lowered since the last sample,
  spoilt,      \* ... and in the interval of the last usage
  base,        \* history: the counters at the first sample
  reported     \* history: the sums of what all samples have reported since

cpuVars == <<busy, idle, prevIdle, prevTotal, usage, lowered, spoilt, base, reported>>

Jiffies == 0 .. MaxJiffies
UInt64 == 0 .. Modulus - 1
Nothing == [idle |-> 0, total |-> 0]

CpuTypeOK ==
  /\ busy \in Jiffies
  /\ idle \in Jiffies
  /\ prevIdle \in Jiffies
  /\ prevTotal \in 0 .. 2 * MaxJiffies
  /\ usage \in [idle : UInt64, total : UInt64]
  /\ lowered \in BOOLEAN
  /\ spoilt \in BOOLEAN
  /\ base \in 0 .. 2 * MaxJiffies
  /\ reported \in UInt64

\* The machine has been up for a while when the agent starts.
CpuInit ==
  /\ busy \in Jiffies
  /\ idle \in Jiffies
  /\ prevIdle = 0
  /\ prevTotal = 0
  /\ usage = Nothing
  /\ lowered = FALSE
  /\ spoilt = FALSE
  /\ base = 0
  /\ reported = 0

Work ==
  /\ busy < MaxJiffies
  /\ busy' = busy + 1
  /\ UNCHANGED <<idle, prevIdle, prevTotal, usage, lowered, spoilt, base, reported>>

Rest ==
  /\ idle < MaxJiffies
  /\ idle' = idle + 1
  /\ UNCHANGED <<busy, prevIdle, prevTotal, usage, lowered, spoilt, base, reported>>

LowerIowait ==
  /\ idle > 0
  /\ idle' = idle - 1
  /\ lowered' = TRUE
  /\ UNCHANGED <<busy, prevIdle, prevTotal, usage, spoilt, base, reported>>

\* Mutant: signed differences.
MinusSigned(a, b) == a - b

\* a - b and a + b of two uint64_t.
Minus(a, b) == IF b <= a THEN a - b ELSE Modulus - (b - a)

Plus(a, b) == IF a + b < Modulus THEN a + b ELSE a + b - Modulus

\* The previous sample is known by prevTotal_ > 0.
NewUsage ==
  LET total == Minus(busy + idle, prevTotal)
  IN  IF prevTotal > 0 /\ total > 0
        THEN [idle |-> Minus(idle, prevIdle), total |-> total]
        ELSE Nothing

\* Mutant: prevIdle_ keeps the value of the first sample.
CollectCpuIdleOnce ==
  /\ usage' = NewUsage
  /\ prevIdle' = IF prevTotal > 0 THEN prevIdle ELSE idle
  /\ prevTotal' = busy + idle
  /\ spoilt' = lowered
  /\ lowered' = FALSE
  /\ IF prevTotal > 0
       THEN reported' = Plus(reported, NewUsage.total) /\ UNCHANGED base
       ELSE reported' = 0 /\ base' = busy + idle
  /\ UNCHANGED <<busy, idle>>

CollectCpu ==
  /\ usage' = NewUsage
  /\ prevIdle' = idle
  /\ prevTotal' = busy + idle
  /\ spoilt' = lowered
  /\ lowered' = FALSE
  /\ IF prevTotal > 0
       THEN reported' = Plus(reported, NewUsage.total) /\ UNCHANGED base
       ELSE reported' = 0 /\ base' = busy + idle
  /\ UNCHANGED <<busy, idle>>

\* Mutant: the sample is kept for the next difference, but not reported.
CollectCpuFailsMoving ==
  /\ usage' = Nothing
  /\ prevIdle' = idle
  /\ prevTotal' = busy + idle
  /\ spoilt' = FALSE
  /\ lowered' = FALSE
  /\ UNCHANGED <<busy, idle, base, reported>>

\* /proc/stat is not open or cannot be read, or a field of the "cpu" line is
\* no number: there is no usage, and the last sample is kept.
CollectCpuFails ==
  /\ usage' = Nothing
  /\ spoilt' = FALSE
  /\ UNCHANGED <<busy, idle, prevIdle, prevTotal, lowered, base, reported>>

CpuNext == Work \/ Rest \/ LowerIowait \/ CollectCpu \/ CollectCpuFails

CpuSpec == CpuInit /\ [][CpuNext]_cpuVars

-----------------------------------------------------------------------------
(* Properties.                                                             *)

\* "CPU usage percentage computed from the previous sample": between 0 and
\* 100, since no more time was idle than has passed.  A sample before which
\* iowait was lowered is excepted (its unsigned difference may wrap, and the
\* percentage is then a huge negative number); the one after it is not.
UsageIsPercentage == ~spoilt => usage.idle <= usage.total

\* The intervals the usages refer to follow each other without a gap and
\* without an overlap, from the first sample to the last one, failed reads
\* included: their lengths add up to the time that has passed.
TotalsTile == Plus(base, reported) = prevTotal
=============================================================================
