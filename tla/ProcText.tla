------------------------------ MODULE ProcText ------------------------------
(***************************************************************************)
(* MemoryCollector::collect(), and the counters of CpuCollector::collect():*)
(* one pread into a buffer that is a member, findLinePrefix and parseNext. *)
(* A text is a sequence of cells: the key a line begins with, digits, the  *)
(* blank, the end of the line.  A number is the sequence of its digits,    *)
(* <<>> when the field keeps its 0.                                        *)
(***************************************************************************)
EXTENDS Naturals, Sequences, FiniteSets, FiniteSetsExt

CONSTANTS
  Keys,      \* the needles
  Digits,
  Blank, NL,
  Capacity,  \* sizeof(buf_) - 1
  NoStats    \* std::nullopt

ASSUME CapacityAssumption == Capacity \in Nat

\* The position behind the needle at the beginning of a line; 0 for nullptr.
FindLinePrefix(buf, len, key) ==
  LET I == {i \in 1 .. len : buf[i] = key /\ (i = 1 \/ buf[i - 1] = NL)}
  IN  IF I = {} THEN 0 ELSE Min(I) + 1

\* Leading blanks are skipped, then digits are taken up to the end.
ParseNext(buf, len, p) ==
  LET first == Min({i \in p .. len + 1 : i > len \/ buf[i] # Blank})
      last == Max({i \in first - 1 .. len : \A j \in first .. i : buf[j] \in Digits})
  IN  SubSeq(buf, first, last)

\* Mutant: the end of the buffer is taken for the end of what was read.
ReadFieldToEnd(buf, len, key) ==
  LET p == FindLinePrefix(buf, Len(buf), key)
  IN  IF p = 0 THEN <<>> ELSE ParseNext(buf, Len(buf), p)

ReadField(buf, len, key) ==
  LET p == FindLinePrefix(buf, len, key)
  IN  IF p = 0 THEN <<>> ELSE ParseNext(buf, len, p)

\* pread overwrites the beginning of what an earlier call has left.
Buffer(old, text) ==
  LET n == Min({Len(text), Capacity})
  IN  SubSeq(text, 1, n) \o SubSeq(old, n + 1, Len(old))

CollectText(old, text) ==
  LET n == Min({Len(text), Capacity})
  IN  IF n = 0 THEN NoStats
      ELSE [key \in Keys |-> ReadField(Buffer(old, text), n, key)]
=============================================================================
