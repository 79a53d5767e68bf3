--------------------- MODULE PtpTopologyCollectorProofs ---------------------
(***************************************************************************)
(* Theorems about PtpTopologyCollector, for any number of ports, masters   *)
(* and changes.  What parse() makes of the outputs of pmc comes from       *)
(* ParserProofs.                                                           *)
(***************************************************************************)
EXTENDS PtpTopologyCollector, ParserProofs

-----------------------------------------------------------------------------
(* The outputs of pmc and what parse() makes of them                       *)

\* Sequences with the same elements are the same.
LEMMA SameElements ==
  ASSUME NEW L, NEW s \in Seq(L), NEW t \in Seq(L), Len(s) = Len(t),
         \A k \in 1 .. Len(s) : s[k] = t[k]
  PROVE  s = t
OBVIOUS

\* A sequence with two more elements.
LEMMA TwoMore ==
  ASSUME NEW L, NEW s \in Seq(L), NEW x \in L, NEW y \in L
  PROVE  /\ s \o <<x, y>> \in Seq(L) /\ Len(s \o <<x, y>>) = Len(s) + 2
         /\ \A k \in 1 .. Len(s) : (s \o <<x, y>>)[k] = s[k]
         /\ (s \o <<x, y>>)[Len(s) + 1] = x /\ (s \o <<x, y>>)[Len(s) + 2] = y
OBVIOUS

\* seqs is a sequence of n pairs from A and B; F has their elements in turn.
ArePairs(seqs, n, L, A, B) ==
  /\ A \in [1 .. n -> L] /\ B \in [1 .. n -> L]
  /\ seqs \in [1 .. n -> Seq(L)]
  /\ \A p \in 1 .. n : seqs[p] = <<A[p], B[p]>>

Alternate(F, n, A, B) ==
  /\ DOMAIN F = 1 .. (2 * n)
  /\ \A p \in 1 .. n : F[2 * p - 1] = A[p] /\ F[2 * p] = B[p]

\* The concatenation of pairs.
LEMMA FlattenPairs ==
  ASSUME NEW n \in Nat, NEW L, NEW A, NEW B, NEW seqs, ArePairs(seqs, n, L, A, B)
  PROVE  Alternate(FlattenSeq(seqs), n, A, B)
<1>0. /\ A \in [1 .. n -> L] /\ B \in [1 .. n -> L]
      /\ seqs \in [1 .. n -> Seq(L)]
      /\ \A p \in 1 .. n : seqs[p] = <<A[p], B[p]>>
  BY DEF ArePairs
<1> DEFINE line == [k \in 1 .. (2 * n) |-> IF k % 2 = 1 THEN A[(k + 1) \div 2] ELSE B[k \div 2]]
           W0(i) == [k \in 1 .. (2 * i) |-> line[k]]
           E(h) == h = [i \in 1 .. n |-> IF i = 1 THEN seqs[i] ELSE h[i - 1] \o seqs[i]]
           iter == CHOOSE h : E(h)
           w == [i \in 1 .. n |-> W0(i)]
<1>1. seqs \in Seq(Seq(L)) /\ Len(seqs) = n
  BY <1>0
<1>2. line \in [1 .. (2 * n) -> L]
  <2> SUFFICES ASSUME NEW k \in 1 .. (2 * n) PROVE line[k] \in L  OBVIOUS
  <2>1. CASE k % 2 = 1
    <3>1. (k + 1) \div 2 \in 1 .. n  BY <2>1
    <3> QED  BY <1>0, <2>1, <3>1
  <2>2. CASE k % 2 # 1
    <3>1. k \div 2 \in 1 .. n  BY <2>2
    <3> QED  BY <1>0, <2>2, <3>1
  <2> QED  BY <2>1, <2>2
<1>3. \A p \in 1 .. n : line[2 * p - 1] = A[p] /\ line[2 * p] = B[p]
  <2> SUFFICES ASSUME NEW p \in 1 .. n PROVE line[2 * p - 1] = A[p] /\ line[2 * p] = B[p]
    OBVIOUS
  <2>1. /\ 2 * p - 1 \in 1 .. (2 * n) /\ (2 * p - 1) % 2 = 1 /\ ((2 * p - 1) + 1) \div 2 = p
        /\ 2 * p \in 1 .. (2 * n) /\ (2 * p) % 2 # 1 /\ (2 * p) \div 2 = p
    OBVIOUS
  <2> QED  BY <2>1
<1> HIDE DEF line
<1>4. ASSUME NEW i \in 2 .. n PROVE W0(i) = W0(i - 1) \o seqs[i]
  <2>1. seqs[i] = <<line[2 * i - 1], line[2 * i]>>  BY <1>0, <1>3
  <2>2. /\ W0(i - 1) \in Seq(L) /\ Len(W0(i - 1)) = 2 * i - 2
        /\ W0(i) \in Seq(L) /\ Len(W0(i)) = 2 * i
    BY <1>2
  <2>3. /\ line[2 * i - 1] \in L /\ line[2 * i] \in L
        /\ \A k \in 1 .. (2 * i - 2) : W0(i - 1)[k] = line[k]
        /\ \A k \in 1 .. (2 * i) : W0(i)[k] = line[k]
    BY <1>2
  <2> DEFINE s == W0(i - 1)
             u == W0(i)
             x == line[2 * i - 1]
             y == line[2 * i]
             m == 2 * i - 2
  <2>4. s \in Seq(L) /\ u \in Seq(L) /\ Len(s) = m /\ Len(u) = m + 2  BY <2>2
  <2>5. m \in Nat /\ m + 1 = 2 * i - 1 /\ m + 2 = 2 * i  OBVIOUS
  <2>6. /\ \A k \in 1 .. m : u[k] = s[k]
        /\ u[m + 1] = x /\ u[m + 2] = y /\ x \in L /\ y \in L
    BY <2>3, <2>5
  <2> HIDE DEF s, u, x, y, m
  <2>7. u = s \o <<x, y>>
    <3>1. /\ s \o <<x, y>> \in Seq(L) /\ Len(s \o <<x, y>>) = m + 2
          /\ \A k \in 1 .. m : (s \o <<x, y>>)[k] = s[k]
          /\ (s \o <<x, y>>)[m + 1] = x /\ (s \o <<x, y>>)[m + 2] = y
      BY <2>4, <2>6, TwoMore
    <3>2. \A k \in 1 .. (m + 2) : k \in 1 .. m \/ k = m + 1 \/ k = m + 2  BY <2>5
    <3>3. \A k \in 1 .. (m + 2) : u[k] = (s \o <<x, y>>)[k]  BY <2>6, <3>1, <3>2
    <3> HIDE DEF s, u
    <3> QED  BY <2>4, <3>1, <3>3, SameElements
  <2> QED  BY <2>1, <2>7 DEF s, u, x, y
<1>5. n >= 1 => W0(1) = seqs[1]
  <2> SUFFICES ASSUME n >= 1 PROVE W0(1) = seqs[1]  OBVIOUS
  <2>1. seqs[1] = <<line[1], line[2]>>  BY <1>0, <1>3
  <2>2. W0(1) = <<line[1], line[2]>>  OBVIOUS
  <2> QED  BY <2>1, <2>2
<1> HIDE DEF W0
<1>6. E(w)
  <2>1. \A i \in 1 .. n :
          w[i] = IF i = 1 THEN seqs[i] ELSE w[i - 1] \o seqs[i]
    <3> SUFFICES ASSUME NEW i \in 1 .. n
                 PROVE  w[i] = IF i = 1 THEN seqs[i] ELSE w[i - 1] \o seqs[i]
      OBVIOUS
    <3>1. CASE i = 1  BY <1>5, <3>1
    <3>2. CASE i # 1
      <4>1. i \in 2 .. n /\ i - 1 \in 1 .. n  BY <3>2
      <4> QED  BY <1>4, <3>2, <4>1
    <3> QED  BY <3>1, <3>2
  <2>2. w = [i \in 1 .. n |-> w[i]]  OBVIOUS
  <2> HIDE DEF w
  <2> QED  BY <2>1, <2>2
<1>7. E(iter)  BY <1>6
<1>8. FlattenSeq(seqs) = IF n = 0 THEN seqs ELSE iter[n]
  BY <1>1 DEF FlattenSeq
<1> HIDE DEF iter
<1>9. n # 0 => iter[n] = W0(n)
  <2> DEFINE H == {i \in 0 .. n : i # 0 => iter[i] = W0(i)}
  <2>1. 0 \in H  OBVIOUS
  <2>2. ASSUME NEW i \in 0 .. (n - 1), i \in H PROVE i + 1 \in H
    <3>1. i + 1 \in 1 .. n /\ i + 1 \in 0 .. n /\ (i + 1) - 1 = i  OBVIOUS
    <3>2. CASE i = 0
      <4>1. iter[1] = seqs[1] /\ n >= 1 /\ i + 1 = 1  BY <1>7, <3>1, <3>2
      <4> QED  BY <1>5, <3>1, <4>1
    <3>3. CASE i # 0
      <4>1. i + 1 # 1 /\ i + 1 \in 2 .. n  BY <3>3
      <4>2. iter[i + 1] = iter[i] \o seqs[i + 1]  BY <1>7, <3>1, <4>1
      <4>3. W0(i + 1) = W0(i) \o seqs[i + 1]  BY <1>4, <3>1, <4>1
      <4>4. iter[i] = W0(i)  BY <2>2, <3>3
      <4> QED  BY <3>1, <4>2, <4>3, <4>4
    <3> QED  BY <3>2, <3>3
  <2> HIDE DEF H
  <2>3. n \in 0 .. n  OBVIOUS
  <2>4. n \in H  BY <2>1, <2>2, <2>3, Induction
  <2> QED  BY <2>4 DEF H
<1>10. CASE n = 0
  <2>1. FlattenSeq(seqs) = seqs  BY <1>8, <1>10
  <2>2. DOMAIN seqs = 1 .. (2 * n)  BY <1>0, <1>10
  <2> QED  BY <1>10, <2>1, <2>2 DEF Alternate
<1>11. CASE n # 0
  <2>1. FlattenSeq(seqs) = W0(n)  BY <1>8, <1>9, <1>11
  <2>2. \A p \in 1 .. n : 2 * p - 1 \in 1 .. (2 * n) /\ 2 * p \in 1 .. (2 * n)  OBVIOUS
  <2>3. DOMAIN W0(n) = 1 .. (2 * n) /\ \A k \in 1 .. (2 * n) : W0(n)[k] = line[k]  BY DEF W0
  <2> QED  BY <1>3, <2>1, <2>2, <2>3 DEF Alternate
<1> QED  BY <1>10, <1>11

\* The clock of this node and of its master, as parse() finds them.
LEMMA AnsweredClocks ==
  ASSUME NEW s
  PROVE  /\ ParseDefault(Answer(s, "default")) = Local
         /\ ParseParent(Answer(s, "parent")).clock = s.master
<1>1. Max({1}) = 1
  <2>1. {1} \in SUBSET (0 .. 1) /\ {1} # {} /\ 1 \in Nat  OBVIOUS
  <2>2. Max({1}) \in {1}  BY <2>1, GreatestOfSet
  <2> QED  BY <2>2
<1>2. ParseDefault(Answer(s, "default")) = Local
  <2>1. PICK lines : lines = <<[key |-> "clockIdentity", clock |-> Local]>>  OBVIOUS
  <2>2. Answer(s, "default") = lines  BY <2>1 DEF Answer
  <2>3. IsOutput(lines, 1) /\ 1 \in Nat  BY <2>1 DEF IsOutput
  <2>4. ParseDefault(lines) = LocalOf(lines)  BY <2>3, LocalIsLast
  <2>5. {i \in DOMAIN lines : lines[i].key = "clockIdentity"} = {1}  BY <2>1
  <2>6. LocalOf(lines) = Local  BY <1>1, <2>1, <2>5 DEF LocalOf, LastOr
  <2> QED  BY <2>2, <2>4, <2>6
<1>3. ParseParent(Answer(s, "parent")).clock = s.master
  <2>1. PICK lines : lines = <<[key |-> "parentPortIdentity", port |-> 1, clock |-> s.master]>>
    OBVIOUS
  <2>2. Answer(s, "parent") = lines  BY <2>1 DEF Answer
  <2>3. IsOutput(lines, 1) /\ 1 \in Nat  BY <2>1 DEF IsOutput
  <2>4. ParseParent(lines) = ParentOf(lines)  BY <2>3, ParentIsLast
  <2>5. {i \in DOMAIN lines : lines[i].key = "parentPortIdentity"} = {1}  BY <2>1
  <2>6. ParentOf(lines).clock = s.master  BY <1>1, <2>1, <2>5 DEF ParentOf, LastOr
  <2> QED  BY <2>2, <2>4, <2>6
<1> QED  BY <1>2, <1>3

\* What the ports of a state are, and which of them is the child port.
PortsOf(s) == [p \in 1 .. NumPorts |-> [number |-> p, state |-> StateOf(s, p)]]
ChildOf(s) == IF s.slave THEN s.port ELSE 0

\* The output of the fourth command, line by line.
LEMMA PortLinesOf ==
  ASSUME NEW s
  PROVE  /\ DOMAIN Answer(s, "ports") = 1 .. (2 * NumPorts)
         /\ \A p \in 1 .. NumPorts :
              /\ Answer(s, "ports")[2 * p - 1] =
                   [key |-> "portIdentity", clock |-> Local, port |-> p]
              /\ Answer(s, "ports")[2 * p] = [key |-> "portState", state |-> StateOf(s, p)]
<1>1. PICK A, B :
        /\ A = [p \in 1 .. NumPorts |-> [key |-> "portIdentity", clock |-> Local, port |-> p]]
        /\ B = [p \in 1 .. NumPorts |-> [key |-> "portState", state |-> StateOf(s, p)]]
  OBVIOUS
<1>2. PICK L : L = {A[p] : p \in 1 .. NumPorts} \cup {B[p] : p \in 1 .. NumPorts}
  OBVIOUS
<1>3. PICK pairs : pairs = [p \in 1 .. NumPorts |->
                              <<[key |-> "portIdentity", clock |-> Local, port |-> p],
                                [key |-> "portState", state |-> StateOf(s, p)]>>]
  OBVIOUS
<1>4. NumPorts \in Nat /\ A \in [1 .. NumPorts -> L] /\ B \in [1 .. NumPorts -> L]
  BY <1>1, <1>2, TopologyAssumption
<1>5. ArePairs(pairs, NumPorts, L, A, B)
  <2>1. \A p \in 1 .. NumPorts : pairs[p] = <<A[p], B[p]>>  BY <1>1, <1>3
  <2>2. \A p \in 1 .. NumPorts : <<A[p], B[p]>> \in Seq(L)  BY <1>4
  <2>3. pairs = [p \in 1 .. NumPorts |-> pairs[p]]  BY <1>3
  <2>4. pairs \in [1 .. NumPorts -> Seq(L)]  BY <2>1, <2>2, <2>3
  <2> QED  BY <1>4, <2>1, <2>4 DEF ArePairs
<1>6. Alternate(FlattenSeq(pairs), NumPorts, A, B)  BY <1>4, <1>5, FlattenPairs
<1>7. Answer(s, "ports") = FlattenSeq(pairs)  BY <1>3 DEF Answer
<1> QED  BY <1>1, <1>6, <1>7 DEF Alternate

\* Every line is of a port, the odd ones begin one.
LEMMA EveryLine ==
  ASSUME NEW n \in Nat, NEW k \in 1 .. (2 * n)
  PROVE  \E p \in 1 .. n : k = 2 * p - 1 \/ k = 2 * p
<1>1. CASE k % 2 = 1
  <2>1. (k + 1) \div 2 \in 1 .. n /\ k = 2 * ((k + 1) \div 2) - 1  BY <1>1
  <2> QED  BY <2>1
<1>2. CASE k % 2 # 1
  <2>1. k \div 2 \in 1 .. n /\ k = 2 * (k \div 2)  BY <1>2
  <2> QED  BY <2>1
<1> QED  BY <1>1, <1>2

\* One number is the least and the greatest of its set.
LEMMA OneNumber ==
  ASSUME NEW m \in Nat
  PROVE  Max({m}) = m /\ Min({m}) = m
<1>1. {m} \in SUBSET (0 .. m) /\ {m} \in SUBSET Nat /\ {m} # {}  OBVIOUS
<1>2. Max({m}) \in {m} /\ Min({m}) \in {m}  BY <1>1, GreatestOfSet, LeastOfSet
<1> QED  BY <1>2

\* The ports that parse() lists are those of the state that was asked for, and
\* the child port is its SLAVE port.
LEMMA AnsweredPorts ==
  ASSUME NEW s \in PtpStates
  PROVE  /\ ParsePorts(Answer(s, "ports")) = PortsOf(s)
         /\ ChildPort(ParsePorts(Answer(s, "ports"))) = ChildOf(s)
<1>1. PICK lines, n : lines = Answer(s, "ports") /\ n = NumPorts  OBVIOUS
<1>2. /\ n \in Nat /\ 2 * n \in Nat /\ DOMAIN lines = 1 .. (2 * n)
      /\ \A p \in 1 .. n : /\ lines[2 * p - 1].key = "portIdentity"
                           /\ lines[2 * p - 1].port = p
                           /\ lines[2 * p].key = "portState"
                           /\ lines[2 * p].state = StateOf(s, p)
  <2>1. n \in Nat  BY <1>1, TopologyAssumption
  <2>2. DOMAIN lines = 1 .. (2 * n)  BY <1>1, PortLinesOf
  <2>3. ASSUME NEW p \in 1 .. n
        PROVE  /\ lines[2 * p - 1].key = "portIdentity"
               /\ lines[2 * p - 1].port = p
               /\ lines[2 * p].key = "portState"
               /\ lines[2 * p].state = StateOf(s, p)
    <3>1. PICK x, y : /\ x = lines[2 * p - 1] /\ y = lines[2 * p]
                      /\ x = [key |-> "portIdentity", clock |-> Local, port |-> p]
                      /\ y = [key |-> "portState", state |-> StateOf(s, p)]
      BY <1>1, PortLinesOf
    <3> QED  BY <3>1
  <2> QED  BY <2>1, <2>2, <2>3
<1>3. ASSUME NEW k
      PROVE  k \in Identities(lines) <=> \E p \in 1 .. n : k = 2 * p - 1
  <2>1. ASSUME k \in Identities(lines) PROVE \E p \in 1 .. n : k = 2 * p - 1
    <3>1. k \in 1 .. (2 * n) /\ lines[k].key = "portIdentity"  BY <1>2, <2>1 DEF Identities
    <3>2. PICK p \in 1 .. n : k = 2 * p - 1 \/ k = 2 * p  BY <1>2, <3>1, EveryLine
    <3> QED  BY <1>2, <3>1, <3>2
  <2>2. ASSUME NEW p \in 1 .. n, k = 2 * p - 1 PROVE k \in Identities(lines)
    <3>1. k \in 1 .. (2 * n)  BY <1>2, <2>2
    <3> QED  BY <1>2, <2>2, <3>1 DEF Identities
  <2> QED  BY <2>1, <2>2
<1>4. \A p \in 0 .. n : Rank(lines, 2 * p) = p
  <2> DEFINE H == {p \in 0 .. n : Rank(lines, 2 * p) = p}
  <2>1. 0 \in H  BY <1>2, RankFacts
  <2>2. ASSUME NEW p \in 0 .. (n - 1), p \in H PROVE p + 1 \in H
    <3>1. /\ p + 1 \in 0 .. n /\ p + 1 \in 1 .. n
          /\ 2 * p \in 0 .. (2 * n - 1) /\ 2 * p + 1 \in 0 .. (2 * n - 1)
          /\ 2 * (p + 1) - 1 = 2 * p + 1 /\ 2 * (p + 1) = (2 * p + 1) + 1
      BY <1>2
    <3>2. 2 * p + 1 \in Identities(lines)  BY <1>3, <3>1
    <3>3. (2 * p + 1) + 1 \notin Identities(lines)
      <4>1. \A q \in 1 .. n : (2 * p + 1) + 1 # 2 * q - 1  BY <1>2
      <4> QED  BY <1>3, <4>1
    <3>4. /\ Rank(lines, 2 * p + 1) = Rank(lines, 2 * p) + 1
          /\ Rank(lines, (2 * p + 1) + 1) = Rank(lines, 2 * p + 1)
      BY <1>2, <3>1, <3>2, <3>3, RankFacts
    <3> QED  BY <2>2, <3>1, <3>4
  <2> HIDE DEF H
  <2>3. \A p \in 0 .. n : p \in H  BY <1>2, <2>1, <2>2, Induction
  <2> QED  BY <2>3 DEF H
<1>5. ASSUME NEW p \in 1 .. n PROVE Rank(lines, 2 * p - 1) = p
  <2>1. /\ p - 1 \in 0 .. n /\ 2 * (p - 1) \in 0 .. (2 * n - 1)
        /\ 2 * (p - 1) + 1 = 2 * p - 1
    BY <1>2
  <2>2. 2 * p - 1 \in Identities(lines)  BY <1>3
  <2>3. Rank(lines, 2 * (p - 1) + 1) = Rank(lines, 2 * (p - 1)) + 1
    BY <1>2, <2>1, <2>2, RankFacts
  <2> QED  BY <1>4, <2>1, <2>3
<1>6. Cardinality(Identities(lines)) = n
  <2>1. Rank(lines, 2 * n) = Cardinality(Identities(lines))  BY <1>2, RankFacts
  <2>2. n \in 0 .. n  BY <1>2
  <2> QED  BY <1>4, <2>1, <2>2
<1>7. ASSUME NEW p \in 1 .. n
      PROVE  PortAt(lines, 2 * p - 1) = [number |-> p, state |-> StateOf(s, p)]
  <2> DEFINE i == 2 * p - 1
             S == {j \in Belonging(lines, i) : lines[j].key = "portState"}
  <2>1. S = {2 * p}
    <3>1. 2 * p \in S
      <4>1. 2 * p \in 1 .. (2 * n) /\ 2 * p > i  BY <1>2
      <4>2. ASSUME NEW k \in Identities(lines), k > i PROVE 2 * p < k
        <5>1. PICK q \in 1 .. n : k = 2 * q - 1  BY <1>3
        <5> QED  BY <1>2, <4>2, <5>1
      <4> QED  BY <1>2, <4>1, <4>2 DEF Belonging
    <3>2. ASSUME NEW j \in S PROVE j = 2 * p
      <4>1. /\ j \in 1 .. (2 * n) /\ j > i /\ lines[j].key = "portState"
            /\ \A k \in Identities(lines) : k > i => j < k
        BY <1>2 DEF Belonging
      <4>2. PICK q \in 1 .. n : j = 2 * q - 1 \/ j = 2 * q  BY <1>2, <4>1, EveryLine
      <4>3. j = 2 * q  BY <1>2, <4>1, <4>2
      <4>4. q >= p  BY <1>2, <4>1, <4>3
      <4>5. CASE q = p  BY <4>3, <4>5
      <4>6. CASE q > p
        <5>1. 2 * q - 1 \in Identities(lines)  BY <1>3
        <5>2. 2 * q - 1 > i  BY <1>2, <4>6
        <5>3. j < 2 * q - 1  BY <4>1, <5>1, <5>2
        <5> QED  BY <1>2, <4>3, <5>3
      <4> QED  BY <1>2, <4>4, <4>5, <4>6
    <3> QED  BY <3>1, <3>2
  <2> HIDE DEF S
  <2>2. 2 * p \in Nat /\ S # {}  BY <1>2, <2>1
  <2>3. Max(S) = 2 * p  BY <2>1, <2>2, OneNumber
  <2>4. p # NoNumber  BY <1>1, TopologyAssumption
  <2>5. /\ lines[i].port = p
        /\ lines[Max(S)].state = StateOf(s, p)
    BY <1>2, <2>3
  <2> QED  BY <2>2, <2>4, <2>5 DEF PortAt, S
<1>8. ParsePorts(lines) = PortsOf(s)
  <2> DEFINE ports == ParsePorts(lines)
  <2>1. PICK P : ports \in Seq(P)  BY <1>2, PortsAreSequence
  <2>2. Len(ports) = n /\ \A i \in Identities(lines) : ports[Rank(lines, i)] = PortAt(lines, i)
    BY <1>2, <1>6, PortsOfAnyOutput
  <2> HIDE DEF ports
  <2>3. ASSUME NEW p \in 1 .. n PROVE ports[p] = [number |-> p, state |-> StateOf(s, p)]
    <3>1. 2 * p - 1 \in Identities(lines)  BY <1>3
    <3> QED  BY <1>5, <1>7, <2>2, <3>1
  <2>4. ports = [p \in 1 .. n |-> ports[p]]  BY <2>1, <2>2
  <2> QED  BY <1>1, <2>3, <2>4 DEF PortsOf, ports
<1>9. ChildPort(ParsePorts(lines)) = ChildOf(s)
  <2>1. PICK S : S = {i \in Identities(lines) : PortAt(lines, i).state = "SLAVE"}  OBVIOUS
  <2>2. ChildPort(ParsePorts(lines)) = IF S = {} THEN 0 ELSE PortAt(lines, Min(S)).number
    <3>1. PICK m \in Nat : DOMAIN lines = 1 .. m  BY <1>2
    <3> QED  BY <2>1, <3>1, ChildOfAnyOutput
  <2>3. \A i : i \in S <=> \E p \in 1 .. n : i = 2 * p - 1 /\ StateOf(s, p) = "SLAVE"
    <3>1. \A i : i \in S <=> i \in Identities(lines) /\ PortAt(lines, i).state = "SLAVE"
      BY <2>1
    <3>2. ASSUME NEW p \in 1 .. n PROVE PortAt(lines, 2 * p - 1).state = StateOf(s, p)
      <4>1. PICK x : x = PortAt(lines, 2 * p - 1)  OBVIOUS
      <4>2. x = [number |-> p, state |-> StateOf(s, p)]  BY <1>7, <4>1
      <4> QED  BY <4>1, <4>2
    <3> QED  BY <1>3, <3>1, <3>2
  <2>4. \A p : StateOf(s, p) = "SLAVE" <=> p = s.port /\ s.slave = TRUE
    BY DEF StateOf
  <2>5. s.slave \in BOOLEAN /\ (s.slave => s.port \in 1 .. n)
    <3>1. CASE s = [master |-> Local, port |-> 0, slave |-> FALSE]  BY <3>1
    <3>2. CASE s \in [master : Masters, port : 1 .. NumPorts, slave : BOOLEAN]  BY <1>1, <3>2
    <3> QED  BY <3>1, <3>2 DEF PtpStates
  <2>6. CASE s.slave
    <3>1. S = {2 * s.port - 1}  BY <2>3, <2>4, <2>5, <2>6
    <3>2. 2 * s.port - 1 \in Nat /\ s.port \in 1 .. n  BY <1>2, <2>5, <2>6
    <3>3. Min(S) = 2 * s.port - 1 /\ S # {}  BY <3>1, <3>2, OneNumber
    <3>4. PortAt(lines, 2 * s.port - 1).number = s.port
      <4>1. PICK q \in 1 .. n : q = s.port  BY <3>2
      <4>2. PICK x : x = PortAt(lines, 2 * q - 1)  OBVIOUS
      <4>3. x = [number |-> q, state |-> StateOf(s, q)]  BY <1>7, <4>2
      <4> QED  BY <4>1, <4>2, <4>3
    <3> QED  BY <2>2, <2>6, <3>3, <3>4 DEF ChildOf
  <2>7. CASE ~s.slave
    <3>1. S = {}  BY <2>3, <2>4, <2>5, <2>7
    <3> QED  BY <2>2, <2>7, <3>1 DEF ChildOf
  <2> QED  BY <2>6, <2>7
<1> QED  BY <1>1, <1>8, <1>9

-----------------------------------------------------------------------------
(* The invariant                                                           *)

\* The output of the first command, whatever ptp4l does.
DefaultOutput == <<[key |-> "clockIdentity", clock |-> Local]>>

\* What the last two commands may have left.
PortOutputs == {<<>>} \cup {Answer(s, "ports") : s \in seen}

TypeInv ==
  /\ ptp \in PtpStates
  /\ seen \in SUBSET PtpStates /\ IsFiniteSet(seen)
  /\ pc \in {"out", "default", "parent", "current", "ports", "parse"}
  /\ pc # "out" => ptp \in seen /\ result = <<>>

Commands == {"default", "parent", "current", "ports"}
PmcOutputs == {<<>>} \cup {Answer(s, command) : s \in PtpStates, command \in Commands}

\* Each output so far is the answer of a state that ptp4l was in since
\* collect() was called.
OutputInv ==
  /\ output \in Seq(PmcOutputs)
  /\ pc = "default" => Len(output) = 0
  /\ pc = "parent" => Len(output) = 1
  /\ pc = "current" => Len(output) = 2
  /\ pc = "ports" => Len(output) = 3
  /\ pc = "parse" => Len(output) = 4
  /\ pc # "out" /\ Len(output) >= 1 => output[1] = DefaultOutput
  /\ pc # "out" /\ Len(output) >= 2 => \E s \in seen : output[2] = Answer(s, "parent")
  /\ pc # "out" /\ Len(output) >= 3 => output[3] = <<>>
  /\ pc # "out" /\ Len(output) >= 4 => output[4] \in PortOutputs

\* So is each part of what collect() has returned.
SnapshotOf(snapshot, states) ==
  /\ snapshot.local = Local
  /\ \E s \in states : snapshot.parent.clock = s.master
  /\ \/ snapshot.ports = <<>> /\ snapshot.childPort = 0
     \/ \E s \in states : snapshot.ports = PortsOf(s) /\ snapshot.childPort = ChildOf(s)

ResultInv == result # <<>> => SnapshotOf(result[1], seen)

IInv == TypeInv /\ OutputInv /\ ResultInv

\* The answers of the first and the third command do not depend on the state,
\* and an output without lines has no port.
LEMMA FixedAnswers ==
  ASSUME NEW s
  PROVE  /\ Answer(s, "default") = DefaultOutput
         /\ Answer(s, "current") = <<>>
         /\ ParsePorts(<<>>) = <<>>
         /\ ChildPort(ParsePorts(<<>>)) = 0
<1>1. PICK lines : lines = <<>>  OBVIOUS
<1>2. DOMAIN lines = 1 .. 0 /\ 0 \in Nat /\ Identities(lines) = {}
  BY <1>1 DEF Identities
<1>3. ParsePorts(lines) = <<>>
  <2>1. PICK P : ParsePorts(lines) \in Seq(P)  BY <1>2, PortsAreSequence
  <2>2. Len(ParsePorts(lines)) = 0
    <3>1. Len(ParsePorts(lines)) = Cardinality(Identities(lines))  BY <1>2, PortsOfAnyOutput
    <3>2. Cardinality({}) = 0  BY FS_EmptySet
    <3> QED  BY <1>2, <3>1, <3>2
  <2> QED  BY <2>1, <2>2
<1>4. ChildPort(ParsePorts(lines)) = 0
  <2>1. PICK S : S = {i \in Identities(lines) : PortAt(lines, i).state = "SLAVE"}  OBVIOUS
  <2>2. S = {}  BY <1>2, <2>1
  <2>3. ChildPort(ParsePorts(lines)) = IF S = {} THEN 0 ELSE PortAt(lines, Min(S)).number
    BY <1>2, <2>1, ChildOfAnyOutput
  <2> QED  BY <2>2, <2>3
<1>5. Answer(s, "default") = DefaultOutput /\ Answer(s, "current") = <<>>
  BY DEF Answer, DefaultOutput
<1> QED  BY <1>1, <1>3, <1>4, <1>5

\* A snapshot of outputs that are answers is of the states that gave them.
LEMMA SnapshotOfAnswers ==
  ASSUME NEW states \in SUBSET PtpStates, NEW s \in states, NEW ports,
         ports = <<>> \/ \E t \in states : ports = Answer(t, "ports"),
         NEW snapshots, snapshots = Parse(DefaultOutput, Answer(s, "parent"), <<>>, ports),
         snapshots # <<>>
  PROVE  SnapshotOf(snapshots[1], states)
<1>1. ParseDefault(DefaultOutput) = Local
  BY AnsweredClocks, FixedAnswers
<1>2. ParseParent(Answer(s, "parent")).clock = s.master
  BY AnsweredClocks
<1>3. /\ snapshots[1].local = Local
      /\ snapshots[1].parent.clock = s.master
      /\ snapshots[1].ports = ParsePorts(ports)
      /\ snapshots[1].childPort = ChildPort(ParsePorts(ports))
  BY <1>1, <1>2, SnapshotIs
<1>4. CASE ports = <<>>
  BY <1>3, <1>4, FixedAnswers DEF SnapshotOf
<1>5. CASE \E t \in states : ports = Answer(t, "ports")
  <2>1. PICK t \in states : ports = Answer(t, "ports")  BY <1>5
  <2>2. ParsePorts(ports) = PortsOf(t) /\ ChildPort(ParsePorts(ports)) = ChildOf(t)
    BY <2>1, AnsweredPorts
  <2> QED  BY <1>3, <2>2 DEF SnapshotOf
<1> QED  BY <1>4, <1>5

\* One more output.
LEMMA OneMoreOutput ==
  ASSUME NEW S, NEW s \in Seq(S), NEW e \in S
  PROVE  /\ Append(s, e) \in Seq(S) /\ Len(Append(s, e)) = Len(s) + 1
         /\ \A k \in 1 .. Len(s) : Append(s, e)[k] = s[k]
         /\ Append(s, e)[Len(s) + 1] = e
OBVIOUS

\* The next output is of the command that was run.
LEMMA OutputKept ==
  ASSUME OutputInv, pc \in Commands, seen' = seen, NEW e \in PmcOutputs,
         output' = Append(output, e),
         pc = "default" => pc' = "parent" /\ e = DefaultOutput,
         pc = "parent" => pc' = "current" /\ \E s \in seen : e = Answer(s, "parent"),
         pc = "current" => pc' = "ports" /\ e = <<>>,
         pc = "ports" => pc' = "parse" /\ e \in PortOutputs
  PROVE  OutputInv'
<1>1. output \in Seq(PmcOutputs) /\ Len(output) \in Nat  BY DEF OutputInv
<1>2. /\ output' \in Seq(PmcOutputs) /\ Len(output') = Len(output) + 1
      /\ \A k \in 1 .. Len(output) : output'[k] = output[k]
      /\ output'[Len(output) + 1] = e
  BY <1>1, OneMoreOutput
<1>3. PmcOutputs' = PmcOutputs /\ PortOutputs' = PortOutputs
  BY DEF PortOutputs
<1>4. CASE pc = "default"
  <2>1. Len(output) = 0  BY <1>4 DEF OutputInv
  <2> QED  BY <1>2, <1>3, <1>4, <2>1 DEF OutputInv
<1>5. CASE pc = "parent"
  <2>1. Len(output) = 1 /\ output[1] = DefaultOutput  BY <1>5 DEF OutputInv
  <2> QED  BY <1>2, <1>3, <1>5, <2>1 DEF OutputInv
<1>6. CASE pc = "current"
  <2>1. /\ Len(output) = 2 /\ output[1] = DefaultOutput
        /\ \E s \in seen : output[2] = Answer(s, "parent")
    BY <1>6 DEF OutputInv
  <2> QED  BY <1>2, <1>3, <1>6, <2>1 DEF OutputInv
<1>7. CASE pc = "ports"
  <2>1. /\ Len(output) = 3 /\ output[1] = DefaultOutput /\ output[3] = <<>>
        /\ \E s \in seen : output[2] = Answer(s, "parent")
    BY <1>7 DEF OutputInv
  <2> QED  BY <1>2, <1>3, <1>7, <2>1 DEF OutputInv
<1> QED  BY <1>4, <1>5, <1>6, <1>7 DEF Commands

\* Init and every step establish or keep the invariant.
LEMMA InvariantHolds == Spec => []IInv
<1>1. Init => IInv
  BY FS_EmptySet DEF Init, IInv, TypeInv, OutputInv, ResultInv, PtpStates
<1>2. IInv /\ [Next]_vars => IInv'
  <2> SUFFICES ASSUME IInv, [Next]_vars PROVE IInv'  OBVIOUS
  <2> USE DEF IInv
  <2>1. CASE Change
    <3>1. /\ pc' = pc /\ output' = output /\ result' = result
          /\ ptp' \in PtpStates
          /\ seen' = IF pc = "out" THEN seen ELSE seen \cup {ptp'}
      BY <2>1 DEF Change
    <3>2. seen \subseteq seen' /\ seen' \in SUBSET PtpStates /\ IsFiniteSet(seen')
      <4>1. IsFiniteSet(seen \cup {ptp'})  BY FS_AddElement DEF TypeInv
      <4> QED  BY <3>1, <4>1 DEF TypeInv
    <3>3. TypeInv'  BY <3>1, <3>2 DEF TypeInv
    <3>4. OutputInv'
      <4>1. \A s : Answer(s, "ports")' = Answer(s, "ports")  BY DEF Answer, StateOf
      <4> QED  BY <3>1, <3>2 DEF OutputInv, PortOutputs
    <3>5. ResultInv'
      <4>1. CASE pc = "out"  BY <3>1, <4>1 DEF ResultInv
      <4>2. CASE pc # "out"  BY <3>1, <4>2 DEF ResultInv, TypeInv
      <4> QED  BY <4>1, <4>2
    <3> QED  BY <3>3, <3>4, <3>5
  <2>2. CASE Collect
    <3>1. pc' = "default" /\ output' = <<>> /\ result' = <<>> /\ seen' = {ptp} /\ ptp' = ptp
      BY <2>2 DEF Collect
    <3>2. IsFiniteSet({ptp})  BY FS_Singleton
    <3> QED  BY <3>1, <3>2 DEF TypeInv, OutputInv, ResultInv
  <2>3. CASE RunCommand
    <3>1. /\ pc \in Commands /\ pc # "out" /\ pc' = NextCommand(pc)
          /\ output' = Append(output, Answer(ptp, pc))
          /\ result' = result /\ seen' = seen /\ ptp' = ptp
      BY <2>3 DEF RunCommand, Commands
    <3>2. ptp \in seen /\ ptp \in PtpStates /\ result = <<>>  BY <3>1 DEF TypeInv
    <3>3. /\ pc = "default" => pc' = "parent"
          /\ pc = "parent" => pc' = "current"
          /\ pc = "current" => pc' = "ports"
          /\ pc = "ports" => pc' = "parse"
      BY <3>1 DEF NextCommand
    <3>4. TypeInv' /\ ResultInv'
      BY <3>1, <3>2, <3>3 DEF TypeInv, ResultInv, Commands
    <3>5. PICK e : e = Answer(ptp, pc)  OBVIOUS
    <3>6. e \in PmcOutputs  BY <3>1, <3>2, <3>5 DEF PmcOutputs
    <3>7. /\ pc = "default" => e = DefaultOutput
          /\ pc = "parent" => \E s \in seen : e = Answer(s, "parent")
          /\ pc = "current" => e = <<>>
          /\ pc = "ports" => e \in PortOutputs
      BY <3>2, <3>5, FixedAnswers DEF PortOutputs
    <3> QED  BY <3>1, <3>3, <3>4, <3>5, <3>6, <3>7, OutputKept
  <2>4. CASE CommandFails
    <3>1. /\ pc \in Commands /\ pc # "out"
          /\ result' = result /\ seen' = seen /\ ptp' = ptp
      BY <2>4 DEF CommandFails, Commands
    <3>2. ptp \in seen /\ result = <<>>  BY <3>1 DEF TypeInv
    <3>3. CASE pc \in {"default", "parent"}
      <4>1. pc' = "out" /\ output' = output  BY <2>4, <3>3 DEF CommandFails
      <4> QED  BY <3>1, <3>2, <4>1 DEF TypeInv, OutputInv, ResultInv
    <3>4. CASE pc \in {"current", "ports"}
      <4>1. pc' = NextCommand(pc) /\ output' = Append(output, <<>>)
        BY <2>4, <3>4 DEF CommandFails
      <4>2. /\ pc = "current" => pc' = "ports"
            /\ pc = "ports" => pc' = "parse"
        BY <4>1 DEF NextCommand
      <4>3. PICK e : e = <<>>  OBVIOUS
      <4>4. e \in PmcOutputs /\ e \in PortOutputs  BY <4>3 DEF PmcOutputs, PortOutputs
      <4>5. TypeInv' /\ ResultInv'  BY <3>1, <3>2, <3>4, <4>2 DEF TypeInv, ResultInv
      <4> QED  BY <3>1, <3>4, <4>1, <4>2, <4>3, <4>4, <4>5, OutputKept
    <3> QED  BY <3>1, <3>3, <3>4 DEF Commands
  <2>5. CASE ParseOutputs
    <3>1. /\ pc = "parse" /\ pc' = "out" /\ seen' = seen /\ ptp' = ptp /\ output' = output
          /\ result' = Parse(output[1], output[2], output[3], output[4])
      BY <2>5 DEF ParseOutputs
    <3>2. TypeInv' /\ OutputInv'  BY <3>1 DEF TypeInv, OutputInv
    <3>3. ASSUME result' # <<>> PROVE SnapshotOf(result'[1], seen)
      <4>1. PICK s \in seen, ports \in PortOutputs :
              /\ output[1] = DefaultOutput /\ output[2] = Answer(s, "parent")
              /\ output[3] = <<>> /\ output[4] = ports
        <5>1. Len(output) = 4 /\ pc # "out"  BY <3>1 DEF OutputInv
        <5>2. /\ output[1] = DefaultOutput /\ output[3] = <<>> /\ output[4] \in PortOutputs
              /\ \E s \in seen : output[2] = Answer(s, "parent")
          BY <5>1 DEF OutputInv
        <5> QED  BY <5>2
      <4>2. result' = Parse(DefaultOutput, Answer(s, "parent"), <<>>, ports)
        BY <3>1, <4>1
      <4>3. ports = <<>> \/ \E t \in seen : ports = Answer(t, "ports")  BY DEF PortOutputs
      <4>4. seen \in SUBSET PtpStates  BY DEF TypeInv
      <4> QED  BY <3>3, <4>2, <4>3, <4>4, SnapshotOfAnswers
    <3>4. ResultInv'  BY <3>1, <3>3 DEF ResultInv
    <3> QED  BY <3>2, <3>4
  <2>6. CASE Quiet \/ UNCHANGED vars
    <3>1. UNCHANGED vars  BY <2>6 DEF Quiet
    <3> QED  BY <3>1 DEF vars, TypeInv, OutputInv, PortOutputs, ResultInv
  <2> QED  BY <2>1, <2>2, <2>3, <2>4, <2>5, <2>6 DEF Next
<1> QED  BY <1>1, <1>2, PTL DEF Spec

\* Each data set of a snapshot was true at some moment of the collect, and a
\* failed command takes nothing from an earlier one (FieldsWereTrue).
THEOREM FieldsWereTrueHolds == Spec => []FieldsWereTrue
<1>1. IInv => FieldsWereTrue
  BY DEF IInv, ResultInv, SnapshotOf, FieldsWereTrue, Returned, PortsOf, ChildOf
<1> QED  BY <1>1, InvariantHolds, PTL

\* When ptp4l did not change during the collect, the parent and the child port
\* of the snapshot are an edge that was there (QuietEdgeObserved).
THEOREM QuietEdgeObservedHolds == Spec => []QuietEdgeObserved
<1>1. IInv => QuietEdgeObserved
  <2> SUFFICES ASSUME IInv, Returned, Cardinality(seen) = 1, result[1].childPort # 0
               PROVE  \E s \in seen : /\ s.slave
                                      /\ s.port = result[1].childPort
                                      /\ s.master = result[1].parent.clock
    BY DEF QuietEdgeObserved, EdgeObserved
  <2>1. IsFiniteSet(seen) /\ SnapshotOf(result[1], seen)
    BY DEF IInv, TypeInv, ResultInv, Returned
  <2>2. PICK s : seen = {s}  BY <2>1, FS_Singleton
  <2>3. result[1].parent.clock = s.master /\ result[1].childPort = ChildOf(s)
    BY <2>1, <2>2 DEF SnapshotOf
  <2>4. s.slave /\ s.port = result[1].childPort
    BY <2>3 DEF ChildOf
  <2> QED  BY <2>2, <2>3, <2>4
<1> QED  BY <1>1, InvariantHolds, PTL
=============================================================================
