---------------------------- MODULE ParserProofs ----------------------------
(***************************************************************************)
(* Theorems about the stateless parts, for inputs of any length where the  *)
(* bounds of MCParsers allow it.  The induction theorems of the library    *)
(* have operator parameters; here induction is over a set of numbers, and  *)
(* a fold is known by the chain of its intermediate results.               *)
(***************************************************************************)
EXTENDS MCParsers, TLAPS, FiniteSetTheorems, WellFoundedInduction

-----------------------------------------------------------------------------
(* Numbers and folds                                                       *)

\* A non-empty set of numbers has a least one, which Min is.
LEMMA LeastOfSet ==
  ASSUME NEW I \in SUBSET Nat, I # {}
  PROVE  Min(I) \in I /\ \A i \in I : Min(I) <= i
<1>1. PICK m \in I : \A i \in I : <<i, m>> \notin OpToRel(<, Nat)
  BY WFMin, NatLessThanWellFounded
<1>2. \A i \in I : m <= i
  <2> SUFFICES ASSUME NEW i \in I PROVE m <= i  OBVIOUS
  <2>1. ~(i < m)  BY <1>1 DEF OpToRel
  <2> QED  BY <2>1
<1> QED  BY <1>2 DEF Min

\* A non-empty bounded set of numbers has a greatest one, which Max is.
LEMMA GreatestOfSet ==
  ASSUME NEW n \in Nat, NEW I \in SUBSET (0 .. n), I # {}
  PROVE  Max(I) \in I /\ \A i \in I : i <= Max(I)
<1> DEFINE J == {n - i : i \in I}
<1>0. \A i \in I : n - i \in Nat  OBVIOUS
<1>1. J \in SUBSET Nat /\ J # {}  BY <1>0
<1>5. \A i \in I : n - i \in J  OBVIOUS
<1>6. \A j \in J : \E i \in I : j = n - i  OBVIOUS
<1> HIDE DEF J
<1>2. Min(J) \in J /\ \A j \in J : Min(J) <= j  BY <1>1, LeastOfSet
<1>3. PICK m \in I : Min(J) = n - m  BY <1>2, <1>6
<1>4. \A i \in I : i <= m
  <2> SUFFICES ASSUME NEW i \in I PROVE i <= m  OBVIOUS
  <2>1. n - m <= n - i  BY <1>2, <1>3, <1>5
  <2> QED  BY <2>1
<1> QED  BY <1>4 DEF Max

\* What holds at 0 and is handed on holds up to n.
LEMMA Induction ==
  ASSUME NEW n \in Nat, NEW T, 0 \in T, \A i \in 0 .. (n - 1) : i \in T => i + 1 \in T
  PROVE  \A i \in 0 .. n : i \in T
<1> DEFINE Bad == {i \in 0 .. n : i \notin T}
<1> SUFFICES ASSUME Bad # {} PROVE FALSE  OBVIOUS
<1>1. Bad \in SUBSET Nat /\ \A i : i \in Bad <=> i \in 0 .. n /\ i \notin T  OBVIOUS
<1> HIDE DEF Bad
<1>2. PICK m \in Bad : \A i \in Bad : m <= i  BY <1>1, LeastOfSet
<1>3. m \in 0 .. n /\ m \notin T /\ m # 0  BY <1>1, <1>2
<1>4. m - 1 \in 0 .. (n - 1)  BY <1>3
<1>5. m - 1 \in T
  <2>1. m - 1 \in 0 .. n /\ ~(m <= m - 1)  BY <1>3
  <2> QED  BY <1>1, <1>2, <2>1
<1>6. (m - 1) + 1 \in T  BY <1>4, <1>5
<1> QED  BY <1>3, <1>6

\* The greatest element of a set that has n + 1, and of one that has not.
LEMMA GreatestSplit ==
  ASSUME NEW n \in Nat, NEW s \in SUBSET (1 .. (n + 1)), s # {}
  PROVE  /\ n + 1 \in s => Max(s) = n + 1
         /\ n + 1 \notin s => s \in SUBSET (1 .. n)
         /\ s \ {n + 1} \in SUBSET (1 .. n)
<1>1. n + 1 \in Nat /\ s \in SUBSET (0 .. (n + 1))  OBVIOUS
<1>2. Max(s) \in s /\ \A i \in s : i <= Max(s)  BY <1>1, GreatestOfSet
<1>3. n + 1 \in s => Max(s) = n + 1
  <2> SUFFICES ASSUME n + 1 \in s PROVE Max(s) = n + 1  OBVIOUS
  <2>1. Max(s) \in 1 .. (n + 1) /\ n + 1 <= Max(s)  BY <1>2
  <2> QED  BY <2>1
<1> QED  BY <1>3

\* f is the recursion behind FoldLeft over n elements, where step takes a
\* result and the number of an element to the next result.
FoldsBy(f, n, base, step) ==
  \A s \in SUBSET (1 .. n) :
    f[s] = IF s = {} THEN base ELSE step[<<f[s \ {Max(s)}], Max(s)>>]

\* The recursion has a solution when step stays in the type V of the results.
LEMMA FoldExists ==
  ASSUME NEW n \in Nat, NEW V, NEW base \in V, NEW step \in [V \X (1 .. n) -> V]
  PROVE  \E f \in [SUBSET (1 .. n) -> V] : FoldsBy(f, n, base, step)
<1> DEFINE T == {k \in 0 .. n : \E f \in [SUBSET (1 .. k) -> V] : FoldsBy(f, k, base, step)}
<1>1. 0 \in T
  <2> DEFINE f0 == [s \in SUBSET (1 .. 0) |-> base]
  <2>1. \A s \in SUBSET (1 .. 0) : s = {}  OBVIOUS
  <2>2. f0 \in [SUBSET (1 .. 0) -> V]  OBVIOUS
  <2>3. FoldsBy(f0, 0, base, step)  BY <2>1 DEF FoldsBy
  <2>4. 0 \in 0 .. n  OBVIOUS
  <2> HIDE DEF f0
  <2> QED  BY <2>2, <2>3, <2>4
<1>2. ASSUME NEW k \in 0 .. (n - 1), k \in T PROVE k + 1 \in T
  <2>1. PICK f \in [SUBSET (1 .. k) -> V] : FoldsBy(f, k, base, step)  BY <1>2
  <2> DEFINE h == [s \in SUBSET (1 .. (k + 1)) |->
                     IF k + 1 \in s THEN step[<<f[s \ {k + 1}], k + 1>>] ELSE f[s]]
  <2>2. \A s \in SUBSET (1 .. (k + 1)) :
          /\ k + 1 \notin s => s \in SUBSET (1 .. k)
          /\ s \ {k + 1} \in SUBSET (1 .. k)
    OBVIOUS
  <2>3. h \in [SUBSET (1 .. (k + 1)) -> V]
    <3> SUFFICES ASSUME NEW s \in SUBSET (1 .. (k + 1)) PROVE h[s] \in V  OBVIOUS
    <3>1. CASE k + 1 \in s
      <4>1. f[s \ {k + 1}] \in V  BY <2>2
      <4>2. <<f[s \ {k + 1}], k + 1>> \in V \X (1 .. n)  BY <4>1
      <4> QED  BY <3>1, <4>2
    <3>2. CASE k + 1 \notin s  BY <2>2, <3>2
    <3> QED  BY <3>1, <3>2
  <2>4. ASSUME NEW s \in SUBSET (1 .. (k + 1))
        PROVE  h[s] = IF s = {} THEN base ELSE step[<<h[s \ {Max(s)}], Max(s)>>]
    <3>1. CASE s = {}
      <4>1. h[s] = f[{}] /\ f[{}] = base  BY <2>1, <3>1 DEF FoldsBy
      <4> QED  BY <3>1, <4>1
    <3>2. CASE s # {} /\ k + 1 \in s
      <4>1. Max(s) = k + 1  BY <3>2, GreatestSplit
      <4>2. h[s \ {k + 1}] = f[s \ {k + 1}]  BY <2>2
      <4> QED  BY <3>2, <4>1, <4>2
    <3>3. CASE s # {} /\ k + 1 \notin s
      <4>1. s \in SUBSET (1 .. k)  BY <2>2, <3>3
      <4>2. h[s] = step[<<f[s \ {Max(s)}], Max(s)>>]  BY <2>1, <3>3, <4>1 DEF FoldsBy
      <4>3. \A x \in SUBSET (1 .. k) : x \in SUBSET (1 .. (k + 1)) /\ k + 1 \notin x
        OBVIOUS
      <4>4. \A x \in SUBSET (1 .. k) : h[x] = f[x]  BY <4>3
      <4> QED  BY <3>3, <4>1, <4>2, <4>4
    <3> QED  BY <3>1, <3>2, <3>3
  <2>5. FoldsBy(h, k + 1, base, step)
    <3> HIDE DEF h
    <3> QED  BY <2>4 DEF FoldsBy
  <2>6. k + 1 \in 0 .. n  OBVIOUS
  <2> HIDE DEF h
  <2> QED  BY <2>3, <2>5, <2>6
<1>3. n \in T
  <2> HIDE DEF T
  <2> QED  BY <1>1, <1>2, Induction
<1> QED  BY <1>3

\* A sequence with one more element.
LEMMA OneMore ==
  ASSUME NEW P, NEW s \in Seq(P), NEW x
  PROVE  /\ Len(s \o <<x>>) = Len(s) + 1
         /\ (s \o <<x>>)[Len(s) + 1] = x
         /\ \A r \in 1 .. Len(s) : (s \o <<x>>)[r] = s[r]
OBVIOUS

\* The sets a fold over a sequence goes through.
LEMMA Interval ==
  ASSUME NEW n \in Nat, NEW k \in 1 .. n
  PROVE  /\ 1 .. k \in SUBSET (1 .. n) /\ 1 .. k # {}
         /\ Max(1 .. k) = k
         /\ (1 .. k) \ {k} = 1 .. (k - 1)
<1>1. k \in Nat /\ 1 .. k \in SUBSET (0 .. k) /\ 1 .. k # {} /\ k \in 1 .. k  OBVIOUS
<1>2. Max(1 .. k) \in 1 .. k /\ k <= Max(1 .. k)  BY <1>1, GreatestOfSet
<1>3. Max(1 .. k) = k  BY <1>2
<1> QED  BY <1>1, <1>3

\* The greatest of a set of positions and the rest of the set.
LEMMA Remaining ==
  ASSUME NEW n \in Nat, NEW s \in SUBSET (1 .. n), s # {}
  PROVE  Max(s) \in 1 .. n /\ s \ {Max(s)} \in SUBSET (1 .. n)
<1>1. s \in SUBSET (0 .. n)  OBVIOUS
<1>2. Max(s) \in s  BY <1>1, GreatestOfSet
<1> QED  BY <1>2

-----------------------------------------------------------------------------
(* The ports of PORT_DATA_SET                                              *)

NoPorts == [ports |-> <<>>, current |-> <<>>]

\* The type of what ParsePorts() has so far.
PortsSoFar(n, lines) ==
  LET P == [number : {0} \cup {lines[i].port : i \in 1 .. n},
            state : {NoState} \cup {lines[i].state : i \in 1 .. n}]
  IN  [ports : Seq(P), current : Seq(P)]

\* A line takes a list of ports to a list of ports.
LEMMA TakePortType ==
  ASSUME NEW n \in Nat, NEW lines, NEW i \in 1 .. n, NEW acc \in PortsSoFar(n, lines)
  PROVE  TakePort(acc, lines[i]) \in PortsSoFar(n, lines)
<1> DEFINE S == {NoState} \cup {lines[j].state : j \in 1 .. n}
           P == [number : {0} \cup {lines[j].port : j \in 1 .. n}, state : S]
<1>1. PortsSoFar(n, lines) = [ports : Seq(P), current : Seq(P)]  BY DEF PortsSoFar
<1>2. CASE lines[i].key = "portIdentity"
  <2>1. NewPort(lines[i]) \in P  BY DEF NewPort
  <2> HIDE DEF P
  <2>2. /\ acc.ports \o acc.current \in Seq(P)
        /\ <<NewPort(lines[i])>> \in Seq(P)
    BY <1>1, <2>1
  <2> QED  BY <1>1, <1>2, <2>2 DEF TakePort
<1>3. CASE lines[i].key = "portState" /\ acc.current # <<>>
  <2>1. \A p \in P : [p EXCEPT !.state = lines[i].state] \in P  OBVIOUS
  <2> HIDE DEF P
  <2>2. acc.current \in Seq(P) /\ acc.current # <<>>  BY <1>1, <1>3
  <2>3. acc.current[1] \in P /\ 1 \in 1 .. Len(acc.current)  BY <2>2
  <2> DEFINE new == [acc.current EXCEPT ![1] = [acc.current[1] EXCEPT !.state = lines[i].state]]
  <2>4. new \in Seq(P)  BY <2>1, <2>2, <2>3
  <2>5. TakePort(acc, lines[i]) = [acc EXCEPT !.current = new]
    BY <1>1, <1>3 DEF TakePort
  <2> HIDE DEF new
  <2> QED  BY <1>1, <2>4, <2>5
<1>4. CASE lines[i].key # "portIdentity" /\ ~(lines[i].key = "portState" /\ acc.current # <<>>)
  BY <1>4 DEF TakePort
<1> QED  BY <1>2, <1>3, <1>4

\* ParsePorts() is a chain of results, one per line.
LEMMA PortsChain ==
  ASSUME NEW n \in Nat, NEW lines, DOMAIN lines = 1 .. n
  PROVE  \E acc : /\ ParsePorts(lines) = acc[n].ports \o acc[n].current
                  /\ acc[0] = NoPorts
                  /\ \A k \in 1 .. n : acc[k] = TakePort(acc[k - 1], lines[k])
                  /\ \A k \in 0 .. n : acc[k] \in PortsSoFar(n, lines)
<1> DEFINE V == PortsSoFar(n, lines)
           step == [x \in V \X (1 .. n) |-> TakePort(x[1], lines[x[2]])]
           E(h) == h = [s \in SUBSET (1 .. n) |->
                          IF s = {} THEN NoPorts
                          ELSE TakePort(h[s \ {Max(s)}], lines[Max(s)])]
<1>1. NoPorts \in V  BY DEF PortsSoFar, NoPorts
<1>2. step \in [V \X (1 .. n) -> V]
  <2>1. \A x \in V \X (1 .. n) : x[1] \in V /\ x[2] \in 1 .. n  OBVIOUS
  <2> HIDE DEF V
  <2>2. \A x \in V \X (1 .. n) : TakePort(x[1], lines[x[2]]) \in V
    BY <2>1, TakePortType DEF V
  <2> QED  BY <2>2
<1>3. PICK f \in [SUBSET (1 .. n) -> V] : FoldsBy(f, n, NoPorts, step)
  <2> HIDE DEF V, step
  <2> QED  BY <1>1, <1>2, FoldExists
<1>4. \A s \in SUBSET (1 .. n) :
        f[s] = IF s = {} THEN NoPorts ELSE TakePort(f[s \ {Max(s)}], lines[Max(s)])
  <2> SUFFICES ASSUME NEW s \in SUBSET (1 .. n), s # {}
               PROVE  f[s] = TakePort(f[s \ {Max(s)}], lines[Max(s)])
    BY <1>3 DEF FoldsBy
  <2>1. Max(s) \in 1 .. n /\ s \ {Max(s)} \in SUBSET (1 .. n)  BY Remaining
  <2>2. <<f[s \ {Max(s)}], Max(s)>> \in V \X (1 .. n)  BY <2>1
  <2>3. f[s] = step[<<f[s \ {Max(s)}], Max(s)>>]  BY <1>3 DEF FoldsBy
  <2> HIDE DEF V
  <2> QED  BY <2>2, <2>3
<1>5. E(f)
  <2> DEFINE r(s) == IF s = {} THEN NoPorts ELSE TakePort(f[s \ {Max(s)}], lines[Max(s)])
             D == SUBSET (1 .. n)
  <2>1. f = [s \in D |-> f[s]] /\ \A s \in D : f[s] = r(s)  BY <1>4
  <2> HIDE DEF r, D
  <2>2. f = [s \in D |-> r(s)]  BY <2>1
  <2> QED  BY <2>2 DEF r, D
<1> DEFINE iter == CHOOSE h : E(h)
           acc == [k \in 0 .. n |-> iter[1 .. k]]
<1>6. E(iter)  BY <1>5
<1>7. ParsePorts(lines) = iter[1 .. n].ports \o iter[1 .. n].current
  BY DEF ParsePorts, FoldLeft, MapThenFoldSet, NoPorts
<1> HIDE DEF iter
<1>8. acc[0] = NoPorts
  <2>1. 1 .. 0 = {} /\ {} \in SUBSET (1 .. n)  OBVIOUS
  <2> QED  BY <1>6, <2>1
<1>9. ASSUME NEW k \in 1 .. n PROVE acc[k] = TakePort(acc[k - 1], lines[k])
  <2>1. /\ 1 .. k \in SUBSET (1 .. n) /\ 1 .. k # {}
        /\ Max(1 .. k) = k /\ (1 .. k) \ {k} = 1 .. (k - 1)
    BY Interval
  <2>2. iter[1 .. k] = TakePort(iter[1 .. (k - 1)], lines[k])  BY <1>6, <2>1
  <2> QED  BY <2>2
<1>10. ParsePorts(lines) = acc[n].ports \o acc[n].current
  <2>1. n \in 0 .. n  OBVIOUS
  <2>2. acc[n] = iter[1 .. n]  BY <2>1
  <2> QED  BY <1>7, <2>2
<1> HIDE DEF acc, E
<1>11. \A k \in 0 .. n : acc[k] \in V
  <2> DEFINE T == {k \in 0 .. n : acc[k] \in V}
  <2>1. 0 \in T  BY <1>1, <1>8
  <2>2. ASSUME NEW i \in 0 .. (n - 1), i \in T PROVE i + 1 \in T
    <3>1. i + 1 \in 1 .. n /\ (i + 1) - 1 = i /\ acc[i] \in V  BY <2>2
    <3>2. acc[i + 1] = TakePort(acc[i], lines[i + 1])  BY <1>9, <3>1
    <3>3. acc[i + 1] \in V  BY <3>1, <3>2, TakePortType
    <3> QED  BY <3>1, <3>3
  <2>3. \A k \in 0 .. n : k \in T
    <3> HIDE DEF T
    <3> QED  BY <2>1, <2>2, Induction
  <2> QED  BY <2>3
<1> QED  BY <1>8, <1>9, <1>10, <1>11

\* What ParsePorts() returns is a sequence.
LEMMA PortsAreSequence ==
  ASSUME NEW n \in Nat, NEW lines, DOMAIN lines = 1 .. n
  PROVE  \E P : ParsePorts(lines) \in Seq(P)
<1>1. PICK acc : /\ ParsePorts(lines) = acc[n].ports \o acc[n].current
                 /\ \A k \in 0 .. n : acc[k] \in PortsSoFar(n, lines)
  BY PortsChain
<1>2. acc[n] \in PortsSoFar(n, lines)
  <2>1. n \in 0 .. n  OBVIOUS
  <2> QED  BY <1>1, <2>1
<1>3. \E P : acc[n].ports \in Seq(P) /\ acc[n].current \in Seq(P)
  BY <1>2 DEF PortsSoFar
<1> QED  BY <1>1, <1>3

\* The number of the ports that have begun goes up by one at each identity.
LEMMA RankFacts ==
  ASSUME NEW n \in Nat, NEW lines, DOMAIN lines = 1 .. n
  PROVE  /\ Rank(lines, 0) = 0
         /\ \A k \in 0 .. n : Rank(lines, k) \in Nat
         /\ \A k \in 0 .. (n - 1) :
              Rank(lines, k + 1) =
                IF k + 1 \in Identities(lines) THEN Rank(lines, k) + 1 ELSE Rank(lines, k)
         /\ Rank(lines, n) = Cardinality(Identities(lines))
<1> DEFINE U(k) == {j \in Identities(lines) : j <= k}
<1>1. Identities(lines) \in SUBSET (1 .. n)  BY DEF Identities
<1>2. ASSUME NEW k \in 0 .. n PROVE IsFiniteSet(U(k))
  <2>1. IsFiniteSet(1 .. n) /\ U(k) \subseteq 1 .. n  BY <1>1, FS_Interval
  <2> QED  BY <2>1, FS_Subset
<1>3. ASSUME NEW k \in 0 .. (n - 1)
      PROVE  Cardinality(U(k + 1)) =
               IF k + 1 \in Identities(lines) THEN Cardinality(U(k)) + 1 ELSE Cardinality(U(k))
  <2>1. k \in 0 .. n /\ k + 1 \notin U(k)  OBVIOUS
  <2>2. CASE k + 1 \in Identities(lines)
    <3>1. U(k + 1) = U(k) \cup {k + 1}  BY <1>1, <2>2
    <3>2. IsFiniteSet(U(k))  BY <1>2, <2>1
    <3> HIDE DEF U
    <3> QED  BY <2>1, <2>2, <3>1, <3>2, FS_AddElement
  <2>3. CASE k + 1 \notin Identities(lines)
    <3>1. U(k + 1) = U(k)  BY <1>1, <2>3
    <3> HIDE DEF U
    <3> QED  BY <2>3, <3>1
  <2> QED  BY <2>2, <2>3
<1>4. U(0) = {} /\ U(n) = Identities(lines)  BY <1>1
<1>5. \A k \in 0 .. n : Cardinality(U(k)) \in Nat  BY <1>2, FS_CardinalityType
<1>6. \A k : Rank(lines, k) = Cardinality(U(k))  BY DEF Rank
<1>7. Cardinality({}) = 0  BY FS_EmptySet
<1> HIDE DEF U
<1> QED  BY <1>3, <1>4, <1>5, <1>6, <1>7

\* Ranks never go down, and an identity has a greater rank than what is
\* before it.
LEMMA RankGrows ==
  ASSUME NEW n \in Nat, NEW lines, DOMAIN lines = 1 .. n,
         NEW i \in 0 .. n, NEW k \in i .. n
  PROVE  /\ Rank(lines, i) <= Rank(lines, k)
         /\ k \in Identities(lines) /\ i < k => Rank(lines, i) < Rank(lines, k)
<1> DEFINE R(m) == Rank(lines, m)
           T == {m \in 0 .. n : m >= i => R(i) <= R(m)}
<1>1. /\ \A m \in 0 .. n : R(m) \in Nat
      /\ \A m \in 0 .. (n - 1) :
           R(m + 1) = IF m + 1 \in Identities(lines) THEN R(m) + 1 ELSE R(m)
  BY RankFacts
<1> HIDE DEF R
<1>2. \A m \in 0 .. n : m \in T
  <2>0. i \in 0 .. n /\ R(i) \in Nat  BY <1>1
  <2>1. 0 \in T  BY <1>1
  <2>2. ASSUME NEW m \in 0 .. (n - 1), m \in T PROVE m + 1 \in T
    <3>1. m + 1 \in 0 .. n /\ m \in 0 .. n /\ R(m) \in Nat /\ R(m) <= R(m + 1)  BY <1>1
    <3>2. CASE m + 1 = i  BY <3>1, <3>2, <2>0
    <3>3. CASE m + 1 # i
      <4>1. m + 1 >= i => R(i) <= R(m)  BY <2>2, <3>3
      <4>2. R(m + 1) \in Nat  BY <1>1, <3>1
      <4> QED  BY <2>0, <3>1, <4>1, <4>2
    <3> QED  BY <3>2, <3>3
  <2> HIDE DEF T
  <2> QED  BY <2>1, <2>2, Induction
<1>3. k \in 0 .. n /\ R(i) <= R(k)  BY <1>2
<1>4. ASSUME k \in Identities(lines), i < k PROVE R(i) < R(k)
  <2>1. k - 1 \in 0 .. n /\ k - 1 >= i /\ k - 1 \in 0 .. (n - 1) /\ (k - 1) + 1 = k  BY <1>4
  <2>2. R(i) <= R(k - 1)  BY <1>2, <2>1
  <2>3. R(k) = R(k - 1) + 1  BY <1>1, <1>4, <2>1
  <2>4. R(i) \in Nat /\ R(k - 1) \in Nat  BY <1>1, <2>1
  <2> QED  BY <2>2, <2>3, <2>4
<1> QED  BY <1>3, <1>4 DEF R

\* Every number up to the rank of a line is the rank of an identity before it.
LEMMA RankIsOnto ==
  ASSUME NEW n \in Nat, NEW lines, DOMAIN lines = 1 .. n, NEW k \in 0 .. n
  PROVE  \A r \in 1 .. Rank(lines, k) :
           \E i \in Identities(lines) : i <= k /\ Rank(lines, i) = r
<1> DEFINE R(m) == Rank(lines, m)
           I == Identities(lines)
           T == {m \in 0 .. n : \A r \in 1 .. R(m) : \E i \in I : i <= m /\ R(i) = r}
<1>0. I \in SUBSET (1 .. n)  BY DEF Identities
<1>1. /\ R(0) = 0
      /\ \A m \in 0 .. n : R(m) \in Nat
      /\ \A m \in 0 .. (n - 1) : R(m + 1) = IF m + 1 \in I THEN R(m) + 1 ELSE R(m)
  BY RankFacts
<1> HIDE DEF R, I
<1>2. 0 \in T  BY <1>1
<1>3. ASSUME NEW m \in 0 .. (n - 1), m \in T PROVE m + 1 \in T
  <2>1. m + 1 \in 0 .. n /\ m \in 0 .. n /\ R(m) \in Nat  BY <1>1
  <2>2. ASSUME NEW r \in 1 .. R(m + 1) PROVE \E i \in I : i <= m + 1 /\ R(i) = r
    <3>1. CASE r \in 1 .. R(m)
      <4>1. PICK i \in I : i <= m /\ R(i) = r  BY <1>3, <3>1
      <4>2. i <= m + 1  BY <1>0, <4>1
      <4> QED  BY <4>1, <4>2
    <3>2. CASE r \notin 1 .. R(m)
      <4>1. m + 1 \in I /\ r = R(m + 1)
        <5>1. m + 1 \in I  BY <1>1, <2>1, <3>2
        <5>2. R(m + 1) = R(m) + 1  BY <1>1, <5>1
        <5> QED  BY <2>1, <3>2, <5>1, <5>2
      <4>2. m + 1 <= m + 1  OBVIOUS
      <4> QED  BY <4>1, <4>2
    <3> QED  BY <3>1, <3>2
  <2> QED  BY <2>1, <2>2
<1>4. \A m \in 0 .. n : m \in T
  <2> HIDE DEF T
  <2> QED  BY <1>2, <1>3, Induction
<1> QED  BY <1>4 DEF R, I

\* The state lines up to k that belong to the portIdentity line i.
StatesUpTo(lines, i, k) ==
  {j \in Belonging(lines, i) : lines[j].key = "portState" /\ j <= k}

\* The port that line i begins, as the lines up to k tell it.
PortUpTo(lines, i, k) ==
  [number |-> NewPort(lines[i]).number,
   state |-> LET S == StatesUpTo(lines, i, k)
             IN  IF S = {} THEN NoState ELSE lines[Max(S)].state]

\* Membership of these sets.
LEMMA StatesMembers ==
  ASSUME NEW n \in Nat, NEW lines, DOMAIN lines = 1 .. n, NEW i \in Identities(lines)
  PROVE  /\ Identities(lines) \in SUBSET (1 .. n)
         /\ \A m \in Identities(lines) : lines[m].key = "portIdentity"
         /\ i \in 1 .. n
         /\ \A j, k : j \in StatesUpTo(lines, i, k) <=>
              /\ j \in 1 .. n /\ j > i /\ j <= k
              /\ lines[j].key = "portState"
              /\ \A m \in Identities(lines) : m > i => j < m
BY DEF StatesUpTo, Belonging, Identities

\* At its own line a port is new, and in the end it is the one that PortAt is.
LEMMA PortUpToEnds ==
  ASSUME NEW n \in Nat, NEW lines, DOMAIN lines = 1 .. n, NEW i \in Identities(lines)
  PROVE  /\ PortUpTo(lines, i, i) = NewPort(lines[i])
         /\ PortUpTo(lines, i, n) = PortAt(lines, i)
<1> DEFINE D == StatesUpTo(lines, i, n)
<1>1. StatesUpTo(lines, i, i) = {}  BY StatesMembers
<1>2. PortUpTo(lines, i, i) = NewPort(lines[i])  BY <1>1 DEF PortUpTo, NewPort
<1>3. D = {j \in Belonging(lines, i) : lines[j].key = "portState"}
  BY DEF StatesUpTo, Belonging
<1>4. PortAt(lines, i) = [number |-> NewPort(lines[i]).number,
                          state |-> IF D = {} THEN NoState ELSE lines[Max(D)].state]
  BY <1>3 DEF PortAt, NewPort, NoState
<1> QED  BY <1>2, <1>4 DEF PortUpTo

\* The next line leaves a port as it is, unless it is a portState line and no
\* port has begun since.
LEMMA PortUpToSame ==
  ASSUME NEW n \in Nat, NEW lines, DOMAIN lines = 1 .. n, NEW i \in Identities(lines),
         NEW k \in i .. (n - 1),
         lines[k + 1].key # "portState" \/ Rank(lines, i) < Rank(lines, k)
  PROVE  PortUpTo(lines, i, k + 1) = PortUpTo(lines, i, k)
<1> DEFINE S(m) == StatesUpTo(lines, i, m)
<1>1. /\ Identities(lines) \in SUBSET (1 .. n)
      /\ i \in 1 .. n
      /\ \A j, m : j \in S(m) <=>
           /\ j \in 1 .. n /\ j > i /\ j <= m
           /\ lines[j].key = "portState"
           /\ \A q \in Identities(lines) : q > i => j < q
  BY StatesMembers
<1>2. k + 1 \in 1 .. n /\ k \in 0 .. n /\ k \in Nat  BY <1>1
<1> HIDE DEF S
<1>3. k + 1 \notin S(k + 1)
  <2>1. CASE lines[k + 1].key # "portState"  BY <1>1, <2>1
  <2>2. CASE Rank(lines, i) < Rank(lines, k)
    <3>1. i \in 0 .. n /\ \A m \in 0 .. n : Rank(lines, m) \in Nat  BY <1>1, RankFacts
    <3>2. Rank(lines, k) \in 1 .. Rank(lines, k)  BY <1>2, <2>2, <3>1
    <3>3. PICK m \in Identities(lines) : m <= k /\ Rank(lines, m) = Rank(lines, k)
      BY <1>2, <3>2, RankIsOnto
    <3>4. m > i
      <4> SUFFICES ASSUME m <= i PROVE FALSE  BY <1>1
      <4>1. m \in 0 .. n /\ i \in m .. n  BY <1>1
      <4>2. Rank(lines, m) <= Rank(lines, i)  BY <4>1, RankGrows
      <4> QED  BY <1>2, <2>2, <3>1, <3>3, <4>1, <4>2
    <3>5. ~(k + 1 < m)  BY <1>1, <1>2, <3>3
    <3> QED  BY <1>1, <3>4, <3>5
  <2> QED  BY <2>1, <2>2
<1>4. S(k + 1) = S(k)
  <2> SUFFICES ASSUME NEW j PROVE j \in S(k + 1) <=> j \in S(k)  OBVIOUS
  <2>1. j \in 1 .. n => (j <= k + 1 <=> j <= k \/ j = k + 1)  BY <1>2
  <2> QED  BY <1>1, <1>3, <2>1
<1>5. StatesUpTo(lines, i, k + 1) = StatesUpTo(lines, i, k)  BY <1>4 DEF S
<1> QED  BY <1>5 DEF PortUpTo

\* A portState line sets the state of the last port that has begun.
LEMMA PortUpToState ==
  ASSUME NEW n \in Nat, NEW lines, DOMAIN lines = 1 .. n, NEW i \in Identities(lines),
         NEW k \in i .. (n - 1),
         lines[k + 1].key = "portState", Rank(lines, i) = Rank(lines, k)
  PROVE  PortUpTo(lines, i, k + 1) =
           [number |-> PortUpTo(lines, i, k).number, state |-> lines[k + 1].state]
<1>1. /\ Identities(lines) \in SUBSET (1 .. n)
      /\ \A m \in Identities(lines) : lines[m].key = "portIdentity"
      /\ i \in 1 .. n
      /\ \A j, m : j \in StatesUpTo(lines, i, m) <=>
           /\ j \in 1 .. n /\ j > i /\ j <= m
           /\ lines[j].key = "portState"
           /\ \A q \in Identities(lines) : q > i => j < q
  BY StatesMembers
<1>2. k + 1 \in 1 .. n /\ k \in 0 .. n /\ k \in Nat /\ k + 1 > i  BY <1>1
<1>3. ASSUME NEW m \in Identities(lines), m > i PROVE k + 1 < m
  <2>1. m # k + 1  BY <1>1
  <2>2. CASE m <= k
    <3>1. i \in 0 .. n /\ m \in i .. n /\ m \in 0 .. n /\ k \in m .. n
      BY <1>1, <1>2, <1>3, <2>2
    <3>2. Rank(lines, i) < Rank(lines, m)  BY <1>3, <3>1, RankGrows
    <3>3. Rank(lines, m) <= Rank(lines, k)  BY <3>1, RankGrows
    <3>4. Rank(lines, m) \in Nat /\ Rank(lines, k) \in Nat  BY <1>2, <3>1, RankFacts
    <3> QED  BY <3>2, <3>3, <3>4
  <2>3. CASE ~(m <= k)  BY <1>1, <1>2, <2>1, <2>3
  <2> QED  BY <2>2, <2>3
<1> DEFINE D == StatesUpTo(lines, i, k + 1)
<1>4. k + 1 \in D
  <2>1. k + 1 <= k + 1  BY <1>2
  <2> QED  BY <1>1, <1>2, <1>3, <2>1
<1>5. D \in SUBSET (1 .. (k + 1)) /\ D # {}  BY <1>1, <1>2, <1>4
<1>6. Max(D) = k + 1
  <2> HIDE DEF D
  <2> QED  BY <1>2, <1>4, <1>5, GreatestSplit
<1> QED  BY <1>4, <1>6 DEF PortUpTo

\* What ParsePorts() has after k lines: the ports that have begun, the last of
\* them as the current one, each as these lines tell it.
PortsUpTo(lines, acc, k) ==
  LET all == acc.ports \o acc.current
  IN  /\ Len(all) = Rank(lines, k)
      /\ Len(acc.current) = IF Rank(lines, k) = 0 THEN 0 ELSE 1
      /\ \A i \in Identities(lines) :
           i <= k => all[Rank(lines, i)] = PortUpTo(lines, i, k)

\* The next line keeps this.
LEMMA PortsUpToNext ==
  ASSUME NEW n \in Nat, NEW lines, DOMAIN lines = 1 .. n, NEW k \in 0 .. (n - 1),
         NEW acc \in PortsSoFar(n, lines), PortsUpTo(lines, acc, k)
  PROVE  PortsUpTo(lines, TakePort(acc, lines[k + 1]), k + 1)
<1> DEFINE I == Identities(lines)
           R(m) == Rank(lines, m)
           line == lines[k + 1]
           all == acc.ports \o acc.current
           next == TakePort(acc, line)
<1>1. PICK P : acc \in [ports : Seq(P), current : Seq(P)]  BY DEF PortsSoFar
<1>2. /\ k \in 0 .. n /\ k + 1 \in 1 .. n /\ k \in Nat
      /\ I \in SUBSET (1 .. n)
      /\ \A m \in I : lines[m].key = "portIdentity"
      /\ k + 1 \in I <=> line.key = "portIdentity"
  BY DEF Identities
<1>3. /\ \A m \in 0 .. n : R(m) \in Nat
      /\ R(k + 1) = IF k + 1 \in I THEN R(k) + 1 ELSE R(k)
  BY RankFacts
<1>4. ASSUME NEW i \in I, i <= k PROVE R(i) \in 1 .. R(k)
  <2>1. i \in 0 .. n /\ 0 \in 0 .. n /\ i \in 0 .. n /\ k \in i .. n /\ 0 < i  BY <1>2, <1>4
  <2>2. R(i) <= R(k) /\ R(i) \in Nat /\ R(k) \in Nat  BY <1>2, <1>3, <2>1, RankGrows
  <2>3. R(0) < R(i) /\ R(0) = 0  BY <2>1, RankGrows, RankFacts
  <2> QED  BY <2>2, <2>3
<1>5. /\ Len(all) = R(k)
      /\ Len(acc.current) = IF R(k) = 0 THEN 0 ELSE 1
      /\ \A i \in I : i <= k => all[R(i)] = PortUpTo(lines, i, k)
  BY DEF PortsUpTo
<1>6. CASE line.key = "portIdentity"
  <2>1. next.ports = all /\ next.current = <<NewPort(line)>>  BY <1>6 DEF TakePort
  <2>2. k + 1 \in I /\ R(k + 1) = R(k) + 1 /\ R(k) \in Nat  BY <1>2, <1>3, <1>6
  <2>3. /\ Len(all \o <<NewPort(line)>>) = R(k) + 1
        /\ \A r \in 1 .. R(k) : (all \o <<NewPort(line)>>)[r] = all[r]
        /\ (all \o <<NewPort(line)>>)[R(k) + 1] = NewPort(line)
    <3>1. all \in Seq(P)  BY <1>1
    <3> HIDE DEF all, R
    <3> QED  BY <1>5, <3>1, OneMore
  <2>4. ASSUME NEW i \in I, i <= k + 1
        PROVE  (all \o <<NewPort(line)>>)[R(i)] = PortUpTo(lines, i, k + 1)
    <3>1. CASE i = k + 1
      <4>1. PortUpTo(lines, k + 1, k + 1) = NewPort(line)  BY <2>2, PortUpToEnds
      <4> QED  BY <2>2, <2>3, <3>1, <4>1
    <3>2. CASE i <= k
      <4>1. R(i) \in 1 .. R(k)  BY <1>4, <3>2
      <4>2. i \in 1 .. n /\ k \in i .. (n - 1)  BY <1>2, <3>2
      <4>3. line.key # "portState"  BY <1>6
      <4>4. PortUpTo(lines, i, k + 1) = PortUpTo(lines, i, k)
        BY <4>2, <4>3, PortUpToSame
      <4> HIDE DEF all, R, line
      <4> QED  BY <1>5, <2>3, <3>2, <4>1, <4>4
    <3>3. i = k + 1 \/ i <= k  BY <1>2, <2>4
    <3> QED  BY <3>1, <3>2, <3>3
  <2>5. Len(next.current) = IF R(k + 1) = 0 THEN 0 ELSE 1  BY <2>1, <2>2
  <2> HIDE DEF all, next, R, line
  <2> QED  BY <2>1, <2>2, <2>3, <2>4, <2>5 DEF PortsUpTo, next, R, line
<1>7. CASE line.key = "portState" /\ acc.current # <<>>
  <2>1. R(k) # 0 /\ R(k) \in Nat /\ R(k + 1) = R(k) /\ k + 1 \notin I
    BY <1>1, <1>2, <1>3, <1>5, <1>7
  <2>2. PICK i \in I : i <= k /\ R(i) = R(k)
    <3>1. R(k) \in 1 .. R(k)  BY <2>1
    <3> QED  BY <1>2, <3>1, RankIsOnto
  <2> DEFINE port == PortUpTo(lines, i, k)
             changed == [number |-> port.number, state |-> line.state]
             new == [acc.current EXCEPT ![1] = [acc.current[1] EXCEPT !.state = line.state]]
  <2>3. Len(acc.current) = 1 /\ acc.current \in Seq(P) /\ acc.ports \in Seq(P)
    BY <1>1, <1>5, <2>1
  <2>4. PICK x : acc.current = <<x>>  BY <2>3
  <2>5. /\ R(k) = Len(acc.ports) + 1 /\ Len(acc.ports) \in Nat
        /\ all[R(k)] = x
        /\ \A r \in 1 .. Len(acc.ports) : all[r] = acc.ports[r]
    <3>1. all = acc.ports \o <<x>> /\ Len(acc.ports) \in Nat  BY <2>3, <2>4
    <3> HIDE DEF R, all
    <3>2. /\ Len(all) = Len(acc.ports) + 1
          /\ all[Len(acc.ports) + 1] = x
          /\ \A r \in 1 .. Len(acc.ports) : all[r] = acc.ports[r]
      BY <2>3, <3>1, OneMore
    <3>3. R(k) = Len(acc.ports) + 1  BY <1>5, <3>2
    <3> QED  BY <3>1, <3>2, <3>3
  <2>6. acc.current[1] = port  BY <1>5, <2>2, <2>4, <2>5
  <2>7. port = [number |-> port.number, state |-> port.state]  BY DEF PortUpTo
  <2>8. next.ports = acc.ports /\ next.current = new  BY <1>1, <1>7 DEF TakePort
  <2>9. new = <<changed>>
    <3> HIDE DEF port
    <3> QED  BY <2>3, <2>4, <2>6, <2>7
  <2>10. /\ Len(acc.ports \o new) = R(k)
         /\ \A r \in 1 .. (R(k) - 1) : (acc.ports \o new)[r] = all[r]
         /\ (acc.ports \o new)[R(k)] = changed
    <3> HIDE DEF R, changed, new, all
    <3>1. /\ Len(acc.ports \o <<changed>>) = Len(acc.ports) + 1
          /\ (acc.ports \o <<changed>>)[Len(acc.ports) + 1] = changed
          /\ \A r \in 1 .. Len(acc.ports) : (acc.ports \o <<changed>>)[r] = acc.ports[r]
      BY <2>3, OneMore
    <3>2. new = <<changed>>  BY <2>9
    <3>3. R(k) - 1 = Len(acc.ports)  BY <2>5
    <3> QED  BY <2>5, <3>1, <3>2, <3>3
  <2>11. ASSUME NEW j \in I, j <= k + 1
        PROVE  (acc.ports \o new)[R(j)] = PortUpTo(lines, j, k + 1)
    <3>1. j \in 1 .. n /\ j <= k /\ k \in j .. (n - 1)  BY <1>2, <2>1, <2>11
    <3>2. R(j) \in 1 .. R(k)  BY <1>4, <3>1
    <3>3. CASE R(j) = R(k)
      <4>1. PortUpTo(lines, j, k + 1) =
              [number |-> PortUpTo(lines, j, k).number, state |-> line.state]
        BY <1>7, <3>1, <3>3, PortUpToState
      <4>2. PortUpTo(lines, j, k) = port  BY <1>5, <2>2, <3>1, <3>3
      <4>3. PortUpTo(lines, j, k + 1) = changed
        <5> HIDE DEF port
        <5> QED  BY <4>1, <4>2
      <4> HIDE DEF changed, new, R
      <4> QED  BY <2>10, <3>3, <4>3
    <3>4. CASE R(j) # R(k)
      <4>1. R(j) < R(k) /\ R(j) \in 1 .. (R(k) - 1)  BY <2>1, <3>2, <3>4
      <4>2. PortUpTo(lines, j, k + 1) = PortUpTo(lines, j, k)
        BY <3>1, <4>1, PortUpToSame
      <4>3. all[R(j)] = PortUpTo(lines, j, k)  BY <1>5, <3>1
      <4> HIDE DEF port, new, R, all
      <4> QED  BY <2>10, <4>1, <4>2, <4>3
    <3> QED  BY <3>3, <3>4
  <2>12. Len(next.current) = 1
    <3> HIDE DEF new, next, port
    <3> QED  BY <2>8, <2>9
  <2> HIDE DEF all, next, R, line, new, port
  <2> QED  BY <2>1, <2>8, <2>10, <2>11, <2>12 DEF PortsUpTo, next, R, line
<1>8. CASE line.key # "portIdentity" /\ ~(line.key = "portState" /\ acc.current # <<>>)
  <2>1. next = acc  BY <1>8 DEF TakePort
  <2>2. R(k + 1) = R(k) /\ k + 1 \notin I  BY <1>2, <1>3, <1>8
  <2>3. ASSUME NEW i \in I, i <= k + 1 PROVE all[R(i)] = PortUpTo(lines, i, k + 1)
    <3>1. i \in 1 .. n /\ i <= k /\ k \in i .. (n - 1)  BY <1>2, <2>2, <2>3
    <3>2. R(i) \in 1 .. R(k)  BY <1>4, <3>1
    <3>3. line.key # "portState"
      <4>1. R(k) # 0  BY <1>3, <3>2
      <4>2. Len(acc.current) = 1  BY <1>5, <4>1
      <4>3. PICK x : acc.current = <<x>>  BY <1>1, <4>2
      <4>4. <<x>> # <<>>  OBVIOUS
      <4>5. acc.current # <<>>  BY <4>3, <4>4
      <4> QED  BY <1>8, <4>5
    <3>4. PortUpTo(lines, i, k + 1) = PortUpTo(lines, i, k)  BY <3>1, <3>3, PortUpToSame
    <3> QED  BY <1>5, <3>1, <3>4
  <2> HIDE DEF next, R, line
  <2> QED  BY <1>5, <2>1, <2>2, <2>3 DEF PortsUpTo, next, R, line
<1> QED  BY <1>6, <1>7, <1>8

\* For an output of any length, ParsePorts() lists each port once, in order,
\* with the last state that follows its identity and precedes the next one
\* (ptp_topology.cpp:138-165).
THEOREM PortsOfAnyOutput ==
  ASSUME NEW n \in Nat, NEW lines, DOMAIN lines = 1 .. n
  PROVE  /\ Len(ParsePorts(lines)) = Cardinality(Identities(lines))
         /\ \A i \in Identities(lines) :
              ParsePorts(lines)[Rank(lines, i)] = PortAt(lines, i)
<1>1. PICK acc : /\ ParsePorts(lines) = acc[n].ports \o acc[n].current
                 /\ acc[0] = NoPorts
                 /\ \A k \in 1 .. n : acc[k] = TakePort(acc[k - 1], lines[k])
                 /\ \A k \in 0 .. n : acc[k] \in PortsSoFar(n, lines)
  BY PortsChain
<1> DEFINE T == {k \in 0 .. n : PortsUpTo(lines, acc[k], k)}
<1>2. 0 \in T
  <2>1. NoPorts.ports \o NoPorts.current = <<>> /\ Len(NoPorts.current) = 0
    BY DEF NoPorts
  <2>2. Rank(lines, 0) = 0  BY RankFacts
  <2>3. \A i \in Identities(lines) : i \in 1 .. n /\ ~(i <= 0)  BY DEF Identities
  <2>4. PortsUpTo(lines, NoPorts, 0)
    <3>1. Len(<<>>) = 0  OBVIOUS
    <3> QED  BY <2>1, <2>2, <2>3, <3>1 DEF PortsUpTo
  <2>5. 0 \in 0 .. n  OBVIOUS
  <2> QED  BY <1>1, <2>4, <2>5
<1>3. ASSUME NEW k \in 0 .. (n - 1), k \in T PROVE k + 1 \in T
  <2>1. k + 1 \in 1 .. n /\ k + 1 \in 0 .. n /\ k \in 0 .. n /\ (k + 1) - 1 = k  OBVIOUS
  <2>2. acc[k] \in PortsSoFar(n, lines) /\ PortsUpTo(lines, acc[k], k)  BY <1>1, <1>3, <2>1
  <2>3. PortsUpTo(lines, TakePort(acc[k], lines[k + 1]), k + 1)  BY <2>2, PortsUpToNext
  <2>4. acc[k + 1] = TakePort(acc[k], lines[k + 1])  BY <1>1, <2>1
  <2> QED  BY <2>1, <2>3, <2>4
<1>4. PortsUpTo(lines, acc[n], n)
  <2>1. n \in 0 .. n  OBVIOUS
  <2> HIDE DEF T
  <2>2. \A k \in 0 .. n : k \in T  BY <1>2, <1>3, Induction
  <2> QED  BY <2>1, <2>2 DEF T
<1>5. \A i \in Identities(lines) : i <= n /\ PortUpTo(lines, i, n) = PortAt(lines, i)
  <2> SUFFICES ASSUME NEW i \in Identities(lines)
               PROVE  i <= n /\ PortUpTo(lines, i, n) = PortAt(lines, i)
    OBVIOUS
  <2>1. i \in 1 .. n  BY DEF Identities
  <2> QED  BY <2>1, PortUpToEnds
<1>6. Rank(lines, n) = Cardinality(Identities(lines))  BY RankFacts
<1> QED  BY <1>1, <1>4, <1>5, <1>6 DEF PortsUpTo

\* In an output of any length the child port is the first one in state SLAVE
\* (ptp_topology.cpp:167-173).
THEOREM ChildOfAnyOutput ==
  ASSUME NEW n \in Nat, NEW lines, DOMAIN lines = 1 .. n,
         NEW S, S = {i \in Identities(lines) : PortAt(lines, i).state = "SLAVE"}
  PROVE  ChildPort(ParsePorts(lines)) = IF S = {} THEN 0 ELSE PortAt(lines, Min(S)).number
<1> DEFINE ports == ParsePorts(lines)
           I == {r \in 1 .. Len(ports) : ports[r].state = "SLAVE"}
           R(i) == Rank(lines, i)
<1>1. /\ Len(ports) = Cardinality(Identities(lines))
      /\ \A i \in Identities(lines) : ports[R(i)] = PortAt(lines, i)
  BY PortsOfAnyOutput
<1>2. /\ R(n) = Cardinality(Identities(lines)) /\ R(n) \in Nat /\ R(0) = 0
      /\ \A i \in 0 .. n : R(i) \in Nat
  <2>1. n \in 0 .. n  OBVIOUS
  <2> QED  BY <2>1, RankFacts
<1>3. Identities(lines) \in SUBSET (1 .. n)  BY DEF Identities
<1>4. \A i \in S : R(i) \in I
  <2> SUFFICES ASSUME NEW i \in S PROVE R(i) \in I  OBVIOUS
  <2>1. /\ i \in Identities(lines) /\ i \in 1 .. n /\ i \in 0 .. n /\ 0 \in 0 .. n
        /\ i \in 0 .. n /\ n \in i .. n /\ 0 < i
    BY <1>3
  <2>2. R(0) < R(i) /\ R(i) <= R(n)  BY <2>1, RankGrows
  <2>3. R(i) \in 1 .. Len(ports)  BY <1>1, <1>2, <2>1, <2>2
  <2>4. ports[R(i)].state = "SLAVE"  BY <1>1, <2>1
  <2> HIDE DEF ports, R
  <2> QED  BY <2>3, <2>4
<1>5. \A r \in I : \E i \in S : R(i) = r
  <2> SUFFICES ASSUME NEW r \in I PROVE \E i \in S : R(i) = r  OBVIOUS
  <2>1. r \in 1 .. R(n) /\ n \in 0 .. n  BY <1>1, <1>2
  <2>2. PICK i \in Identities(lines) : R(i) = r  BY <2>1, RankIsOnto
  <2>3. PortAt(lines, i).state = "SLAVE"  BY <1>1, <2>2
  <2> QED  BY <2>2, <2>3
<1>6. ChildPort(ports) = IF I = {} THEN 0 ELSE ports[Min(I)].number
  <2>1. I # {} => Min(I) \in I /\ Min(I) # 0
    <3>1. I \in SUBSET Nat /\ 0 \notin I  OBVIOUS
    <3> HIDE DEF I
    <3> QED  BY <3>1, LeastOfSet
  <2> HIDE DEF ports
  <2> QED  BY <2>1 DEF ChildPort, SelectInSeq
<1>7. CASE S = {}
  <2>1. I = {}
    <3> HIDE DEF I
    <3> QED  BY <1>5, <1>7
  <2> HIDE DEF I, ports
  <2> QED  BY <1>6, <1>7, <2>1 DEF ports
<1>8. CASE S # {}
  <2>1. S \in SUBSET Nat /\ I \in SUBSET Nat /\ S \subseteq Identities(lines)  BY <1>3
  <2>2. Min(S) \in S /\ \A i \in S : Min(S) <= i  BY <1>8, <2>1, LeastOfSet
  <2>3. R(Min(S)) \in I  BY <1>4, <2>2
  <2>4. Min(I) \in I /\ \A r \in I : Min(I) <= r
    <3> HIDE DEF I
    <3> QED  BY <2>1, <2>3, LeastOfSet
  <2>5. PICK i \in S : R(i) = Min(I)  BY <1>5, <2>4
  <2>6. R(Min(S)) <= R(i)
    <3>1. Min(S) \in 1 .. n /\ i \in 1 .. n /\ Min(S) <= i  BY <1>3, <2>1, <2>2
    <3>2. Min(S) \in 0 .. n /\ i \in Min(S) .. n  BY <3>1
    <3> QED  BY <3>2, RankGrows
  <2>7. R(Min(S)) = Min(I)  BY <2>1, <2>3, <2>4, <2>5, <2>6
  <2>8. ports[Min(I)] = PortAt(lines, Min(S))  BY <1>1, <2>1, <2>2, <2>7
  <2> HIDE DEF I, ports
  <2> QED  BY <1>6, <1>8, <2>3, <2>8 DEF ports
<1> QED  BY <1>7, <1>8

-----------------------------------------------------------------------------
(* The scalar fields                                                       *)

\* The last position of s that is in J; 0 when there is none.
LastIn(s, J) == IF s \cap J = {} THEN 0 ELSE Max(s \cap J)

\* The last position of all either is in J or does not matter.
LEMMA LastInStep ==
  ASSUME NEW n \in Nat, NEW s \in SUBSET (1 .. n), s # {}, NEW J
  PROVE  LastIn(s, J) = IF Max(s) \in J THEN Max(s) ELSE LastIn(s \ {Max(s)}, J)
<1>1. s \in SUBSET (0 .. n) /\ s \cap J \in SUBSET (0 .. n)
  <2>1. s \in SUBSET (0 .. n)  OBVIOUS
  <2>2. s \cap J \subseteq s  OBVIOUS
  <2> QED  BY <2>1, <2>2
<1>2. Max(s) \in s /\ \A i \in s : i <= Max(s)  BY <1>1, GreatestOfSet
<1>3. CASE Max(s) \in J
  <2>1. s \cap J # {}  BY <1>2, <1>3
  <2>2. Max(s \cap J) \in s \cap J /\ \A i \in s \cap J : i <= Max(s \cap J)
    BY <1>1, <2>1, GreatestOfSet
  <2>3. Max(s \cap J) = Max(s)
    <3>1. Max(s) <= Max(s \cap J) /\ Max(s \cap J) <= Max(s)  BY <1>2, <1>3, <2>2
    <3>2. Max(s) \in 0 .. n /\ Max(s \cap J) \in 0 .. n  BY <1>1, <1>2, <2>2
    <3> QED  BY <3>1, <3>2
  <2> QED  BY <1>3, <2>1, <2>3 DEF LastIn
<1>4. CASE Max(s) \notin J
  <2>1. s \cap J = (s \ {Max(s)}) \cap J  BY <1>4
  <2> QED  BY <1>4, <2>1 DEF LastIn
<1> QED  BY <1>3, <1>4

\* The last position of nothing and of everything.
LEMMA LastInEnds ==
  ASSUME NEW n \in Nat, NEW J \in SUBSET (1 .. n)
  PROVE  /\ LastIn({}, J) = 0
         /\ LastIn(1 .. n, J) = IF J = {} THEN 0 ELSE Max(J)
         /\ J # {} => Max(J) \in 1 .. n
<1>1. (1 .. n) \cap J = J /\ {} \cap J = {}  OBVIOUS
<1>2. J # {} => Max(J) \in 1 .. n  BY Remaining
<1> QED  BY <1>1, <1>2 DEF LastIn

\* lines are the lines of an output that has n.
IsOutput(lines, n) == DOMAIN lines = 1 .. n

\* The clock identity of DEFAULT_DATA_SET is that of its last line that has one.
LEMMA LocalIsLast ==
  ASSUME NEW n \in Nat, NEW lines, IsOutput(lines, n)
  PROVE  ParseDefault(lines) = LocalOf(lines)
<1>1. PICK J : J = {i \in 1 .. n : lines[i].key = "clockIdentity"}  OBVIOUS
<1> DEFINE C(s) == IF LastIn(s, J) = 0 THEN NoClock ELSE lines[LastIn(s, J)].clock
           E(h) == h = [s \in SUBSET (1 .. n) |->
                          IF s = {} THEN NoClock
                          ELSE TakeDefault(h[s \ {Max(s)}], lines[Max(s)])]
           c == [s \in SUBSET (1 .. n) |-> C(s)]
<1>2. C({}) = NoClock /\ C(1 .. n) = IF J = {} THEN NoClock ELSE lines[Max(J)].clock
  <2>1. J \in SUBSET (1 .. n)  BY <1>1
  <2> QED  BY <2>1, LastInEnds
<1>3. ASSUME NEW s \in SUBSET (1 .. n), s # {}
      PROVE  C(s) = TakeDefault(C(s \ {Max(s)}), lines[Max(s)])
  <2>1. Max(s) \in 1 .. n  BY <1>3, Remaining
  <2>2. LastIn(s, J) = IF Max(s) \in J THEN Max(s) ELSE LastIn(s \ {Max(s)}, J)
    BY <1>3, LastInStep
  <2> QED  BY <1>1, <2>1, <2>2 DEF TakeDefault
<1> HIDE DEF C
<1>4. E(c)
  <2> DEFINE r(s) == IF s = {} THEN NoClock
                     ELSE TakeDefault(c[s \ {Max(s)}], lines[Max(s)])
  <2>1. ASSUME NEW s \in SUBSET (1 .. n) PROVE c[s] = r(s)
    <3>1. CASE s = {}  BY <1>2, <3>1
    <3>2. CASE s # {}
      <4>1. s \ {Max(s)} \in SUBSET (1 .. n)  BY <3>2, Remaining
      <4> QED  BY <1>3, <3>2, <4>1
    <3> QED  BY <3>1, <3>2
  <2>2. c = [s \in SUBSET (1 .. n) |-> c[s]]  OBVIOUS
  <2> HIDE DEF r, c
  <2>3. c = [s \in SUBSET (1 .. n) |-> r(s)]  BY <2>1, <2>2
  <2> QED  BY <2>3 DEF r
<1> DEFINE iter == CHOOSE h : E(h)
<1>5. E(iter)  BY <1>4
<1>6. ParseDefault(lines) = iter[1 .. n]
  BY DEF ParseDefault, FoldLeft, MapThenFoldSet, IsOutput
<1> HIDE DEF iter
<1>7. iter[1 .. n] = C(1 .. n)
  <2> DEFINE T == {k \in 0 .. n : iter[1 .. k] = C(1 .. k)}
  <2>1. 0 \in T
    <3>1. 1 .. 0 = {} /\ {} \in SUBSET (1 .. n)  OBVIOUS
    <3> QED  BY <1>2, <1>5, <3>1
  <2>2. ASSUME NEW k \in 0 .. (n - 1), k \in T PROVE k + 1 \in T
    <3>1. k + 1 \in 1 .. n /\ k + 1 \in 0 .. n /\ (k + 1) - 1 = k  OBVIOUS
    <3>2. /\ 1 .. (k + 1) \in SUBSET (1 .. n) /\ 1 .. (k + 1) # {}
          /\ Max(1 .. (k + 1)) = k + 1 /\ (1 .. (k + 1)) \ {k + 1} = 1 .. k
      BY <3>1, Interval
    <3>3. iter[1 .. (k + 1)] = TakeDefault(iter[1 .. k], lines[k + 1])  BY <1>5, <3>2
    <3>4. C(1 .. (k + 1)) = TakeDefault(C(1 .. k), lines[k + 1])  BY <1>3, <3>2
    <3> QED  BY <2>2, <3>1, <3>3, <3>4
  <2> HIDE DEF T
  <2>3. n \in 0 .. n  OBVIOUS
  <2>4. n \in T  BY <2>1, <2>2, <2>3, Induction
  <2> QED  BY <2>4 DEF T
<1>8. LocalOf(lines) = IF J = {} THEN NoClock ELSE lines[Max(J)].clock
  BY <1>1 DEF LocalOf, LastOr, IsOutput
<1> QED  BY <1>2, <1>6, <1>7, <1>8

\* TakeParent() field by field.
LEMMA TakeParentFields ==
  ASSUME NEW x, NEW y, NEW z, NEW line
  PROVE  LET first == line.key = "parentPortIdentity"
             second == line.key = "grandmasterIdentity"
         IN  TakeParent([clock |-> x, port |-> y, grandmaster |-> z], line) =
               [clock |-> IF first THEN line.clock ELSE x,
                port |-> IF first /\ line.port # NoNumber THEN line.port ELSE y,
                grandmaster |-> IF second THEN line.clock ELSE z]
<1> DEFINE parent == [clock |-> x, port |-> y, grandmaster |-> z]
<1>1. CASE line.key = "parentPortIdentity"
  <2>1. TakeParent(parent, line) =
          [parent EXCEPT !.clock = line.clock,
                         !.port = IF line.port = NoNumber THEN parent.port ELSE line.port]
    BY <1>1 DEF TakeParent
  <2>2. line.key # "grandmasterIdentity"  BY <1>1
  <2> QED  BY <1>1, <2>1, <2>2
<1>2. CASE line.key = "grandmasterIdentity"
  <2>1. TakeParent(parent, line) = [parent EXCEPT !.grandmaster = line.clock]
    BY <1>2 DEF TakeParent
  <2>2. line.key # "parentPortIdentity"  BY <1>2
  <2> QED  BY <1>2, <2>1, <2>2
<1>3. CASE line.key # "parentPortIdentity" /\ line.key # "grandmasterIdentity"
  BY <1>3 DEF TakeParent
<1> QED  BY <1>1, <1>2, <1>3

\* So are the fields of PARENT_DATA_SET, each for itself; a port number that does
\* not parse does not count.
LEMMA ParentIsLast ==
  ASSUME NEW n \in Nat, NEW lines, IsOutput(lines, n)
  PROVE  ParseParent(lines) = ParentOf(lines)
<1> DEFINE base == [clock |-> NoClock, port |-> 0, grandmaster |-> NoClock]
<1>1. PICK J, K, G :
        /\ J = {i \in 1 .. n : lines[i].key = "parentPortIdentity"}
        /\ K = {i \in 1 .. n : lines[i].key = "parentPortIdentity" /\ lines[i].port # NoNumber}
        /\ G = {i \in 1 .. n : lines[i].key = "grandmasterIdentity"}
  OBVIOUS
<1> DEFINE all == [clock |-> IF J = {} THEN NoClock ELSE lines[Max(J)].clock,
                   port |-> IF K = {} THEN 0 ELSE lines[Max(K)].port,
                   grandmaster |-> IF G = {} THEN NoClock ELSE lines[Max(G)].clock]
           x(s) == IF LastIn(s, J) = 0 THEN NoClock ELSE lines[LastIn(s, J)].clock
           y(s) == IF LastIn(s, K) = 0 THEN 0 ELSE lines[LastIn(s, K)].port
           z(s) == IF LastIn(s, G) = 0 THEN NoClock ELSE lines[LastIn(s, G)].clock
           C(s) == [clock |-> x(s), port |-> y(s), grandmaster |-> z(s)]
           E(h) == h = [s \in SUBSET (1 .. n) |->
                          IF s = {} THEN base
                          ELSE TakeParent(h[s \ {Max(s)}], lines[Max(s)])]
           c == [s \in SUBSET (1 .. n) |-> C(s)]
<1>2. C({}) = base /\ C(1 .. n) = all
  <2>1. J \in SUBSET (1 .. n) /\ K \in SUBSET (1 .. n) /\ G \in SUBSET (1 .. n)  BY <1>1
  <2>2. /\ LastIn({}, J) = 0 /\ LastIn({}, K) = 0 /\ LastIn({}, G) = 0
        /\ LastIn(1 .. n, J) = IF J = {} THEN 0 ELSE Max(J)
        /\ LastIn(1 .. n, K) = IF K = {} THEN 0 ELSE Max(K)
        /\ LastIn(1 .. n, G) = IF G = {} THEN 0 ELSE Max(G)
        /\ J # {} => Max(J) # 0
        /\ K # {} => Max(K) # 0
        /\ G # {} => Max(G) # 0
    BY <2>1, LastInEnds
  <2> QED  BY <2>2
<1>3. ASSUME NEW s \in SUBSET (1 .. n), s # {}
      PROVE  C(s) = TakeParent(C(s \ {Max(s)}), lines[Max(s)])
  <2> DEFINE m == Max(s)
             t == s \ {m}
  <2>1. m \in 1 .. n  BY <1>3, Remaining
  <2>2. /\ LastIn(s, J) = IF m \in J THEN m ELSE LastIn(t, J)
        /\ LastIn(s, K) = IF m \in K THEN m ELSE LastIn(t, K)
        /\ LastIn(s, G) = IF m \in G THEN m ELSE LastIn(t, G)
    BY <1>3, LastInStep
  <2>3. /\ m \in J <=> lines[m].key = "parentPortIdentity"
        /\ m \in K <=> lines[m].key = "parentPortIdentity" /\ lines[m].port # NoNumber
        /\ m \in G <=> lines[m].key = "grandmasterIdentity"
    BY <1>1, <2>1
  <2> HIDE DEF m, t
  <2> DEFINE first == lines[m].key = "parentPortIdentity"
             second == lines[m].key = "grandmasterIdentity"
             line == lines[m]
  <2>4. /\ x(s) = IF first THEN line.clock ELSE x(t)
        /\ y(s) = IF first /\ line.port # NoNumber THEN line.port ELSE y(t)
        /\ z(s) = IF second THEN line.clock ELSE z(t)
    BY <2>1, <2>2, <2>3
  <2> HIDE DEF x, y, z
  <2>5. TakeParent(C(t), line) =
          [clock |-> IF first THEN line.clock ELSE x(t),
           port |-> IF first /\ line.port # NoNumber THEN line.port ELSE y(t),
           grandmaster |-> IF second THEN line.clock ELSE z(t)]
    BY TakeParentFields
  <2>6. C(s) = TakeParent(C(t), line)  BY <2>4, <2>5
  <2> QED  BY <2>6 DEF m, t
<1> HIDE DEF C
<1>4. E(c)
  <2> DEFINE r(s) == IF s = {} THEN base
                     ELSE TakeParent(c[s \ {Max(s)}], lines[Max(s)])
  <2>1. ASSUME NEW s \in SUBSET (1 .. n) PROVE c[s] = r(s)
    <3>1. CASE s = {}  BY <1>2, <3>1
    <3>2. CASE s # {}
      <4>1. s \ {Max(s)} \in SUBSET (1 .. n)  BY <3>2, Remaining
      <4> QED  BY <1>3, <3>2, <4>1
    <3> QED  BY <3>1, <3>2
  <2>2. c = [s \in SUBSET (1 .. n) |-> c[s]]  OBVIOUS
  <2> HIDE DEF r, c
  <2>3. c = [s \in SUBSET (1 .. n) |-> r(s)]  BY <2>1, <2>2
  <2> QED  BY <2>3 DEF r
<1> DEFINE iter == CHOOSE h : E(h)
<1>5. E(iter)  BY <1>4
<1>6. ParseParent(lines) = iter[1 .. n]
  BY DEF ParseParent, FoldLeft, MapThenFoldSet, IsOutput
<1> HIDE DEF iter
<1>7. iter[1 .. n] = C(1 .. n)
  <2> DEFINE T == {k \in 0 .. n : iter[1 .. k] = C(1 .. k)}
  <2>1. 0 \in T
    <3>1. 1 .. 0 = {} /\ {} \in SUBSET (1 .. n)  OBVIOUS
    <3> QED  BY <1>2, <1>5, <3>1
  <2>2. ASSUME NEW k \in 0 .. (n - 1), k \in T PROVE k + 1 \in T
    <3>1. k + 1 \in 1 .. n /\ k + 1 \in 0 .. n /\ (k + 1) - 1 = k  OBVIOUS
    <3>2. /\ 1 .. (k + 1) \in SUBSET (1 .. n) /\ 1 .. (k + 1) # {}
          /\ Max(1 .. (k + 1)) = k + 1 /\ (1 .. (k + 1)) \ {k + 1} = 1 .. k
      BY <3>1, Interval
    <3>3. iter[1 .. (k + 1)] = TakeParent(iter[1 .. k], lines[k + 1])  BY <1>5, <3>2
    <3>4. C(1 .. (k + 1)) = TakeParent(C(1 .. k), lines[k + 1])  BY <1>3, <3>2
    <3> QED  BY <2>2, <3>1, <3>3, <3>4
  <2> HIDE DEF T
  <2>3. n \in 0 .. n  OBVIOUS
  <2>4. n \in T  BY <2>1, <2>2, <2>3, Induction
  <2> QED  BY <2>4 DEF T
<1>8. ParentOf(lines) = all
  BY <1>1 DEF ParentOf, LastOr, IsOutput
<1> QED  BY <1>2, <1>6, <1>7, <1>8

\* TakeCurrent() field by field.
LEMMA TakeCurrentFields ==
  ASSUME NEW x, NEW y, NEW line
  PROVE  LET good(k) == line.key = k /\ line.value # NoNumber
         IN  TakeCurrent([stepsRemoved |-> x, meanPathDelay |-> y], line) =
               [stepsRemoved |-> IF good("stepsRemoved") THEN line.value ELSE x,
                meanPathDelay |-> IF good("meanPathDelay") THEN line.value ELSE y]
<1> DEFINE current == [stepsRemoved |-> x, meanPathDelay |-> y]
<1>1. CASE line.key = "stepsRemoved" /\ line.value # NoNumber
  <2>1. TakeCurrent(current, line) = [current EXCEPT !["stepsRemoved"] = line.value]
    BY <1>1 DEF TakeCurrent
  <2>2. [current EXCEPT !["stepsRemoved"] = line.value] =
          [stepsRemoved |-> line.value, meanPathDelay |-> y]
    OBVIOUS
  <2>3. line.key # "meanPathDelay"  BY <1>1
  <2> QED  BY <1>1, <2>1, <2>2, <2>3
<1>2. CASE line.key = "meanPathDelay" /\ line.value # NoNumber
  <2>1. TakeCurrent(current, line) = [current EXCEPT !["meanPathDelay"] = line.value]
    BY <1>2 DEF TakeCurrent
  <2>2. [current EXCEPT !["meanPathDelay"] = line.value] =
          [stepsRemoved |-> x, meanPathDelay |-> line.value]
    OBVIOUS
  <2>3. line.key # "stepsRemoved"  BY <1>2
  <2> QED  BY <1>2, <2>1, <2>2, <2>3
<1>3. CASE line.key \notin {"stepsRemoved", "meanPathDelay"} \/ line.value = NoNumber
  BY <1>3 DEF TakeCurrent
<1> QED  BY <1>1, <1>2, <1>3

\* So are the fields of CURRENT_DATA_SET: a number that does not parse does not
\* erase the one before it.
LEMMA CurrentIsLast ==
  ASSUME NEW n \in Nat, NEW lines, IsOutput(lines, n)
  PROVE  ParseCurrent(lines) = [stepsRemoved |-> CurrentOf(lines, "stepsRemoved"),
                                meanPathDelay |-> CurrentOf(lines, "meanPathDelay")]
<1> DEFINE base == [stepsRemoved |-> 0, meanPathDelay |-> 0]
           good(i, k) == lines[i].key = k /\ lines[i].value # NoNumber
<1>1. PICK J, K : /\ J = {i \in 1 .. n : good(i, "stepsRemoved")}
                  /\ K = {i \in 1 .. n : good(i, "meanPathDelay")}
  OBVIOUS
<1> DEFINE all == [stepsRemoved |-> IF J = {} THEN 0 ELSE lines[Max(J)].value,
                   meanPathDelay |-> IF K = {} THEN 0 ELSE lines[Max(K)].value]
           x(s) == IF LastIn(s, J) = 0 THEN 0 ELSE lines[LastIn(s, J)].value
           y(s) == IF LastIn(s, K) = 0 THEN 0 ELSE lines[LastIn(s, K)].value
           C(s) == [stepsRemoved |-> x(s), meanPathDelay |-> y(s)]
           E(h) == h = [s \in SUBSET (1 .. n) |->
                          IF s = {} THEN base
                          ELSE TakeCurrent(h[s \ {Max(s)}], lines[Max(s)])]
           c == [s \in SUBSET (1 .. n) |-> C(s)]
<1>2. C({}) = base /\ C(1 .. n) = all
  <2>1. J \in SUBSET (1 .. n) /\ K \in SUBSET (1 .. n)  BY <1>1
  <2>2. /\ LastIn({}, J) = 0 /\ LastIn({}, K) = 0
        /\ LastIn(1 .. n, J) = IF J = {} THEN 0 ELSE Max(J)
        /\ LastIn(1 .. n, K) = IF K = {} THEN 0 ELSE Max(K)
        /\ J # {} => Max(J) # 0
        /\ K # {} => Max(K) # 0
    BY <2>1, LastInEnds
  <2> QED  BY <2>2
<1>3. ASSUME NEW s \in SUBSET (1 .. n), s # {}
      PROVE  C(s) = TakeCurrent(C(s \ {Max(s)}), lines[Max(s)])
  <2> DEFINE m == Max(s)
             t == s \ {m}
             line == lines[m]
  <2>1. m \in 1 .. n  BY <1>3, Remaining
  <2>2. /\ LastIn(s, J) = IF m \in J THEN m ELSE LastIn(t, J)
        /\ LastIn(s, K) = IF m \in K THEN m ELSE LastIn(t, K)
    BY <1>3, LastInStep
  <2>3. /\ m \in J <=> good(m, "stepsRemoved")
        /\ m \in K <=> good(m, "meanPathDelay")
    BY <1>1, <2>1
  <2> HIDE DEF m, t
  <2>4. /\ x(s) = IF good(m, "stepsRemoved") THEN line.value ELSE x(t)
        /\ y(s) = IF good(m, "meanPathDelay") THEN line.value ELSE y(t)
    BY <2>1, <2>2, <2>3
  <2> HIDE DEF x, y
  <2>5. TakeCurrent(C(t), line) =
          [stepsRemoved |-> IF good(m, "stepsRemoved") THEN line.value ELSE x(t),
           meanPathDelay |-> IF good(m, "meanPathDelay") THEN line.value ELSE y(t)]
    BY TakeCurrentFields
  <2>6. C(s) = TakeCurrent(C(t), line)  BY <2>4, <2>5
  <2> QED  BY <2>6 DEF m, t
<1> HIDE DEF C
<1>4. E(c)
  <2> DEFINE r(s) == IF s = {} THEN base
                     ELSE TakeCurrent(c[s \ {Max(s)}], lines[Max(s)])
  <2>1. ASSUME NEW s \in SUBSET (1 .. n) PROVE c[s] = r(s)
    <3>1. CASE s = {}  BY <1>2, <3>1
    <3>2. CASE s # {}
      <4>1. s \ {Max(s)} \in SUBSET (1 .. n)  BY <3>2, Remaining
      <4> QED  BY <1>3, <3>2, <4>1
    <3> QED  BY <3>1, <3>2
  <2>2. c = [s \in SUBSET (1 .. n) |-> c[s]]  OBVIOUS
  <2> HIDE DEF r, c
  <2>3. c = [s \in SUBSET (1 .. n) |-> r(s)]  BY <2>1, <2>2
  <2> QED  BY <2>3 DEF r
<1> DEFINE iter == CHOOSE h : E(h)
<1>5. E(iter)  BY <1>4
<1>6. ParseCurrent(lines) = iter[1 .. n]
  BY DEF ParseCurrent, FoldLeft, MapThenFoldSet, IsOutput
<1> HIDE DEF iter
<1>7. iter[1 .. n] = C(1 .. n)
  <2> DEFINE T == {k \in 0 .. n : iter[1 .. k] = C(1 .. k)}
  <2>1. 0 \in T
    <3>1. 1 .. 0 = {} /\ {} \in SUBSET (1 .. n)  OBVIOUS
    <3> QED  BY <1>2, <1>5, <3>1
  <2>2. ASSUME NEW k \in 0 .. (n - 1), k \in T PROVE k + 1 \in T
    <3>1. k + 1 \in 1 .. n /\ k + 1 \in 0 .. n /\ (k + 1) - 1 = k  OBVIOUS
    <3>2. /\ 1 .. (k + 1) \in SUBSET (1 .. n) /\ 1 .. (k + 1) # {}
          /\ Max(1 .. (k + 1)) = k + 1 /\ (1 .. (k + 1)) \ {k + 1} = 1 .. k
      BY <3>1, Interval
    <3>3. iter[1 .. (k + 1)] = TakeCurrent(iter[1 .. k], lines[k + 1])  BY <1>5, <3>2
    <3>4. C(1 .. (k + 1)) = TakeCurrent(C(1 .. k), lines[k + 1])  BY <1>3, <3>2
    <3> QED  BY <2>2, <3>1, <3>3, <3>4
  <2> HIDE DEF T
  <2>3. n \in 0 .. n  OBVIOUS
  <2>4. n \in T  BY <2>1, <2>2, <2>3, Induction
  <2> QED  BY <2>4 DEF T
<1>8. /\ CurrentOf(lines, "stepsRemoved") = all.stepsRemoved
      /\ CurrentOf(lines, "meanPathDelay") = all.meanPathDelay
  BY <1>1 DEF CurrentOf, LastOr, IsOutput
<1> QED  BY <1>2, <1>6, <1>7, <1>8

-----------------------------------------------------------------------------
(* The runs of the topology parser                                         *)

\* The lines of an output are numbered from 1.
LEMMA OutputsHaveLines ==
  ASSUME NEW o \in TopologyOutputs
  PROVE  /\ \E n \in Nat : IsOutput(o.default, n)
         /\ \E n \in Nat : IsOutput(o.parent, n)
         /\ \E n \in Nat : IsOutput(o.current, n)
         /\ \E n \in Nat : IsOutput(o.port, n)
<1>1. ASSUME NEW S, NEW m \in Nat, NEW lines \in UpTo(S, m)
      PROVE  \E n \in Nat : IsOutput(lines, n)
  <2>1. PICK k \in 0 .. m : lines \in [1 .. k -> S]  BY DEF UpTo
  <2> QED  BY <2>1 DEF IsOutput
<1>2. IsOutput(<<>>, 0)  BY DEF IsOutput
<1>3. 0 \in Nat /\ 1 \in Nat /\ 2 \in Nat /\ MaxPortLines \in Nat  BY ParsersAssumption
<1>4. /\ \/ o.default \in UpTo(DefaultLines, 2)
         \/ o.default \in UpTo(DefaultLines, 1)
      /\ o.parent \in UpTo(ParentLines, 2) \/ o.parent = <<>>
      /\ \/ o.current \in UpTo(CurrentLines, 2)
         \/ o.current \in UpTo(CurrentLines, 1)
         \/ o.current = <<>>
      /\ o.port \in UpTo(PortLines, MaxPortLines) \/ o.port = <<>>
  BY DEF TopologyOutputs
<1> QED  BY <1>1, <1>2, <1>3, <1>4

\* What a run of the topology parser leaves.
LEMMA TopologyRun ==
  ASSUME ParsersNext, subject' = "topology"
  PROVE  \E o \in TopologyOutputs :
           input' = o /\ outcome' = Parse(o.default, o.parent, o.current, o.port)
<1>1. ParseTopology
  <2>1. "topology" # "line" /\ "topology" # "hwmon" /\ "topology" # "proc"
        /\ "topology" # "adapter"
    OBVIOUS
  <2> QED  BY <2>1 DEF ParsersNext, ParseLine, ScanHwmon, ReadProc, ResolveAdapter, Run
<1> QED  BY <1>1 DEF ParseTopology, Run

\* What a snapshot consists of.
LEMMA SnapshotIs ==
  ASSUME NEW d, NEW p, NEW c, NEW q
  PROVE  /\ ParseDefault(d) = NoClock => Parse(d, p, c, q) = <<>>
         /\ ParseDefault(d) # NoClock =>
              /\ Len(Parse(d, p, c, q)) = 1
              /\ Parse(d, p, c, q)[1].local = ParseDefault(d)
              /\ Parse(d, p, c, q)[1].parent = ParseParent(p)
              /\ Parse(d, p, c, q)[1].current = ParseCurrent(c)
              /\ Parse(d, p, c, q)[1].ports = ParsePorts(q)
              /\ Parse(d, p, c, q)[1].childPort = ChildPort(ParsePorts(q))
BY DEF Parse

\* The ports of a snapshot are those of the output (PortsAsListed).
THEOREM PortsAsListedHolds == ParsersSpec => []PortsAsListed
<1>1. ParsersInit => PortsAsListed
  BY DEF ParsersInit, PortsAsListed, Snapshot
<1>2. PortsAsListed /\ [ParsersNext]_<<subject, input, outcome>> => PortsAsListed'
  <2>1. CASE UNCHANGED <<subject, input, outcome>>
    BY <2>1 DEF PortsAsListed, Snapshot
  <2>2. ASSUME ParsersNext, subject' = "topology", outcome' # <<>>
        PROVE  /\ Len(outcome'[1].ports) = Cardinality(Identities(input'.port))
               /\ \A i \in Identities(input'.port) :
                    outcome'[1].ports[Rank(input'.port, i)] = PortAt(input'.port, i)
    <3>1. PICK o \in TopologyOutputs :
            input' = o /\ outcome' = Parse(o.default, o.parent, o.current, o.port)
      BY <2>2, TopologyRun
    <3>2. outcome'[1].ports = ParsePorts(o.port)  BY <2>2, <3>1, SnapshotIs
    <3>3. PICK n \in Nat : DOMAIN o.port = 1 .. n  BY OutputsHaveLines DEF IsOutput
    <3> DEFINE lines == o.port
    <3> HIDE DEF lines
    <3>4. /\ Len(ParsePorts(lines)) = Cardinality(Identities(lines))
          /\ \A i \in Identities(lines) :
               ParsePorts(lines)[Rank(lines, i)] = PortAt(lines, i)
      BY <3>3, PortsOfAnyOutput DEF lines
    <3> QED  BY <3>1, <3>2, <3>4 DEF lines
  <2> QED  BY <2>1, <2>2 DEF PortsAsListed, Snapshot
<1> QED  BY <1>1, <1>2, PTL DEF ParsersSpec

\* The child port of a snapshot is that of the first SLAVE port (ChildIsFirstSlave).
THEOREM ChildIsFirstSlaveHolds == ParsersSpec => []ChildIsFirstSlave
<1>1. ParsersInit => ChildIsFirstSlave
  BY DEF ParsersInit, ChildIsFirstSlave, Snapshot
<1>2. ChildIsFirstSlave /\ [ParsersNext]_<<subject, input, outcome>> => ChildIsFirstSlave'
  <2> DEFINE Slaves(lines) == {i \in Identities(lines) : PortAt(lines, i).state = "SLAVE"}
  <2>1. CASE UNCHANGED <<subject, input, outcome>>
    BY <2>1 DEF ChildIsFirstSlave, Snapshot
  <2>2. ASSUME ParsersNext, subject' = "topology", outcome' # <<>>
        PROVE  outcome'[1].childPort =
                 IF Slaves(input'.port) = {} THEN 0
                 ELSE PortAt(input'.port, Min(Slaves(input'.port))).number
    <3>1. PICK o \in TopologyOutputs :
            input' = o /\ outcome' = Parse(o.default, o.parent, o.current, o.port)
      BY <2>2, TopologyRun
    <3>2. outcome'[1].childPort = ChildPort(ParsePorts(o.port))  BY <2>2, <3>1, SnapshotIs
    <3>3. PICK n \in Nat : DOMAIN o.port = 1 .. n  BY OutputsHaveLines DEF IsOutput
    <3>4. PICK lines : lines = o.port  OBVIOUS
    <3>5. PICK S : S = Slaves(lines)  OBVIOUS
    <3>6. ChildPort(ParsePorts(lines)) = IF S = {} THEN 0 ELSE PortAt(lines, Min(S)).number
      BY <3>3, <3>4, <3>5, ChildOfAnyOutput
    <3> HIDE DEF Slaves
    <3> QED  BY <3>1, <3>2, <3>4, <3>5, <3>6
  <2> QED  BY <2>1, <2>2 DEF ChildIsFirstSlave, Snapshot
<1> QED  BY <1>1, <1>2, PTL DEF ParsersSpec

\* The scalar fields of a snapshot are those of the last good lines, and there
\* is no snapshot without a clock identity (ScalarsAreLast).
THEOREM ScalarsAreLastHolds == ParsersSpec => []ScalarsAreLast
<1>1. ParsersInit => ScalarsAreLast
  BY DEF ParsersInit, ScalarsAreLast
<1>2. ScalarsAreLast /\ [ParsersNext]_<<subject, input, outcome>> => ScalarsAreLast'
  <2>1. CASE UNCHANGED <<subject, input, outcome>>
    BY <2>1 DEF ScalarsAreLast
  <2>2. ASSUME ParsersNext, subject' = "topology"
        PROVE  LET local == LocalOf(input'.default)
               IN  IF local = NoClock
                     THEN outcome' = <<>>
                     ELSE /\ Len(outcome') = 1
                          /\ outcome'[1].local = local
                          /\ outcome'[1].parent = ParentOf(input'.parent)
                          /\ \A k \in {"stepsRemoved", "meanPathDelay"} :
                               outcome'[1].current[k] = CurrentOf(input'.current, k)
    <3>1. PICK o \in TopologyOutputs :
            input' = o /\ outcome' = Parse(o.default, o.parent, o.current, o.port)
      BY <2>2, TopologyRun
    <3>2. ParseDefault(o.default) = LocalOf(o.default)  BY OutputsHaveLines, LocalIsLast
    <3>3. ParseParent(o.parent) = ParentOf(o.parent)  BY OutputsHaveLines, ParentIsLast
    <3>4. \A k \in {"stepsRemoved", "meanPathDelay"} :
            ParseCurrent(o.current)[k] = CurrentOf(o.current, k)
      <4>1. ParseCurrent(o.current) = [stepsRemoved |-> CurrentOf(o.current, "stepsRemoved"),
                                       meanPathDelay |-> CurrentOf(o.current, "meanPathDelay")]
        BY OutputsHaveLines, CurrentIsLast
      <4> QED  BY <4>1
    <3>5. CASE ParseDefault(o.default) = NoClock
      BY <3>1, <3>2, <3>5, SnapshotIs
    <3>6. CASE ParseDefault(o.default) # NoClock
      BY <3>1, <3>2, <3>3, <3>4, <3>6, SnapshotIs
    <3> QED  BY <3>5, <3>6
  <2> QED  BY <2>1, <2>2 DEF ScalarsAreLast
<1> QED  BY <1>1, <1>2, PTL DEF ParsersSpec

-----------------------------------------------------------------------------
(* The resolver of adapter names                                           *)

Marks == {"+", "-"} \X {"fd", "access", "device"}

\* What Within() puts around a log.
Around(new, r, log) ==
  /\ new \in Seq(Marks) /\ Len(new) = Len(log) + 2
  /\ new[1] = <<"+", r>> /\ new[Len(log) + 2] = <<"-", r>>
  /\ \A k \in 1 .. Len(log) : new[k + 1] = log[k]

\* That is what it puts there.
LEMMA WithinLog ==
  ASSUME NEW r \in {"fd", "access", "device"}, NEW log \in Seq(Marks)
  PROVE  Around(Within(r, log), r, log)
<1> DEFINE x == <<"+", r>>
           y == <<"-", r>>
<1>1. x \in Marks /\ y \in Marks  BY DEF Marks
<1>2. Within(r, log) = <<x>> \o log \o <<y>>  BY DEF Within
<1> HIDE DEF x, y
<1>3. PICK left : left = <<x>> \o log  OBVIOUS
<1>4. /\ left \in Seq(Marks) /\ Len(left) = Len(log) + 1 /\ left[1] = x
      /\ \A k \in 1 .. Len(log) : left[k + 1] = log[k]
  BY <1>1, <1>3
<1>5. /\ left \o <<y>> \in Seq(Marks) /\ Len(left \o <<y>>) = Len(log) + 2
      /\ \A k \in 1 .. (Len(log) + 1) : (left \o <<y>>)[k] = left[k]
      /\ (left \o <<y>>)[Len(log) + 2] = y
  BY <1>1, <1>4
<1>6. \A k \in 1 .. Len(log) : k + 1 \in 1 .. (Len(log) + 1)  BY <1>1
<1>7. 1 \in 1 .. (Len(log) + 1)  OBVIOUS
<1> QED  BY <1>2, <1>3, <1>4, <1>5, <1>6, <1>7 DEF Around, x, y

\* Logs of no, two, four and six marks.
NoMarks(log) == log \in Seq(Marks) /\ Len(log) = 0

TwoMarks(log, x, y) ==
  log \in Seq(Marks) /\ Len(log) = 2 /\ log[1] = x /\ log[2] = y

FourMarks(log, x, y, z, u) ==
  /\ log \in Seq(Marks) /\ Len(log) = 4
  /\ log[1] = x /\ log[2] = y /\ log[3] = z /\ log[4] = u

SixMarks(log, x, y, z, u, v, w) ==
  /\ log \in Seq(Marks) /\ Len(log) = 6
  /\ log[1] = x /\ log[2] = y /\ log[3] = z /\ log[4] = u /\ log[5] = v /\ log[6] = w

\* Within() over nothing and over two marks.
LEMMA WithinMarks ==
  ASSUME NEW r \in {"fd", "access", "device"}, NEW log
  PROVE  /\ NoMarks(log) => TwoMarks(Within(r, log), <<"+", r>>, <<"-", r>>)
         /\ \A x, y : TwoMarks(log, x, y) =>
                        FourMarks(Within(r, log), <<"+", r>>, x, y, <<"-", r>>)
<1>1. ASSUME NoMarks(log) PROVE TwoMarks(Within(r, log), <<"+", r>>, <<"-", r>>)
  <2>1. log \in Seq(Marks) /\ Len(log) = 0  BY <1>1 DEF NoMarks
  <2>2. PICK new : new = Within(r, log)  OBVIOUS
  <2>3. new \in Seq(Marks) /\ Len(new) = 2 /\ new[1] = <<"+", r>> /\ new[2] = <<"-", r>>
    <3>1. Around(new, r, log)  BY <2>1, <2>2, WithinLog
    <3> QED  BY <2>1, <3>1 DEF Around
  <2> QED  BY <2>2, <2>3 DEF TwoMarks
<1>2. ASSUME NEW x, NEW y, TwoMarks(log, x, y)
      PROVE  FourMarks(Within(r, log), <<"+", r>>, x, y, <<"-", r>>)
  <2>1. log \in Seq(Marks) /\ Len(log) = 2 /\ log[1] = x /\ log[2] = y
    BY <1>2 DEF TwoMarks
  <2>2. PICK new : new = Within(r, log)  OBVIOUS
  <2>3. /\ new \in Seq(Marks) /\ Len(new) = 4
        /\ new[1] = <<"+", r>> /\ new[4] = <<"-", r>>
        /\ \A k \in 1 .. 2 : new[k + 1] = log[k]
    <3>1. Around(new, r, log)  BY <2>1, <2>2, WithinLog
    <3> QED  BY <2>1, <3>1 DEF Around
  <2>4. new[1 + 1] = log[1] /\ new[2 + 1] = log[2]  BY <2>3
  <2> QED  BY <2>1, <2>2, <2>3, <2>4 DEF FourMarks
<1> QED  BY <1>1, <1>2

\* One log after the other.
Joined(both, s, t) ==
  /\ both \in Seq(Marks) /\ Len(both) = Len(s) + Len(t)
  /\ \A k \in 1 .. Len(s) : both[k] = s[k]
  /\ \A k \in 1 .. Len(t) : both[Len(s) + k] = t[k]

\* That is what the concatenation is.
LEMMA LogAfterLog ==
  ASSUME NEW s \in Seq(Marks), NEW t \in Seq(Marks)
  PROVE  Joined(s \o t, s, t)
BY DEF Joined

\* The logs of the resolver end to end.
LEMMA MarksAfterMarks ==
  ASSUME NEW s, NEW t, NEW a1, NEW a2, TwoMarks(s, a1, a2)
  PROVE  /\ NoMarks(t) => TwoMarks(s \o t, a1, a2)
         /\ \A x, y : TwoMarks(t, x, y) => FourMarks(s \o t, a1, a2, x, y)
         /\ \A x, y, z, u : FourMarks(t, x, y, z, u) => SixMarks(s \o t, a1, a2, x, y, z, u)
<1>1. s \in Seq(Marks) /\ Len(s) = 2 /\ s[1] = a1 /\ s[2] = a2  BY DEF TwoMarks
<1>2. PICK both : both = s \o t  OBVIOUS
<1>3. ASSUME t \in Seq(Marks)
      PROVE  /\ both \in Seq(Marks) /\ Len(both) = 2 + Len(t)
             /\ both[1] = a1 /\ both[2] = a2
             /\ \A k \in 1 .. Len(t) : both[2 + k] = t[k]
  <2>1. Joined(both, s, t)  BY <1>1, <1>2, <1>3, LogAfterLog
  <2> QED  BY <1>1, <2>1 DEF Joined
<1>4. NoMarks(t) => TwoMarks(s \o t, a1, a2)
  BY <1>2, <1>3 DEF NoMarks, TwoMarks
<1>5. ASSUME NEW x, NEW y, TwoMarks(t, x, y) PROVE FourMarks(s \o t, a1, a2, x, y)
  <2>1. t \in Seq(Marks) /\ Len(t) = 2 /\ t[1] = x /\ t[2] = y  BY <1>5 DEF TwoMarks
  <2>2. both[2 + 1] = t[1] /\ both[2 + 2] = t[2]  BY <1>3, <2>1
  <2> QED  BY <1>2, <1>3, <2>1, <2>2 DEF FourMarks
<1>6. ASSUME NEW x, NEW y, NEW z, NEW u, FourMarks(t, x, y, z, u)
      PROVE  SixMarks(s \o t, a1, a2, x, y, z, u)
  <2>1. t \in Seq(Marks) /\ Len(t) = 4 /\ t[1] = x /\ t[2] = y /\ t[3] = z /\ t[4] = u
    BY <1>6 DEF FourMarks
  <2>2. /\ both[2 + 1] = t[1] /\ both[2 + 2] = t[2]
        /\ both[2 + 3] = t[3] /\ both[2 + 4] = t[4]
    BY <1>3, <2>1
  <2> QED  BY <1>2, <1>3, <2>1, <2>2 DEF SixMarks
<1> QED  BY <1>4, <1>5, <1>6

\* The logs of a run: nothing; the socket; then the access; then its device.
LEMMA LogsOfResolve ==
  ASSUME NEW fails \in SUBSET Steps, NEW log, log = Resolve(fails).log
  PROVE  \/ NoMarks(log)
         \/ TwoMarks(log, <<"+", "fd">>, <<"-", "fd">>)
         \/ FourMarks(log, <<"+", "fd">>, <<"-", "fd">>, <<"+", "access">>, <<"-", "access">>)
         \/ SixMarks(log, <<"+", "fd">>, <<"-", "fd">>, <<"+", "access">>, <<"+", "device">>,
                     <<"-", "device">>, <<"-", "access">>)
<1>1. PICK e, fd, acc, dev, accdev :
        /\ e = <<>> /\ fd = Within("fd", e) /\ acc = Within("access", e)
        /\ dev = Within("device", e) /\ accdev = Within("access", dev)
  OBVIOUS
<1>2. NoMarks(e)  BY <1>1 DEF NoMarks
<1>3. /\ TwoMarks(fd, <<"+", "fd">>, <<"-", "fd">>)
      /\ TwoMarks(acc, <<"+", "access">>, <<"-", "access">>)
      /\ TwoMarks(dev, <<"+", "device">>, <<"-", "device">>)
  BY <1>1, <1>2, WithinMarks
<1>4. FourMarks(accdev, <<"+", "access">>, <<"+", "device">>, <<"-", "device">>, <<"-", "access">>)
  BY <1>1, <1>3, WithinMarks
<1>5. \/ log = e
      \/ log = fd
      \/ log = fd \o e
      \/ log = fd \o acc
      \/ log = fd \o accdev
  <2>1. GetBusInfo(fails).log = e \/ GetBusInfo(fails).log = fd
    BY <1>1 DEF GetBusInfo
  <2>2. GetBusInfo(fails).ok => GetBusInfo(fails).log = fd
    BY <1>1 DEF GetBusInfo
  <2>3. \/ LookupAdapterName(fails).log = e
        \/ LookupAdapterName(fails).log = acc
        \/ LookupAdapterName(fails).log = accdev
    BY <1>1 DEF LookupAdapterName
  <2>4. CASE ~GetBusInfo(fails).ok
    <3>1. Resolve(fails) = GetBusInfo(fails)  BY <2>4 DEF Resolve
    <3> QED  BY <2>1, <3>1
  <2>5. CASE GetBusInfo(fails).ok
    <3>1. Resolve(fails).log = GetBusInfo(fails).log \o LookupAdapterName(fails).log
      BY <2>5 DEF Resolve
    <3> QED  BY <2>2, <2>3, <2>5, <3>1
  <2> QED  BY <2>4, <2>5
<1>6. /\ TwoMarks(fd \o e, <<"+", "fd">>, <<"-", "fd">>)
      /\ FourMarks(fd \o acc, <<"+", "fd">>, <<"-", "fd">>, <<"+", "access">>, <<"-", "access">>)
      /\ SixMarks(fd \o accdev, <<"+", "fd">>, <<"-", "fd">>, <<"+", "access">>, <<"+", "device">>,
                  <<"-", "device">>, <<"-", "access">>)
  BY <1>2, <1>3, <1>4, MarksAfterMarks
<1> QED  BY <1>2, <1>3, <1>5, <1>6

\* A resource that is taken at the one positions and released at the others.
Released(taken, released) ==
  /\ Cardinality(taken) = Cardinality(released)
  /\ \A i \in taken, j \in released : i < j

\* Never, or once and then released.
LEMMA OneOfEach ==
  /\ Released({}, {})
  /\ \A i, j \in Nat : i < j => Released({i}, {j})
<1>1. \A i : Cardinality({i}) = 1  BY FS_Singleton
<1> QED  BY <1>1 DEF Released

\* Each of these logs is balanced.
LEMMA BalancedLogs ==
  ASSUME NEW log
  PROVE  /\ NoMarks(log) => Balanced(log)
         /\ TwoMarks(log, <<"+", "fd">>, <<"-", "fd">>) => Balanced(log)
         /\ FourMarks(log, <<"+", "fd">>, <<"-", "fd">>,
                      <<"+", "access">>, <<"-", "access">>) => Balanced(log)
         /\ SixMarks(log, <<"+", "fd">>, <<"-", "fd">>, <<"+", "access">>,
                     <<"+", "device">>, <<"-", "device">>, <<"-", "access">>) => Balanced(log)
<1> DEFINE At(mark, r) == {i \in DOMAIN log : log[i] = <<mark, r>>}
           At6(f, g1, h, h1, d, d1) ==
             /\ At("+", "fd") = f /\ At("-", "fd") = g1
             /\ At("+", "access") = h /\ At("-", "access") = h1
             /\ At("+", "device") = d /\ At("-", "device") = d1
<1>1. ASSUME NoMarks(log) PROVE At6({}, {}, {}, {}, {}, {})
  <2>1. DOMAIN log = {}  BY <1>1 DEF NoMarks
  <2> QED  BY <2>1
<1>2. ASSUME TwoMarks(log, <<"+", "fd">>, <<"-", "fd">>)
      PROVE  At6({1}, {2}, {}, {}, {}, {})
  <2>1. /\ \A i : i \in DOMAIN log <=> i = 1 \/ i = 2
        /\ log[1] = <<"+", "fd">> /\ log[2] = <<"-", "fd">>
    BY <1>2 DEF TwoMarks
  <2> QED  BY <2>1
<1>3. ASSUME FourMarks(log, <<"+", "fd">>, <<"-", "fd">>, <<"+", "access">>, <<"-", "access">>)
      PROVE  At6({1}, {2}, {3}, {4}, {}, {})
  <2>1. /\ \A i : i \in DOMAIN log <=> i = 1 \/ i = 2 \/ i = 3 \/ i = 4
        /\ log[1] = <<"+", "fd">> /\ log[2] = <<"-", "fd">>
        /\ log[3] = <<"+", "access">> /\ log[4] = <<"-", "access">>
    BY <1>3 DEF FourMarks
  <2> QED  BY <2>1
<1>4. ASSUME SixMarks(log, <<"+", "fd">>, <<"-", "fd">>, <<"+", "access">>,
                      <<"+", "device">>, <<"-", "device">>, <<"-", "access">>)
      PROVE  At6({1}, {2}, {3}, {6}, {4}, {5})
  <2>1. /\ \A i : i \in DOMAIN log <=> i = 1 \/ i = 2 \/ i = 3 \/ i = 4 \/ i = 5 \/ i = 6
        /\ log[1] = <<"+", "fd">> /\ log[2] = <<"-", "fd">>
        /\ log[3] = <<"+", "access">> /\ log[4] = <<"+", "device">>
        /\ log[5] = <<"-", "device">> /\ log[6] = <<"-", "access">>
    BY <1>4 DEF SixMarks
  <2> QED  BY <2>1
<1>5. ASSUME Released(At("+", "fd"), At("-", "fd")),
             Released(At("+", "access"), At("-", "access")),
             Released(At("+", "device"), At("-", "device")),
             \A i \in At("-", "device"), j \in At("-", "access") : i < j
      PROVE  Balanced(log)
  BY <1>5 DEF Balanced, Released
<1> HIDE DEF At
<1>6. Released({1}, {2}) /\ Released({3}, {4}) /\ Released({3}, {6}) /\ Released({4}, {5})
  <2>1. 1 \in Nat /\ 2 \in Nat /\ 3 \in Nat /\ 4 \in Nat /\ 5 \in Nat /\ 6 \in Nat
        /\ 1 < 2 /\ 3 < 4 /\ 3 < 6 /\ 4 < 5
    OBVIOUS
  <2> QED  BY <2>1, OneOfEach
<1>7. At6({}, {}, {}, {}, {}, {}) => Balanced(log)  BY <1>5, OneOfEach
<1>8. At6({1}, {2}, {}, {}, {}, {}) => Balanced(log)  BY <1>5, <1>6, OneOfEach
<1>9. At6({1}, {2}, {3}, {4}, {}, {}) => Balanced(log)  BY <1>5, <1>6, OneOfEach
<1>10. At6({1}, {2}, {3}, {6}, {4}, {5}) => Balanced(log)  BY <1>5, <1>6
<1> HIDE DEF At6
<1> QED  BY <1>1, <1>2, <1>3, <1>4, <1>7, <1>8, <1>9, <1>10

\* Whatever call fails, what the resolver took it releases once, in order
\* (ResolverReleases).
THEOREM ResolverReleasesHolds == ParsersSpec => []ResolverReleases
<1>1. ParsersInit => ResolverReleases
  BY DEF ParsersInit, ResolverReleases
<1>2. ASSUME NEW fails \in SUBSET Steps
      PROVE  Balanced(Resolve(fails).log) /\ (Resolve(fails).ok <=> fails = {})
  <2>1. PICK log : log = Resolve(fails).log  OBVIOUS
  <2>2. Balanced(log)  BY <2>1, LogsOfResolve, BalancedLogs
  <2>3. Resolve(fails).ok <=> fails = {}
    <3>1. GetBusInfo(fails).ok <=> fails \cap {"socket", "ioctl", "bus_info"} = {}
      BY DEF GetBusInfo
    <3>2. LookupAdapterName(fails).ok <=> fails \cap {"parse", "alloc", "device", "fill"} = {}
      BY DEF LookupAdapterName
    <3>3. Resolve(fails).ok <=> GetBusInfo(fails).ok /\ LookupAdapterName(fails).ok
      BY DEF Resolve
    <3>4. /\ fails \cap {"socket", "ioctl", "bus_info"} = {}
          /\ fails \cap {"parse", "alloc", "device", "fill"} = {}
          <=> fails = {}
      BY DEF Steps
    <3> QED  BY <3>1, <3>2, <3>3, <3>4
  <2> QED  BY <2>1, <2>2, <2>3
<1>3. ResolverReleases /\ [ParsersNext]_<<subject, input, outcome>> => ResolverReleases'
  <2>1. CASE UNCHANGED <<subject, input, outcome>>
    BY <2>1 DEF ResolverReleases
  <2>2. ASSUME ParsersNext, subject' = "adapter"
        PROVE  Balanced(outcome'.log) /\ (outcome'.ok <=> input' = {})
    <3>1. ResolveAdapter
      <4>1. "adapter" # "line" /\ "adapter" # "hwmon" /\ "adapter" # "proc"
            /\ "adapter" # "topology"
        OBVIOUS
      <4> QED  BY <2>2, <4>1 DEF ParsersNext, ParseLine, ScanHwmon, ReadProc, ParseTopology, Run
    <3>2. PICK fails \in SUBSET Steps : input' = fails /\ outcome' = Resolve(fails)
      BY <3>1 DEF ResolveAdapter, Run
    <3> QED  BY <1>2, <3>2
  <2> QED  BY <2>1, <2>2 DEF ResolverReleases
<1> QED  BY <1>1, <1>3, PTL DEF ParsersSpec

-----------------------------------------------------------------------------
(* The hwmon scan                                                          *)

\* A scan that does not throw, of directories whose entries are numbered.
IsScan(devices, S) ==
  /\ devices \in Seq(S)
  /\ \A d \in DOMAIN devices :
       devices[d].name # Error /\ \E m \in Nat : DOMAIN devices[d].dir = 1 .. m

\* The path of a sensor is that of its last device.
LEMMA PathIsLast ==
  ASSUME NEW S, NEW devices, IsScan(devices, S), NEW sensors
  PROVE  LET path == SensorToPath(devices, sensors)
         IN  /\ \A s : s \in DOMAIN path <=> s \in sensors /\ Named(devices, s) # {}
             /\ \A s \in DOMAIN path : path[s] \in Named(devices, s)
<1> DEFINE path == SensorToPath(devices, sensors)
           last(s) == SelectLastInSeq(devices, LAMBDA device : device.name = s)
<1>1. path = [s \in {x \in sensors : Named(devices, x) # {}} |-> last(s)]
  BY DEF SensorToPath, Named
<1>2. ASSUME NEW s, Named(devices, s) # {} PROVE last(s) \in Named(devices, s)
  <2>1. PICK n \in Nat : n = Len(devices) /\ DOMAIN devices = 1 .. n  BY DEF IsScan
  <2>2. PICK I : I = Named(devices, s)  OBVIOUS
  <2>3. last(s) = IF I # {} THEN Max(I) ELSE 0
    BY <2>1, <2>2 DEF SelectLastInSeq, Named
  <2>4. I \in SUBSET (0 .. n)  BY <2>1, <2>2 DEF Named
  <2>5. Max(I) \in I  BY <1>2, <2>2, <2>4, GreatestOfSet
  <2> QED  BY <1>2, <2>2, <2>3, <2>5
<1> HIDE DEF path, last
<1>3. \A s : s \in DOMAIN path <=> s \in sensors /\ Named(devices, s) # {}
  BY <1>1
<1>4. \A s \in DOMAIN path : path[s] \in Named(devices, s)
  BY <1>1, <1>2, <1>3
<1> QED  BY <1>3, <1>4 DEF path

\* The zones found in a device, and readable now, are those that can be reached.
LEMMA ZonesReached ==
  ASSUME NEW S, NEW devices, IsScan(devices, S), NEW failing, NEW d \in DOMAIN devices
  PROVE  {<<d, z>> : z \in ZonesOf(devices[d])} \ failing = ReadZones(devices, failing, d)
<1>1. PICK dir : dir = devices[d].dir  OBVIOUS
<1>2. PICK m \in Nat : DOMAIN dir = 1 .. m  BY <1>1 DEF IsScan
<1>3. ASSUME NEW z \in 1 .. m, dir[z] = "zone"
      PROVE  (\A y \in 1 .. z : dir[y] # "error") <=>
             (\A x \in 1 .. m : x < z => dir[x] # "error")
  <2>1. \A y \in 1 .. z : y \in 1 .. m /\ (y < z \/ y = z)  OBVIOUS
  <2>2. \A x \in 1 .. m : x < z => x \in 1 .. z  OBVIOUS
  <2>3. dir[z] # "error"  BY <1>3
  <2> QED  BY <2>1, <2>2, <2>3
<1>4. \A z : z \in ZonesOf(devices[d]) <=>
               z \in 1 .. m /\ dir[z] = "zone" /\ \A x \in 1 .. m : x < z => dir[x] # "error"
  BY <1>1, <1>2, <1>3 DEF ZonesOf
<1>5. ReadZones(devices, failing, d) =
        {<<d, z>> : z \in {y \in 1 .. m : /\ dir[y] = "zone"
                                           /\ <<d, y>> \notin failing
                                           /\ \A x \in 1 .. m : x < y => dir[x] # "error"}}
  BY <1>1, <1>2 DEF ReadZones
<1> QED  BY <1>4, <1>5

\* The readings of any scan that does not throw: readable zones of matching
\* devices only, and all of a device that has its name to itself.
THEOREM ReadingsOfAnyScan ==
  ASSUME NEW S, NEW devices, IsScan(devices, S), NEW sensors, NEW failing,
         Readings(TempZones(devices, sensors), failing) # Thrown
  PROVE  ReadsMatching(devices, sensors, failing, Readings(TempZones(devices, sensors), failing))
<1>1. PICK R, path : /\ R = Readings(TempZones(devices, sensors), failing)
                     /\ path = SensorToPath(devices, sensors)
  OBVIOUS
<1> DEFINE Z(d) == ReadZones(devices, failing, d)
           M(s) == Named(devices, s)
<1>2. /\ \A s : s \in DOMAIN path <=> s \in sensors /\ M(s) # {}
      /\ \A s \in DOMAIN path : path[s] \in M(s)
  BY <1>1, PathIsLast
<1>3. /\ \A s : \A d \in M(s) : d \in DOMAIN devices /\ devices[d].name = s
      /\ \A d : \A r \in Z(d) : r[1] = d
  <2>1. \A s : \A d \in M(s) : d \in DOMAIN devices /\ devices[d].name = s  BY DEF Named
  <2>2. ASSUME NEW d, NEW r \in Z(d) PROVE r[1] = d
    <3>1. PICK z : r = <<d, z>>  BY DEF ReadZones
    <3> QED  BY <3>1
  <2> QED  BY <2>1, <2>2
<1>4. \A r : r \in R <=> \E s \in DOMAIN path : r \in Z(path[s])
  <2>1. ~HwmonThrows(devices)  BY DEF HwmonThrows, IsScan
  <2>2. R = (UNION {{<<path[s], z>> : z \in ZonesOf(devices[path[s]])} : s \in DOMAIN path})
              \ failing
    <3>1. TempZones(devices, sensors) # Thrown  BY DEF Readings
    <3>2. TempZones(devices, sensors) =
            UNION {{<<path[s], z>> : z \in ZonesOf(devices[path[s]])} : s \in DOMAIN path}
      BY <1>1, <2>1, <3>1 DEF TempZones
    <3> QED  BY <1>1, <3>1, <3>2 DEF Readings
  <2>3. \A s \in DOMAIN path :
          {<<path[s], z>> : z \in ZonesOf(devices[path[s]])} \ failing = Z(path[s])
    BY <1>2, <1>3, ZonesReached
  <2> DEFINE Y(s) == {<<path[s], z>> : z \in ZonesOf(devices[path[s]])}
  <2>4. \A r : r \in R <=> (\E s \in DOMAIN path : r \in Y(s)) /\ r \notin failing
    BY <2>2
  <2>5. \A s \in DOMAIN path : \A r : r \in Z(path[s]) <=> r \in Y(s) /\ r \notin failing
    BY <2>3
  <2> HIDE DEF Y, Z
  <2> QED  BY <2>4, <2>5
<1> HIDE DEF Z, M
<1>5. ASSUME NEW r \in R PROVE \E d \in Matching(devices, sensors) : r \in Z(d)
  <2>1. PICK t \in DOMAIN path : r \in Z(path[t])  BY <1>4
  <2>2. path[t] \in Matching(devices, sensors)  BY <1>2, <1>3 DEF Matching
  <2> QED  BY <2>1, <2>2
<1>6. ASSUME NEW d \in Matching(devices, sensors), M(devices[d].name) = {d}
      PROVE  Z(d) \subseteq R
  <2>1. PICK s : s = devices[d].name  OBVIOUS
  <2>2. s \in DOMAIN path /\ path[s] = d  BY <1>2, <1>6, <2>1 DEF Matching
  <2> QED  BY <1>4, <2>2
<1> QED  BY <1>1, <1>5, <1>6 DEF ReadsMatching, M, Z

\* The readings of a run are readable zones of matching devices, and all of a
\* device that has its name to itself (ZonesOfSensors).
THEOREM ZonesOfSensorsHolds == ParsersSpec => []ZonesOfSensors
<1>1. ParsersInit => ZonesOfSensors
  BY DEF ParsersInit, ZonesOfSensors, Scanned
<1>2. ZonesOfSensors /\ [ParsersNext]_<<subject, input, outcome>> => ZonesOfSensors'
  <2>1. CASE UNCHANGED <<subject, input, outcome>>
    BY <2>1 DEF ZonesOfSensors, Scanned
  <2>2. ASSUME ParsersNext, subject' = "hwmon", outcome' # Thrown,
               \A d \in DOMAIN input'.devices : input'.devices[d].name # Error
        PROVE  ReadsMatching(input'.devices, input'.sensors, input'.failing, outcome')
    <3>1. ScanHwmon
      <4>1. "hwmon" # "line" /\ "hwmon" # "adapter" /\ "hwmon" # "proc"
            /\ "hwmon" # "topology"
        OBVIOUS
      <4> QED
        BY <2>2, <4>1 DEF ParsersNext, ParseLine, ResolveAdapter, ReadProc, ParseTopology, Run
    <3>2. PICK devices \in UpTo(Devices, 3), sensors \in {{"coretemp"}, {"coretemp", "nvme"}},
               failing \in {{}, {<<1, 1>>}} :
            /\ input' = [devices |-> devices, sensors |-> sensors, failing |-> failing]
            /\ outcome' = Readings(TempZones(devices, sensors), failing)
      BY <3>1 DEF ScanHwmon, Run
    <3>3. input'.devices = devices /\ input'.sensors = sensors /\ input'.failing = failing
      BY <3>2
    <3>4. IsScan(devices, Devices)
      <4>1. PICK k \in 0 .. 3 : devices \in [1 .. k -> Devices]  BY DEF UpTo
      <4>2. devices \in Seq(Devices)  BY <4>1
      <4>3. ASSUME NEW d \in DOMAIN devices
            PROVE  devices[d].name # Error /\ \E m \in Nat : DOMAIN devices[d].dir = 1 .. m
        <5>1. devices[d].name # Error /\ devices[d] \in Devices  BY <2>2, <3>3, <4>1
        <5>2. devices[d].dir \in Directories  BY <5>1 DEF Devices
        <5>3. ASSUME NEW dir \in Directories PROVE \E m \in Nat : DOMAIN dir = 1 .. m
          <6>1. \/ dir = <<>>
                \/ dir = <<"other", "zone", "zone">>
                \/ dir = <<"label", "zone">>
                \/ dir = <<"zone", "input", "zone">>
                \/ dir = <<"zone", "error", "zone">>
                \/ dir = <<"open">>
                \/ dir = <<"zone", "unnumbered">>
            BY <5>3 DEF Directories
          <6>2. 0 \in Nat /\ 1 \in Nat /\ 2 \in Nat /\ 3 \in Nat  OBVIOUS
          <6>3. CASE dir = <<>>
            <7>1. DOMAIN dir = 1 .. 0  BY <6>3
            <7> QED  BY <6>2, <7>1
          <6>4. CASE dir = <<"open">>
            <7>1. DOMAIN dir = 1 .. 1  BY <6>4
            <7> QED  BY <6>2, <7>1
          <6>5. CASE \E x, y : dir = <<x, y>>
            <7>1. DOMAIN dir = 1 .. 2  BY <6>5
            <7> QED  BY <6>2, <7>1
          <6>6. CASE \E x, y, z : dir = <<x, y, z>>
            <7>1. DOMAIN dir = 1 .. 3  BY <6>6
            <7> QED  BY <6>2, <7>1
          <6> QED  BY <6>1, <6>3, <6>4, <6>5, <6>6
        <5> QED  BY <5>1, <5>2, <5>3
      <4> QED  BY <4>2, <4>3 DEF IsScan
    <3> QED  BY <2>2, <3>2, <3>3, <3>4, ReadingsOfAnyScan
  <2> QED  BY <2>1, <2>2 DEF ZonesOfSensors, Scanned
<1> QED  BY <1>1, <1>2, PTL DEF ParsersSpec

-----------------------------------------------------------------------------
(* Texts of /proc                                                          *)

\* Buffers that are the same up to n.
Agree(x, y, n) == \A i \in 1 .. n : x[i] = y[i]

\* What findLinePrefix() finds, and where.
LEMMA PrefixAgrees ==
  ASSUME NEW n \in Nat, NEW x, NEW y, Agree(x, y, n), NEW key
  PROVE  /\ FindLinePrefix(x, n, key) = FindLinePrefix(y, n, key)
         /\ FindLinePrefix(x, n, key) # 0 => FindLinePrefix(x, n, key) \in 2 .. (n + 1)
<1> DEFINE At(buf) == {i \in 1 .. n : buf[i] = key /\ (i = 1 \/ buf[i - 1] = NL)}
<1>1. \A i \in 1 .. n : x[i] = y[i] /\ (i # 1 => x[i - 1] = y[i - 1])
  <2> SUFFICES ASSUME NEW i \in 1 .. n
               PROVE  x[i] = y[i] /\ (i # 1 => x[i - 1] = y[i - 1])
    OBVIOUS
  <2>1. i # 1 => i - 1 \in 1 .. n  OBVIOUS
  <2> QED  BY <2>1 DEF Agree
<1>2. At(x) = At(y)  BY <1>1
<1>3. PICK I : I = At(x) /\ I = At(y)  BY <1>2
<1>4. /\ FindLinePrefix(x, n, key) = IF I = {} THEN 0 ELSE Min(I) + 1
      /\ FindLinePrefix(y, n, key) = IF I = {} THEN 0 ELSE Min(I) + 1
  BY <1>3 DEF FindLinePrefix
<1>5. ASSUME I # {} PROVE Min(I) + 1 \in 2 .. (n + 1)
  <2>1. I \in SUBSET Nat /\ I \in SUBSET (1 .. n)  BY <1>3
  <2>2. Min(I) \in I  BY <1>5, <2>1, LeastOfSet
  <2>3. Min(I) \in 1 .. n  BY <2>1, <2>2
  <2> QED  BY <2>3
<1> QED  BY <1>4, <1>5

\* What parseNext() reads.
LEMMA NextAgrees ==
  ASSUME NEW n \in Nat, NEW x, NEW y, Agree(x, y, n), NEW p \in 1 .. (n + 1)
  PROVE  ParseNext(x, n, p) = ParseNext(y, n, p)
<1> DEFINE F(buf) == {i \in p .. n + 1 : i > n \/ buf[i] # Blank}
           L(buf, first) == {i \in first - 1 .. n : \A j \in first .. i : buf[j] \in Digits}
<1>1. F(x) = F(y)
  <2>1. \A i \in p .. n + 1 : i > n \/ i \in 1 .. n  OBVIOUS
  <2> QED  BY <2>1 DEF Agree
<1>2. PICK first : first = Min(F(x)) /\ first = Min(F(y))  BY <1>1
<1>3. first \in p .. n + 1
  <2>1. F(x) \in SUBSET Nat /\ F(x) \in SUBSET (p .. n + 1)  OBVIOUS
  <2>2. n + 1 \in F(x)  OBVIOUS
  <2> HIDE DEF F
  <2>3. Min(F(x)) \in F(x)  BY <2>1, <2>2, LeastOfSet
  <2> QED  BY <1>2, <2>1, <2>3
<1>4. L(x, first) = L(y, first)
  <2>1. ASSUME NEW i \in first - 1 .. n, NEW j \in first .. i PROVE x[j] = y[j]
    <3>1. j \in 1 .. n  BY <1>3
    <3> QED  BY <3>1 DEF Agree
  <2> QED  BY <2>1
<1>5. PICK last : last = Max(L(x, first)) /\ last = Max(L(y, first))  BY <1>4
<1>6. last \in first - 1 .. n
  <2>1. L(x, first) \in SUBSET (0 .. n) /\ L(x, first) \in SUBSET (first - 1 .. n)
    <3>1. first - 1 \in Nat  BY <1>3
    <3> QED  BY <3>1
  <2>2. first - 1 \in L(x, first)
    <3>1. first - 1 \in first - 1 .. n /\ first .. (first - 1) = {}  BY <1>3
    <3> QED  BY <3>1
  <2> HIDE DEF L
  <2>3. Max(L(x, first)) \in L(x, first)  BY <2>1, <2>2, GreatestOfSet
  <2> QED  BY <1>5, <2>1, <2>3
<1>7. SubSeq(x, first, last) = SubSeq(y, first, last)
  <2>1. ASSUME NEW i \in 1 .. (last - first + 1) PROVE x[i + first - 1] = y[i + first - 1]
    <3>1. i + first - 1 \in 1 .. n  BY <1>3, <1>6
    <3> QED  BY <3>1 DEF Agree
  <2> QED  BY <1>3, <1>6, <2>1
<1>8. /\ ParseNext(x, n, p) = SubSeq(x, first, last)
      /\ ParseNext(y, n, p) = SubSeq(y, first, last)
  BY <1>2, <1>5 DEF ParseNext
<1> QED  BY <1>7, <1>8

\* The first n elements of a sequence, and those behind the first n.
LEMMA FirstPart ==
  ASSUME NEW S, NEW text \in Seq(S), NEW n \in 0 .. Len(text), NEW s, s = SubSeq(text, 1, n)
  PROVE  s \in Seq(S) /\ Len(s) = n /\ \A i \in 1 .. n : s[i] = text[i]
<1>1. s \in Seq(S)  OBVIOUS
<1>2. Len(s) = n  OBVIOUS
<1>3. ASSUME NEW i \in 1 .. n PROVE s[i] = text[i]  OBVIOUS
<1> QED  BY <1>1, <1>2, <1>3

\* What is behind the first n is a sequence too, or nothing.
LEMMA LastPart ==
  ASSUME NEW S, NEW old \in Seq(S), NEW n \in Nat, NEW t, t = SubSeq(old, n + 1, Len(old))
  PROVE  t \in Seq(S)
OBVIOUS

\* The beginning of the buffer is the text that was read.
LEMMA BufferAgrees ==
  ASSUME NEW S, NEW old \in Seq(S), NEW text \in Seq(S), NEW n,
         n = Min({Len(text), Capacity})
  PROVE  n \in Nat /\ Agree(Buffer(old, text), text, n)
<1>1. n \in Nat /\ n <= Len(text)
  <2>1. {Len(text), Capacity} \in SUBSET Nat /\ {Len(text), Capacity} # {}
    BY CapacityAssumption
  <2>2. PICK I : I = {Len(text), Capacity}  OBVIOUS
  <2>3. Min(I) \in I /\ \A i \in I : Min(I) <= i  BY <2>1, <2>2, LeastOfSet
  <2> QED  BY <2>1, <2>2, <2>3
<1>2. PICK s, t : s = SubSeq(text, 1, n) /\ t = SubSeq(old, n + 1, Len(old))  OBVIOUS
<1>3. s \in Seq(S) /\ Len(s) = n /\ \A i \in 1 .. n : s[i] = text[i]
  <2>1. n \in 0 .. Len(text)  BY <1>1
  <2> QED  BY <1>2, <2>1, FirstPart
<1>4. t \in Seq(S)  BY <1>1, <1>2, LastPart
<1>5. Buffer(old, text) = s \o t  BY <1>2 DEF Buffer
<1>6. \A i \in 1 .. n : (s \o t)[i] = s[i]  BY <1>3, <1>4
<1> QED  BY <1>1, <1>3, <1>5, <1>6 DEF Agree

\* So is what a field is read from.
LEMMA FieldAgrees ==
  ASSUME NEW n \in Nat, NEW x, NEW y, Agree(x, y, n), NEW key
  PROVE  ReadField(x, n, key) = ReadField(y, n, key)
<1>1. PICK p : p = FindLinePrefix(x, n, key) /\ p = FindLinePrefix(y, n, key)
  BY PrefixAgrees
<1>2. p # 0 => p \in 2 .. (n + 1)  BY <1>1, PrefixAgrees
<1>3. CASE p = 0  BY <1>1, <1>3 DEF ReadField
<1>4. CASE p # 0
  <2>1. p \in 1 .. (n + 1)  BY <1>2, <1>4
  <2>2. ParseNext(x, n, p) = ParseNext(y, n, p)  BY <2>1, NextAgrees
  <2> QED  BY <1>1, <1>4, <2>2 DEF ReadField
<1> QED  BY <1>3, <1>4

\* Whatever an earlier and longer reading has left in the buffer, a reading
\* yields what it yields in an empty buffer: no byte behind the end of the
\* text is looked at (system_metrics.cpp:280-331).
THEOREM NothingStaleIsRead ==
  ASSUME NEW S, NEW old \in Seq(S), NEW text \in Seq(S)
  PROVE  CollectText(old, text) = CollectText(<<>>, text)
<1>1. PICK n, x, y : /\ n = Min({Len(text), Capacity})
                     /\ x = Buffer(old, text) /\ y = Buffer(<<>>, text)
  OBVIOUS
<1>2. n \in Nat /\ Agree(x, text, n) /\ Agree(y, text, n)
  <2>1. <<>> \in Seq(S)  OBVIOUS
  <2> QED  BY <1>1, <2>1, BufferAgrees
<1>3. Agree(x, y, n)  BY <1>2 DEF Agree
<1>4. [key \in Keys |-> ReadField(x, n, key)] = [key \in Keys |-> ReadField(y, n, key)]
  BY <1>2, <1>3, FieldAgrees
<1>5. /\ CollectText(old, text) =
           IF n = 0 THEN NoStats ELSE [key \in Keys |-> ReadField(x, n, key)]
      /\ CollectText(<<>>, text) =
           IF n = 0 THEN NoStats ELSE [key \in Keys |-> ReadField(y, n, key)]
  BY <1>1 DEF CollectText
<1> QED  BY <1>4, <1>5

\* The line of key begins at i of a text, its number is at from .. to.
NumberAt(text, key, i, from, to) ==
  /\ i \in DOMAIN text /\ to \in Nat /\ to + 1 \in DOMAIN text
  /\ \A j \in DOMAIN text : text[j] = key <=> j = i
  /\ i = 1 \/ text[i - 1] = NL
  /\ from = IF text[i + 1] = Blank THEN i + 2 ELSE i + 1
  /\ from <= to
  /\ \A j \in from .. to : text[j] \in Digits
  /\ text[to + 1] \notin Digits

\* A position cut at n.
Cut(position, n) == IF position <= n THEN position ELSE n

\* What the first n cells have of from .. to.
PartRead(text, from, to, n) == SubSeq(text, Cut(from, n + 1), Cut(to, n))

\* The bound that pread sets on a text is the smaller of two numbers.
LEMMA SmallerOf ==
  ASSUME NEW x \in Nat, NEW y \in Nat
  PROVE  Min({x, y}) = IF x <= y THEN x ELSE y
<1>1. PICK I : I = {x, y}  OBVIOUS
<1>2. Min(I) \in I /\ \A i \in I : Min(I) <= i  BY <1>1, LeastOfSet
<1> QED  BY <1>1, <1>2

\* findLinePrefix() finds the line of a key, if its beginning was read.
LEMMA PrefixOfNumber ==
  ASSUME NEW n \in Nat, NEW len \in Nat, NEW text, DOMAIN text = 1 .. len, n <= len,
         NEW key, NEW i, NEW from, NEW to, NumberAt(text, key, i, from, to)
  PROVE  FindLinePrefix(text, n, key) = IF i <= n THEN i + 1 ELSE 0
<1> DEFINE At == {j \in 1 .. n : text[j] = key /\ (j = 1 \/ text[j - 1] = NL)}
<1>1. i \in 1 .. len /\ (\A j \in 1 .. len : text[j] = key <=> j = i)
      /\ (i = 1 \/ text[i - 1] = NL)
  BY DEF NumberAt
<1>2. \A j : j \in At <=> j = i /\ i <= n  BY <1>1
<1>3. FindLinePrefix(text, n, key) = IF At = {} THEN 0 ELSE Min(At) + 1
  BY DEF FindLinePrefix
<1> HIDE DEF At
<1>4. CASE i <= n
  <2>1. At \in SUBSET Nat /\ At # {}  BY <1>1, <1>2, <1>4
  <2>2. Min(At) \in At  BY <2>1, LeastOfSet
  <2> QED  BY <1>2, <1>3, <1>4, <2>1, <2>2
<1>5. CASE ~(i <= n)
  <2>1. At = {}  BY <1>2, <1>5
  <2> QED  BY <1>3, <1>5, <2>1
<1> QED  BY <1>4, <1>5

\* parseNext() reads what is left of its number before n.
LEMMA NextOfNumber ==
  ASSUME NEW n \in Nat, NEW len \in Nat, NEW text, DOMAIN text = 1 .. len, n <= len,
         NEW key, NEW i \in 1 .. n, NEW from \in Nat, NEW to \in Nat,
         NumberAt(text, key, i, from, to)
  PROVE  ParseNext(text, n, i + 1) = PartRead(text, from, to, n)
<1>0. PICK start, end : start = Cut(from, n + 1) /\ end = Cut(to, n)  OBVIOUS
<1> DEFINE F == {j \in i + 1 .. n + 1 : j > n \/ text[j] # Blank}
           L(first) == {k \in first - 1 .. n : \A j \in first .. k : text[j] \in Digits}
<1>1. /\ i \in 1 .. len /\ to \in Nat /\ to + 1 \in 1 .. len
      /\ from = IF text[i + 1] = Blank THEN i + 2 ELSE i + 1
      /\ from <= to
      /\ \A j \in from .. to : text[j] \in Digits /\ text[j] # Blank
      /\ text[to + 1] \notin Digits
  BY ProcAssumption DEF NumberAt
<1>2. /\ start \in i + 1 .. n + 1 /\ end \in start - 1 .. n /\ start <= from
      /\ start > n \/ start = from
      /\ end = to \/ end = n
      /\ end <= to /\ (end < n => end = to)
  BY <1>0, <1>1 DEF Cut
<1>3. Min(F) = start
  <2>1. start \in F
    <3>1. from \in from .. to  BY <1>1
    <3> QED  BY <1>1, <1>2, <3>1
  <2>2. \A j \in F : start <= j
    <3> SUFFICES ASSUME NEW j \in F, j < start PROVE FALSE
      BY <1>2
    <3>1. j = i + 1 /\ from = i + 2 /\ j <= n  BY <1>1, <1>2
    <3> QED  BY <1>1, <3>1
  <2>3. F \in SUBSET Nat  BY <1>1
  <2> HIDE DEF F
  <2>4. Min(F) \in F /\ \A j \in F : Min(F) <= j  BY <2>1, <2>3, LeastOfSet
  <2>5. Min(F) \in Nat /\ start \in Nat  BY <2>1, <2>3, <2>4
  <2> QED  BY <2>1, <2>2, <2>4, <2>5
<1>4. Max(L(start)) = end
  <2>1. end \in L(start)
    <3> SUFFICES ASSUME NEW j \in start .. end PROVE text[j] \in Digits
      BY <1>2
    <3>1. j \in from .. to  BY <1>1, <1>2
    <3> QED  BY <1>1, <3>1
  <2>2. \A k \in L(start) : k <= end
    <3> SUFFICES ASSUME NEW k \in L(start) PROVE k <= end
      OBVIOUS
    <3>1. k \in start - 1 .. n /\ \A j \in start .. k : text[j] \in Digits
      OBVIOUS
    <3>2. ASSUME end < k PROVE FALSE
      <4>1. end = to /\ to < n /\ start = from  BY <1>1, <1>2, <3>1, <3>2
      <4>2. to + 1 \in start .. k  BY <1>1, <1>2, <3>1, <3>2, <4>1
      <4>3. text[to + 1] \in Digits  BY <3>1, <4>2
      <4> QED  BY <1>1, <4>3
    <3> QED  BY <1>2, <3>1, <3>2
  <2>3. L(start) \in SUBSET (0 .. n)
    <3>1. start - 1 \in Nat  BY <1>1, <1>2
    <3> QED  BY <3>1
  <2> HIDE DEF L
  <2>4. Max(L(start)) \in L(start) /\ \A k \in L(start) : k <= Max(L(start))
    BY <2>1, <2>3, GreatestOfSet
  <2>5. Max(L(start)) \in Nat /\ end \in Nat  BY <2>1, <2>3, <2>4
  <2> QED  BY <2>1, <2>2, <2>4, <2>5
<1>5. ParseNext(text, n, i + 1) = SubSeq(text, Min(F), Max(L(Min(F))))
  BY DEF ParseNext
<1> QED  BY <1>0, <1>3, <1>4, <1>5 DEF PartRead

\* What a call reads of a number at from .. to.
NumberRead(text, from, to) == SubSeq(text, from, Min({to, Capacity}))

\* A text of any length gives the number of a key as far as it was read, and
\* nothing for a key it does not have, whatever the buffer held before
\* (system_metrics.cpp:30-59, 280-331).
THEOREM NumbersOfAnyText ==
  ASSUME NEW S, NEW old \in Seq(S), NEW text \in Seq(S), NEW key,
         NEW n, n = Min({Len(text), Capacity})
  PROVE  /\ (\A i \in DOMAIN text : text[i] # key) =>
              ReadField(Buffer(old, text), n, key) = <<>>
         /\ \A i, from, to :
              NumberAt(text, key, i, from, to) =>
                ReadField(Buffer(old, text), n, key) = NumberRead(text, from, to)
<1>1. n \in Nat /\ Agree(Buffer(old, text), text, n)  BY BufferAgrees
<1>2. ReadField(Buffer(old, text), n, key) = ReadField(text, n, key)  BY <1>1, FieldAgrees
<1>3. PICK len \in Nat : len = Len(text) /\ DOMAIN text = 1 .. len  OBVIOUS
<1>4. n = IF len <= Capacity THEN len ELSE Capacity
  BY <1>3, SmallerOf, CapacityAssumption
<1>5. n <= len  BY <1>3, <1>4, CapacityAssumption
<1>6. ASSUME \A i \in DOMAIN text : text[i] # key
      PROVE  ReadField(text, n, key) = <<>>
  <2>1. \A i \in 1 .. n : text[i] # key  BY <1>1, <1>3, <1>4, <1>6, CapacityAssumption
  <2>2. FindLinePrefix(text, n, key) = 0  BY <2>1 DEF FindLinePrefix
  <2> QED  BY <2>2 DEF ReadField
<1>7. ASSUME NEW i, NEW from, NEW to, NumberAt(text, key, i, from, to)
      PROVE  ReadField(text, n, key) = NumberRead(text, from, to)
  <2>1. /\ i \in 1 .. len /\ to \in Nat /\ to < len /\ i < from /\ from <= to /\ from \in Nat
    BY <1>3, <1>7 DEF NumberAt
  <2>2. Min({to, Capacity}) = Cut(to, n)
    <3>1. Min({to, Capacity}) = IF to <= Capacity THEN to ELSE Capacity
      BY <2>1, SmallerOf, CapacityAssumption
    <3> QED  BY <1>3, <1>4, <2>1, <3>1, CapacityAssumption DEF Cut
  <2>3. FindLinePrefix(text, n, key) = IF i <= n THEN i + 1 ELSE 0
    BY <1>1, <1>3, <1>7, <1>5, PrefixOfNumber
  <2>4. CASE i <= n
    <3>1. ParseNext(text, n, i + 1) = PartRead(text, from, to, n)
      <4>1. n \in Nat /\ DOMAIN text = 1 .. len  BY <1>1, <1>3
      <4>2. i \in 1 .. n /\ from \in Nat /\ to \in Nat  BY <1>1, <2>1, <2>4
      <4> QED  BY <1>5, <1>7, <4>1, <4>2, NextOfNumber
    <3>2. ReadField(text, n, key) = ParseNext(text, n, i + 1)
      BY <2>1, <2>3, <2>4 DEF ReadField
    <3>3. CASE from <= n + 1
      <4>1. Cut(from, n + 1) = from  BY <3>3 DEF Cut
      <4> QED  BY <2>2, <3>1, <3>2, <4>1 DEF PartRead, NumberRead
    <3>4. CASE ~(from <= n + 1)
      <4>1. Cut(from, n + 1) = n + 1 /\ Cut(to, n) = n  BY <1>1, <2>1, <3>4 DEF Cut
      <4>2. SubSeq(text, n + 1, n) = <<>>  BY <1>1
      <4>3. SubSeq(text, from, n) = <<>>  BY <1>1, <2>1, <3>4
      <4> QED  BY <2>2, <3>1, <3>2, <4>1, <4>2, <4>3 DEF PartRead, NumberRead
    <3> QED  BY <3>3, <3>4
  <2>5. CASE ~(i <= n)
    <3>1. ReadField(text, n, key) = <<>>  BY <2>3, <2>5 DEF ReadField
    <3>2. Cut(to, n) = n /\ n < from  BY <1>1, <2>1, <2>5 DEF Cut
    <3>3. SubSeq(text, from, n) = <<>>  BY <1>1, <2>1, <3>2
    <3> QED  BY <2>2, <3>1, <3>2, <3>3 DEF NumberRead
  <2> QED  BY <2>4, <2>5
<1> QED  BY <1>2, <1>6, <1>7

\* Texts are put together of lines.
Ends(x) == x = <<>> \/ x[Len(x)] = NL
Lacks(x, key) == \A i \in DOMAIN x : x[i] # key
HasField(x, key) == Lacks(x, key) \/ \E i, from, to : NumberAt(x, key, i, from, to)

\* Lines behind the line of a key leave its number alone.
LEMMA FieldBefore ==
  ASSUME NEW S, NEW x \in Seq(S), NEW y \in Seq(S), NEW key, HasField(x, key), Lacks(y, key)
  PROVE  HasField(x \o y, key)
<1>1. PICK m \in Nat, k \in Nat : m = Len(x) /\ k = Len(y)
                                  /\ DOMAIN x = 1 .. m /\ DOMAIN y = 1 .. k
  OBVIOUS
<1>2. PICK z : z = x \o y  OBVIOUS
<1>3. /\ DOMAIN z = 1 .. (m + k)
      /\ \A i \in 1 .. m : z[i] = x[i]
      /\ \A i \in m + 1 .. m + k : z[i] = y[i - m] /\ i - m \in 1 .. k
  BY <1>1, <1>2
<1>4. CASE Lacks(x, key)
  <2>1. (\A i \in 1 .. m : x[i] # key) /\ \A i \in 1 .. k : y[i] # key
    BY <1>1, <1>4 DEF Lacks
  <2>2. \A i \in 1 .. m : z[i] # key  BY <1>3, <2>1
  <2>3. \A i \in m + 1 .. m + k : z[i] # key  BY <1>3, <2>1
  <2>4. \A i \in 1 .. (m + k) : z[i] # key  BY <2>2, <2>3
  <2> QED  BY <1>2, <1>3, <2>4 DEF HasField, Lacks
<1>5. ASSUME NEW i, NEW from, NEW to, NumberAt(x, key, i, from, to)
      PROVE  NumberAt(z, key, i, from, to)
  <2>1. /\ i \in 1 .. m /\ to \in Nat /\ to + 1 \in 1 .. m
        /\ \A j \in 1 .. m : x[j] = key <=> j = i
        /\ i = 1 \/ x[i - 1] = NL
        /\ from = IF x[i + 1] = Blank THEN i + 2 ELSE i + 1
        /\ from <= to
        /\ \A j \in from .. to : x[j] \in Digits
        /\ x[to + 1] \notin Digits
    BY <1>1, <1>5 DEF NumberAt
  <2>2. z[i + 1] = x[i + 1] /\ (i # 1 => z[i - 1] = x[i - 1]) /\ z[to + 1] = x[to + 1]
        /\ \A j \in from .. to : z[j] = x[j]
    BY <1>3, <2>1
  <2>3. \A j \in 1 .. (m + k) : z[j] = key <=> j = i
    <3>1. \A j \in 1 .. m : z[j] = key <=> j = i  BY <1>3, <2>1
    <3>2. \A j \in 1 .. k : y[j] # key  BY <1>1 DEF Lacks
    <3>3. \A j \in m + 1 .. m + k : z[j] # key /\ j # i
      <4>1. \A j \in m + 1 .. m + k : j # i  BY <2>1
      <4> QED  BY <1>3, <3>2, <4>1
    <3> QED  BY <3>1, <3>3
  <2> QED  BY <1>1, <1>3, <2>1, <2>2, <2>3 DEF NumberAt
<1> QED  BY <1>2, <1>4, <1>5 DEF HasField

\* Whole lines before the line of a key move its number, no more.
LEMMA FieldBehind ==
  ASSUME NEW S, NEW x \in Seq(S), NEW y \in Seq(S), NEW key,
         Lacks(x, key), Ends(x), HasField(y, key)
  PROVE  HasField(x \o y, key)
<1>1. PICK m \in Nat, k \in Nat : m = Len(x) /\ k = Len(y)
                                  /\ DOMAIN x = 1 .. m /\ DOMAIN y = 1 .. k
  OBVIOUS
<1>2. PICK z : z = x \o y  OBVIOUS
<1>3. /\ DOMAIN z = 1 .. (m + k)
      /\ \A i \in 1 .. m : z[i] = x[i]
      /\ \A i \in m + 1 .. m + k : z[i] = y[i - m] /\ i - m \in 1 .. k
      /\ \A i \in 1 .. k : z[m + i] = y[i] /\ m + i \in m + 1 .. m + k
  BY <1>1, <1>2
<1>4. CASE Lacks(y, key)
  <2>1. (\A i \in 1 .. m : x[i] # key) /\ \A i \in 1 .. k : y[i] # key
    BY <1>1, <1>4 DEF Lacks
  <2>2. \A i \in 1 .. m : z[i] # key  BY <1>3, <2>1
  <2>3. \A i \in m + 1 .. m + k : z[i] # key  BY <1>3, <2>1
  <2>4. \A i \in 1 .. (m + k) : z[i] # key  BY <2>2, <2>3
  <2> QED  BY <1>2, <1>3, <2>4 DEF HasField, Lacks
<1>5. ASSUME NEW i, NEW from, NEW to, NumberAt(y, key, i, from, to)
      PROVE  NumberAt(z, key, m + i, m + from, m + to)
  <2>1. /\ i \in 1 .. k /\ to \in Nat /\ to + 1 \in 1 .. k
        /\ \A j \in 1 .. k : y[j] = key <=> j = i
        /\ i = 1 \/ y[i - 1] = NL
        /\ from = IF y[i + 1] = Blank THEN i + 2 ELSE i + 1
        /\ from <= to
        /\ \A j \in from .. to : y[j] \in Digits
        /\ y[to + 1] \notin Digits
    BY <1>1, <1>5 DEF NumberAt
  <2>2. from \in i + 1 .. to /\ i + 1 \in 1 .. k  BY <2>1
  <2>3. z[(m + i) + 1] = y[i + 1] /\ z[(m + to) + 1] = y[to + 1]
    <3>1. z[m + (i + 1)] = y[i + 1] /\ z[m + (to + 1)] = y[to + 1]  BY <1>3, <2>1, <2>2
    <3>2. (m + i) + 1 = m + (i + 1) /\ (m + to) + 1 = m + (to + 1)  BY <2>1
    <3> QED  BY <3>1, <3>2
  <2>4. m + i = 1 \/ z[(m + i) - 1] = NL
    <3>1. CASE i = 1 /\ m = 0  BY <3>1
    <3>2. CASE i = 1 /\ m # 0
      <4>1. m \in 1 .. m /\ (m + i) - 1 = m  BY <3>2
      <4>2. x # <<>>  BY <1>1, <3>2
      <4> QED  BY <1>1, <1>3, <4>1, <4>2 DEF Ends
    <3>3. CASE i # 1
      <4>1. i - 1 \in 1 .. k /\ (m + i) - 1 = m + (i - 1)  BY <2>1, <3>3
      <4> QED  BY <1>3, <2>1, <3>3, <4>1
    <3> QED  BY <3>1, <3>2, <3>3
  <2>5. \A j \in 1 .. (m + k) : z[j] = key <=> j = m + i
    <3>1. \A j \in 1 .. m : z[j] # key /\ j # m + i
      <4>1. \A j \in 1 .. m : x[j] # key  BY <1>1 DEF Lacks
      <4>2. \A j \in 1 .. m : j # m + i  BY <2>1
      <4> QED  BY <1>3, <4>1, <4>2
    <3>2. \A j \in m + 1 .. m + k : z[j] = key <=> j - m = i  BY <1>3, <2>1
    <3> QED  BY <2>1, <3>1, <3>2
  <2>6. \A j \in m + from .. m + to : z[j] \in Digits
    <3> SUFFICES ASSUME NEW j \in m + from .. m + to PROVE z[j] \in Digits  OBVIOUS
    <3>1. j - m \in from .. to /\ j \in m + 1 .. m + k  BY <2>1, <2>2
    <3> QED  BY <1>3, <2>1, <3>1
  <2>7. m + i \in 1 .. m + k /\ m + to \in Nat /\ (m + to) + 1 \in 1 .. m + k
        /\ m + from <= m + to
    BY <2>1, <2>2
  <2>8. m + from = IF z[(m + i) + 1] = Blank THEN (m + i) + 2 ELSE (m + i) + 1
    BY <2>1, <2>3
  <2> QED  BY <1>3, <2>1, <2>3, <2>4, <2>5, <2>6, <2>7, <2>8 DEF NumberAt
<1> QED  BY <1>2, <1>4, <1>5 DEF HasField

\* So do lines that are put together.
LEMMA LinesJoined ==
  ASSUME NEW S, NEW x \in Seq(S), NEW y \in Seq(S)
  PROVE  /\ x \o y \in Seq(S)
         /\ Ends(x) /\ Ends(y) => Ends(x \o y)
         /\ \A key : Lacks(x, key) /\ Lacks(y, key) => Lacks(x \o y, key)
<1>1. PICK m \in Nat, k \in Nat : m = Len(x) /\ k = Len(y)
                                  /\ DOMAIN x = 1 .. m /\ DOMAIN y = 1 .. k
  OBVIOUS
<1>2. PICK z : z = x \o y  OBVIOUS
<1>3. /\ Len(z) = m + k /\ DOMAIN z = 1 .. (m + k)
      /\ \A i \in 1 .. m : z[i] = x[i]
      /\ \A i \in m + 1 .. m + k : z[i] = y[i - m] /\ i - m \in 1 .. k
  BY <1>1, <1>2
<1>4. ASSUME Ends(x), Ends(y) PROVE Ends(z)
  <2>1. CASE k = 0 /\ m = 0  BY <1>1, <1>2, <2>1 DEF Ends
  <2>2. CASE k = 0 /\ m # 0
    <3>1. m \in 1 .. m /\ x # <<>> /\ m + k = m  BY <1>1, <2>2
    <3> QED  BY <1>1, <1>3, <1>4, <3>1 DEF Ends
  <2>3. CASE k # 0
    <3>1. m + k \in m + 1 .. m + k /\ y # <<>> /\ (m + k) - m = k  BY <1>1, <2>3
    <3> QED  BY <1>1, <1>3, <1>4, <3>1 DEF Ends
  <2> QED  BY <2>1, <2>2, <2>3
<1>5. ASSUME NEW key, Lacks(x, key), Lacks(y, key) PROVE Lacks(z, key)
  <2>1. (\A i \in 1 .. m : x[i] # key) /\ \A i \in 1 .. k : y[i] # key
    BY <1>1, <1>5 DEF Lacks
  <2>2. \A i \in 1 .. m : z[i] # key  BY <1>3, <2>1
  <2>3. \A i \in m + 1 .. m + k : z[i] # key  BY <1>3, <2>1
  <2>4. \A i \in 1 .. (m + k) : z[i] # key  BY <2>2, <2>3
  <2> QED  BY <1>3, <2>4 DEF Lacks
<1> QED  BY <1>2, <1>4, <1>5

Cells == ProcKeys \cup {Blank, NL, "1", "2", "3"}

\* A line of a text has the number of its key, and no other key.
LEMMA LineOfText ==
  ASSUME NEW key \in ProcKeys, NEW x \in TextLine(key)
  PROVE  /\ x \in Seq(Cells) /\ Ends(x) /\ HasField(x, key)
         /\ \A k \in ProcKeys : k # key => Lacks(x, k)
<1>1. /\ key \notin {Blank, NL, "1", "2", "3"} /\ Blank # NL
      /\ {"1", "2", "3"} \subseteq Digits /\ Blank \notin Digits /\ NL \notin Digits
      /\ \A k \in ProcKeys : k \notin {Blank, NL, "1", "2", "3"}
  BY ProcAssumption
<1>2. {key, Blank, NL, "1", "2", "3"} \subseteq Cells  BY DEF Cells
<1>3. CASE x = <<>>
  BY <1>3 DEF Ends, HasField, Lacks
<1>4. CASE x = <<key, Blank, "1", NL>>
  <2>1. Len(x) = 4 /\ DOMAIN x = 1 .. 4 /\ x[1] = key /\ x[2] = Blank /\ x[3] = "1" /\ x[4] = NL
    BY <1>4
  <2>2. \A j \in 1 .. 4 : j = 1 \/ j = 2 \/ j = 3 \/ j = 4  OBVIOUS
  <2>3. NumberAt(x, key, 1, 3, 3)  BY <1>1, <2>1, <2>2 DEF NumberAt
  <2>4. x \in Seq(Cells)  BY <1>2, <1>4
  <2>5. \A k \in ProcKeys : k # key => Lacks(x, k)  BY <1>1, <2>1, <2>2 DEF Lacks
  <2> QED  BY <2>1, <2>3, <2>4, <2>5 DEF Ends, HasField
<1>5. CASE x = <<key, Blank, "1", "2", Blank, "3", NL>>
  <2>1. /\ Len(x) = 7 /\ DOMAIN x = 1 .. 7 /\ x[1] = key /\ x[2] = Blank /\ x[3] = "1"
        /\ x[4] = "2" /\ x[5] = Blank /\ x[6] = "3" /\ x[7] = NL
    BY <1>5
  <2>2. \A j \in 1 .. 7 : j = 1 \/ j = 2 \/ j = 3 \/ j = 4 \/ j = 5 \/ j = 6 \/ j = 7
    OBVIOUS
  <2>3. NumberAt(x, key, 1, 3, 4)  BY <1>1, <2>1, <2>2 DEF NumberAt
  <2>4. x \in Seq(Cells)  BY <1>2, <1>5
  <2>5. \A k \in ProcKeys : k # key => Lacks(x, k)  BY <1>1, <2>1, <2>2 DEF Lacks
  <2> QED  BY <2>1, <2>3, <2>4, <2>5 DEF Ends, HasField
<1>6. CASE x = <<key, "2", "1", NL>>
  <2>1. Len(x) = 4 /\ DOMAIN x = 1 .. 4 /\ x[1] = key /\ x[2] = "2" /\ x[3] = "1" /\ x[4] = NL
    BY <1>6
  <2>2. \A j \in 1 .. 4 : j = 1 \/ j = 2 \/ j = 3 \/ j = 4  OBVIOUS
  <2>3. NumberAt(x, key, 1, 2, 3)  BY <1>1, <2>1, <2>2 DEF NumberAt
  <2>4. x \in Seq(Cells)  BY <1>2, <1>6
  <2>5. \A k \in ProcKeys : k # key => Lacks(x, k)  BY <1>1, <2>1, <2>2 DEF Lacks
  <2> QED  BY <2>1, <2>3, <2>4, <2>5 DEF Ends, HasField
<1> QED  BY <1>3, <1>4, <1>5, <1>6 DEF TextLine

\* A text of the run has each key at most once, with a number.
LEMMA FieldsOfTexts ==
  ASSUME NEW text \in Texts, NEW key \in ProcKeys
  PROVE  text \in Seq(Cells) /\ HasField(text, key)
<1>1. PICK i \in TextLine("intr"), c \in TextLine("ctxt"), s \in TextLine("softirq") :
        text = (i \o c) \o s
  BY DEF Texts
<1>2. "intr" \in ProcKeys /\ "ctxt" \in ProcKeys /\ "softirq" \in ProcKeys
      /\ "intr" # "ctxt" /\ "intr" # "softirq" /\ "ctxt" # "softirq"
  BY DEF ProcKeys
<1>3. /\ i \in Seq(Cells) /\ Ends(i) /\ HasField(i, "intr")
      /\ Lacks(i, "ctxt") /\ Lacks(i, "softirq")
  BY <1>1, <1>2, LineOfText
<1>4. /\ c \in Seq(Cells) /\ Ends(c) /\ HasField(c, "ctxt")
      /\ Lacks(c, "intr") /\ Lacks(c, "softirq")
  BY <1>1, <1>2, LineOfText
<1>5. /\ s \in Seq(Cells) /\ HasField(s, "softirq")
      /\ Lacks(s, "intr") /\ Lacks(s, "ctxt")
  BY <1>1, <1>2, LineOfText
<1>6. PICK x : x = i \o c  OBVIOUS
<1>7. x \in Seq(Cells) /\ Ends(x) /\ Lacks(x, "softirq")
  BY <1>3, <1>4, <1>6, LinesJoined
<1>8. HasField(x, "intr")  BY <1>3, <1>4, <1>6, FieldBefore
<1>9. HasField(x, "ctxt")  BY <1>3, <1>4, <1>6, FieldBehind
<1>10. HasField(text, "intr") /\ HasField(text, "ctxt")
  BY <1>1, <1>5, <1>6, <1>7, <1>8, <1>9, FieldBefore
<1>11. HasField(text, "softirq")  BY <1>1, <1>5, <1>6, <1>7, FieldBehind
<1>12. text \in Seq(Cells)  BY <1>1, <1>5, <1>6, <1>7, LinesJoined
<1> QED  BY <1>10, <1>11, <1>12 DEF ProcKeys

\* Every counter of a run is of its own reading (NumbersOfThisReading).
THEOREM NumbersOfThisReadingHolds == ParsersSpec => []NumbersOfThisReading
<1>1. ParsersInit => NumbersOfThisReading
  BY DEF ParsersInit, NumbersOfThisReading
<1> DEFINE Number(text, i) ==
             LET from == IF text[i + 1] = Blank THEN i + 2 ELSE i + 1
                 to == CHOOSE j \in from .. Len(text) :
                         /\ text[j] \in Digits
                         /\ text[j + 1] \notin Digits
                         /\ \A m \in from .. j : text[m] \in Digits
             IN  SubSeq(text, from, Min({to, Capacity}))
           Value(text, key) ==
             LET at == {i \in DOMAIN text : text[i] = key}
             IN  IF at = {} THEN <<>> ELSE Number(text, CHOOSE i \in at : TRUE)
<1>2. ASSUME NEW text \in Seq(Cells), NEW key, NEW i, NEW from, NEW to,
             NumberAt(text, key, i, from, to)
      PROVE  Value(text, key) = NumberRead(text, from, to)
  <2>1. PICK len \in Nat : len = Len(text) /\ DOMAIN text = 1 .. len  OBVIOUS
  <2>2. /\ i \in 1 .. len /\ to \in Nat /\ to + 1 \in 1 .. len
        /\ \A j \in 1 .. len : text[j] = key <=> j = i
        /\ from = IF text[i + 1] = Blank THEN i + 2 ELSE i + 1
        /\ from <= to /\ from \in Nat
        /\ \A j \in from .. to : text[j] \in Digits
        /\ text[to + 1] \notin Digits
    BY <1>2, <2>1 DEF NumberAt
  <2>3. {j \in DOMAIN text : text[j] = key} = {i}  BY <2>1, <2>2
  <2>4. (CHOOSE j \in {i} : TRUE) = i  OBVIOUS
  <2> DEFINE P(j) == /\ text[j] \in Digits
                     /\ text[j + 1] \notin Digits
                     /\ \A m \in from .. j : text[m] \in Digits
  <2>5. to \in from .. len /\ P(to)
    <3>1. to \in from .. to  BY <2>2
    <3> QED  BY <2>2, <3>1
  <2>6. ASSUME NEW j \in from .. len, P(j) PROVE j = to
    <3>1. ASSUME j < to PROVE FALSE
      <4>1. j + 1 \in from .. to  BY <2>2, <3>1
      <4> QED  BY <2>2, <2>6, <4>1
    <3>2. ASSUME to < j PROVE FALSE
      <4>1. to + 1 \in from .. j  BY <2>2, <3>2
      <4> QED  BY <2>2, <2>6, <4>1
    <3> QED  BY <2>2, <3>1, <3>2
  <2> HIDE DEF P
  <2>7. (CHOOSE j \in from .. len : P(j)) = to  BY <2>5, <2>6
  <2>8. Number(text, i) = SubSeq(text, from, Min({to, Capacity}))
    BY <2>1, <2>2, <2>7 DEF P
  <2> HIDE DEF Number
  <2> QED  BY <2>3, <2>4, <2>8 DEF NumberRead
<1>3. ASSUME NEW text \in Seq(Cells), NEW key, Lacks(text, key)
      PROVE  Value(text, key) = <<>>
  <2>1. {j \in DOMAIN text : text[j] = key} = {}  BY <1>3 DEF Lacks
  <2> HIDE DEF Number
  <2> QED  BY <2>1
<1> HIDE DEF Value
<1>4. ASSUME NEW old \in Texts, NEW text \in Texts, CollectText(old, text) # NoStats,
             NEW key \in Keys
      PROVE  CollectText(old, text)[key] = Value(text, key)
  <2>1. PICK n : n = Min({Len(text), Capacity})  OBVIOUS
  <2>2. key \in ProcKeys  BY ProcAssumption
  <2>3. old \in Seq(Cells) /\ text \in Seq(Cells) /\ HasField(text, key)
    BY <2>2, FieldsOfTexts
  <2>4. CollectText(old, text)[key] = ReadField(Buffer(old, text), n, key)
    BY <1>4, <2>1 DEF CollectText
  <2>5. CASE Lacks(text, key)
    <3>1. ReadField(Buffer(old, text), n, key) = <<>>
      BY <2>1, <2>3, <2>5, NumbersOfAnyText DEF Lacks
    <3> QED  BY <1>3, <2>3, <2>4, <2>5, <3>1
  <2>6. ASSUME NEW i, NEW from, NEW to, NumberAt(text, key, i, from, to)
        PROVE  CollectText(old, text)[key] = Value(text, key)
    <3>1. ReadField(Buffer(old, text), n, key) = NumberRead(text, from, to)
      BY <2>1, <2>3, <2>6, NumbersOfAnyText
    <3> QED  BY <1>2, <2>3, <2>4, <2>6, <3>1
  <2> QED  BY <2>3, <2>5, <2>6 DEF HasField
<1>5. NumbersOfThisReading /\ [ParsersNext]_<<subject, input, outcome>>
        => NumbersOfThisReading'
  <2> DEFINE Holds(what, arguments, value) ==
               what = "proc" /\ value # NoStats =>
                 \A key \in Keys : value[key] = Value(arguments.text, key)
  <2>1. /\ NumbersOfThisReading <=> Holds(subject, input, outcome)
        /\ NumbersOfThisReading' <=> Holds(subject', input', outcome')
    BY DEF NumbersOfThisReading, Value
  <2>2. CASE UNCHANGED <<subject, input, outcome>>
    <3> HIDE DEF Holds
    <3> QED  BY <2>1, <2>2
  <2>3. ASSUME ParsersNext, subject' = "proc", outcome' # NoStats, NEW key \in Keys
        PROVE  outcome'[key] = Value(input'.text, key)
    <3>1. ReadProc
      <4>1. "proc" # "line" /\ "proc" # "adapter" /\ "proc" # "hwmon"
            /\ "proc" # "topology"
        OBVIOUS
      <4> QED
        BY <2>3, <4>1 DEF ParsersNext, ParseLine, ResolveAdapter, ScanHwmon, ParseTopology, Run
    <3>2. PICK old \in Texts, text \in Texts :
            input' = [old |-> old, text |-> text] /\ outcome' = CollectText(old, text)
      BY <3>1 DEF ReadProc, Run
    <3> QED  BY <1>4, <2>3, <3>2
  <2> QED  BY <2>1, <2>2, <2>3
<1> QED  BY <1>1, <1>5, PTL DEF ParsersSpec

-----------------------------------------------------------------------------
(* Log lines                                                               *)

\* A sequence, whatever its elements.
IsSequence(s) == \E S : s \in Seq(S)

\* Tuples are sequences.
LEMMA Tuples ==
  /\ \A x1 : IsSequence(<<x1>>)
  /\ \A x1, x2 : IsSequence(<<x1, x2>>)
  /\ \A x1, x2, x3 : IsSequence(<<x1, x2, x3>>)
  /\ \A x1, x2, x3, x4 : IsSequence(<<x1, x2, x3, x4>>)
  /\ \A x1, x2, x3, x4, x5 : IsSequence(<<x1, x2, x3, x4, x5>>)
  /\ \A x1, x2, x3, x4, x5, x6 : IsSequence(<<x1, x2, x3, x4, x5, x6>>)
  /\ \A x1, x2, x3, x4, x5, x6, x7 : IsSequence(<<x1, x2, x3, x4, x5, x6, x7>>)
  /\ \A x1, x2, x3, x4, x5, x6, x7, x8, x9, x10 :
       IsSequence(<<x1, x2, x3, x4, x5, x6, x7, x8, x9, x10>>)
  /\ \A x1, x2, x3, x4, x5, x6, x7, x8, x9, x10, x11, x12 :
       IsSequence(<<x1, x2, x3, x4, x5, x6, x7, x8, x9, x10, x11, x12>>)
<1>1. ASSUME NEW x1, NEW x2, NEW x3, NEW x4, NEW x5, NEW x6, NEW x7, NEW x8, NEW x9, NEW x10,
             NEW x11, NEW x12
      PROVE  /\ IsSequence(<<x1>>)
             /\ IsSequence(<<x1, x2>>)
             /\ IsSequence(<<x1, x2, x3>>)
             /\ IsSequence(<<x1, x2, x3, x4>>)
             /\ IsSequence(<<x1, x2, x3, x4, x5>>)
             /\ IsSequence(<<x1, x2, x3, x4, x5, x6>>)
             /\ IsSequence(<<x1, x2, x3, x4, x5, x6, x7>>)
             /\ IsSequence(<<x1, x2, x3, x4, x5, x6, x7, x8, x9, x10>>)
             /\ IsSequence(<<x1, x2, x3, x4, x5, x6, x7, x8, x9, x10, x11, x12>>)
  <2>1. PICK S : S = {x1, x2, x3, x4, x5, x6, x7, x8, x9, x10, x11, x12}  OBVIOUS
  <2>2. x1 \in S /\ x2 \in S /\ x3 \in S /\ x4 \in S /\ x5 \in S /\ x6 \in S /\ x7 \in S
        /\ x8 \in S /\ x9 \in S /\ x10 \in S /\ x11 \in S /\ x12 \in S
    BY <2>1
  <2>3. /\ <<x1>> \in Seq(S)
        /\ <<x1, x2>> \in Seq(S)
        /\ <<x1, x2, x3>> \in Seq(S)
        /\ <<x1, x2, x3, x4>> \in Seq(S)
        /\ <<x1, x2, x3, x4, x5>> \in Seq(S)
        /\ <<x1, x2, x3, x4, x5, x6>> \in Seq(S)
        /\ <<x1, x2, x3, x4, x5, x6, x7>> \in Seq(S)
        /\ <<x1, x2, x3, x4, x5, x6, x7, x8, x9, x10>> \in Seq(S)
        /\ <<x1, x2, x3, x4, x5, x6, x7, x8, x9, x10, x11, x12>> \in Seq(S)
    BY <2>2
  <2>4. \A s \in Seq(S) : IsSequence(s)  BY DEF IsSequence
  <2> QED  BY <2>3, <2>4
<1> QED  BY <1>1, ZenonT(60)

\* One sequence is two others end to end.
IsConcat(x, s, t) ==
  /\ IsSequence(x) /\ Len(x) = Len(s) + Len(t)
  /\ \A i \in 1 .. Len(s) : x[i] = s[i]
  /\ \A i \in 1 .. Len(t) : x[Len(s) + i] = t[i]

\* So is what \o gives.
LEMMA Concatenation ==
  ASSUME NEW s, NEW t, IsSequence(s), IsSequence(t)
  PROVE  IsConcat(s \o t, s, t)
<1>1. PICK S, T : s \in Seq(S) /\ t \in Seq(T)  BY DEF IsSequence
<1>2. s \in Seq(S \cup T) /\ t \in Seq(S \cup T)  BY <1>1
<1>3. PICK U, x : U = S \cup T /\ x = s \o t  OBVIOUS
<1>4. /\ x \in Seq(U) /\ Len(x) = Len(s) + Len(t)
      /\ \A i \in 1 .. Len(s) : x[i] = s[i]
      /\ \A i \in 1 .. Len(t) : x[Len(s) + i] = t[i]
  BY <1>2, <1>3
<1>5. IsSequence(x)  BY <1>4 DEF IsSequence
<1> QED  BY <1>3, <1>4, <1>5 DEF IsConcat

\* The conversions of the first n items of a format.
Converted(format, n) ==
  {p \in (1 .. n) \X {1, 2} : p[2] <= Conversions(format[p[1]])}

\* A line has every item of a format.
Takes(format, line) ==
  Len(format) <= Len(line) /\ \A i \in 1 .. Len(format) : Fits(format[i], line[i])

\* What item i converts, and the event of a line that has every item.
Part(format, line, i) ==
  IF format[i][1] = "rest" THEN SubSeq(line, i, Len(line)) ELSE <<line[i]>>

EventOf(event, format, line) ==
  [event |-> event,
   fields |-> {<<format[p[1]][2], Part(format, line, p[1])>> :
                 p \in Converted(format, Len(format))}]

\* A format that ends in a conversion and has count of them.
Complete(format, count) ==
  /\ Len(format) \in Nat \ {0}
  /\ Conversions(format[Len(format)]) > 0
  /\ IsFiniteSet(Converted(format, Len(format)))
  /\ Cardinality(Converted(format, Len(format))) = count

\* The result of Scan.
IsScanOf(result, event, format, line) ==
  /\ Takes(format, line) => result = EventOf(event, format, line)
  /\ ~Takes(format, line) => result = NoEvent

\* An item has at most two conversions.
LEMMA ConversionsType ==
  \A item : Conversions(item) \in {0, 1, 2}
BY DEF Conversions

\* A line gives an event when it has every item of the format, and only then.
LEMMA ScanMeaning ==
  ASSUME NEW event, NEW format, NEW count, Complete(format, count),
         NEW line, IsSequence(line)
  PROVE  IsScanOf(Scan(event, format, count, line), event, format, line)
<1>1. PICK l \in Nat, k \in Nat : l = Len(line) /\ k = Len(format) /\ k # 0
  BY DEF Complete, IsSequence
<1>2. PICK m \in Nat : m = Min({k, l}) /\ m <= k /\ m <= l /\ (m = k \/ m = l)
  BY SmallerOf
<1> DEFINE K == {j \in 0 .. m : \A i \in 1 .. j : Fits(format[i], line[i])}
<1>3. K \in SUBSET (0 .. m) /\ 0 \in K  OBVIOUS
<1>4. \A j : j \in K <=> j \in 0 .. m /\ \A i \in 1 .. j : Fits(format[i], line[i])
  OBVIOUS
<1> HIDE DEF K
<1>5. PICK n : n = Max(K)  OBVIOUS
<1>6. n \in K /\ n \in 0 .. m /\ \A j \in K : j <= n
  BY <1>3, <1>5, GreatestOfSet
<1>7. Takes(format, line) <=> n = k
  <2>1. ASSUME Takes(format, line) PROVE n = k
    <3>1. k <= l /\ \A i \in 1 .. k : Fits(format[i], line[i])  BY <1>1, <2>1 DEF Takes
    <3>2. m = k  BY <1>2, <3>1
    <3>3. k \in K  BY <1>4, <3>1, <3>2
    <3> QED  BY <1>6, <3>2, <3>3
  <2>2. ASSUME n = k PROVE Takes(format, line)
    <3>1. \A i \in 1 .. k : Fits(format[i], line[i])  BY <1>4, <1>6, <2>2
    <3>2. k <= l  BY <1>2, <1>6, <2>2
    <3> QED  BY <1>1, <3>1, <3>2 DEF Takes
  <2> QED  BY <2>1, <2>2
<1>8. n = k <=> Cardinality(Converted(format, n)) = count
  <2>1. ASSUME n # k, Cardinality(Converted(format, n)) = count PROVE FALSE
    <3>1. n \in 0 .. (k - 1)  BY <1>2, <1>6, <2>1
    <3>2. Converted(format, n) \in SUBSET Converted(format, k)
      <4>1. 1 .. n \subseteq 1 .. k  BY <3>1
      <4> QED  BY <4>1 DEF Converted
    <3>3. IsFiniteSet(Converted(format, k)) /\ Cardinality(Converted(format, k)) = count
          /\ Conversions(format[k]) > 0
      BY <1>1 DEF Complete
    <3>4. Converted(format, k) = Converted(format, n)  BY <2>1, <3>2, <3>3, FS_Subset
    <3>5. <<k, 1>> \in Converted(format, k)
      <4>1. k \in 1 .. k /\ 1 <= Conversions(format[k])
        BY <1>1, <3>3, ConversionsType
      <4> QED  BY <4>1 DEF Converted
    <3>6. k \notin 1 .. n  BY <3>1
    <3>7. <<k, 1>> \notin Converted(format, n)  BY <3>6 DEF Converted
    <3> QED  BY <3>4, <3>5, <3>7
  <2>2. ASSUME n = k PROVE Cardinality(Converted(format, n)) = count
    BY <1>1, <2>2 DEF Complete
  <2> QED  BY <2>1, <2>2
<1> DEFINE Fields == {<<format[p[1]][2], Part(format, line, p[1])>> :
                        p \in Converted(format, n)}
<1>9. Scan(event, format, count, line)
        = IF Cardinality(Converted(format, n)) = count
            THEN [event |-> event, fields |-> Fields] ELSE NoEvent
  BY <1>1, <1>2, <1>5 DEF Scan, K, Converted, Part
<1>10. n = k => [event |-> event, fields |-> Fields] = EventOf(event, format, line)
  BY <1>1 DEF EventOf
<1> HIDE DEF Fields
<1> QED  BY <1>7, <1>8, <1>9, <1>10 DEF IsScanOf

\* A set with one element more.
LEMMA OneElementMore ==
  ASSUME NEW n \in Nat, NEW S, IsFiniteSet(S), Cardinality(S) = n,
         NEW x, x \notin S, NEW T, T = S \cup {x}
  PROVE  IsFiniteSet(T) /\ Cardinality(T) = n + 1
BY FS_AddElement

\* The number of elements of a finite set.
Counts(S, n) == IsFiniteSet(S) /\ Cardinality(S) = n

\* Sets that are given by their elements.
LEMMA Cardinalities ==
  ASSUME NEW x1, NEW x2, NEW x3, NEW x4, NEW x5, NEW x6
  PROVE  x1 # x2 =>
           /\ Counts({x1, x2}, 2)
           /\ x3 \notin {x1, x2} =>
                /\ Counts({x1, x2, x3}, 3)
                /\ x4 \notin {x1, x2, x3} =>
                     /\ Counts({x1, x2, x3, x4}, 4)
                     /\ x5 \notin {x1, x2, x3, x4} =>
                          /\ Counts({x1, x2, x3, x4, x5}, 5)
                          /\ x6 \notin {x1, x2, x3, x4, x5} =>
                               Counts({x1, x2, x3, x4, x5, x6}, 6)
<1>1. /\ \A S, T, x : Counts(S, 1) /\ x \notin S /\ T = S \cup {x} => Counts(T, 2)
      /\ \A S, T, x : Counts(S, 2) /\ x \notin S /\ T = S \cup {x} => Counts(T, 3)
      /\ \A S, T, x : Counts(S, 3) /\ x \notin S /\ T = S \cup {x} => Counts(T, 4)
      /\ \A S, T, x : Counts(S, 4) /\ x \notin S /\ T = S \cup {x} => Counts(T, 5)
      /\ \A S, T, x : Counts(S, 5) /\ x \notin S /\ T = S \cup {x} => Counts(T, 6)
  BY OneElementMore DEF Counts
<1>2. PICK S1, S2, S3, S4, S5, S6 :
        /\ S1 = {x1} /\ S2 = {x1, x2} /\ S3 = {x1, x2, x3} /\ S4 = {x1, x2, x3, x4}
        /\ S5 = {x1, x2, x3, x4, x5} /\ S6 = {x1, x2, x3, x4, x5, x6}
  OBVIOUS
<1>3. /\ S2 = S1 \cup {x2} /\ S3 = S2 \cup {x3} /\ S4 = S3 \cup {x4}
      /\ S5 = S4 \cup {x5} /\ S6 = S5 \cup {x6}
      /\ x2 \in S1 <=> x1 = x2
  BY <1>2
<1>4. Counts(S1, 1)  BY <1>2, FS_Singleton DEF Counts
<1>5. x2 \notin S1 =>
        /\ Counts(S2, 2)
        /\ x3 \notin S2 =>
             /\ Counts(S3, 3)
             /\ x4 \notin S3 =>
                  /\ Counts(S4, 4)
                  /\ x5 \notin S4 =>
                       /\ Counts(S5, 5)
                       /\ x6 \notin S5 => Counts(S6, 6)
  BY <1>1, <1>3, <1>4
<1> QED  BY <1>2, <1>3, <1>5

\* The same for numbers in ascending order.
LEMMA NumbersCounted ==
  /\ \A x1, x2 \in Nat :
       x1 < x2 => Counts({x1, x2}, 2)
  /\ \A x1, x2, x3 \in Nat :
       x1 < x2 /\ x2 < x3 => Counts({x1, x2, x3}, 3)
  /\ \A x1, x2, x3, x4 \in Nat :
       x1 < x2 /\ x2 < x3 /\ x3 < x4 => Counts({x1, x2, x3, x4}, 4)
  /\ \A x1, x2, x3, x4, x5 \in Nat :
       x1 < x2 /\ x2 < x3 /\ x3 < x4 /\ x4 < x5 => Counts({x1, x2, x3, x4, x5}, 5)
  /\ \A x1, x2, x3, x4, x5, x6 \in Nat :
       x1 < x2 /\ x2 < x3 /\ x3 < x4 /\ x4 < x5 /\ x5 < x6 => Counts({x1, x2, x3, x4, x5, x6}, 6)
<1>1. ASSUME NEW x1 \in Nat, NEW x2 \in Nat,
             x1 < x2
      PROVE  Counts({x1, x2}, 2)
  <2>1. x1 # x2  BY <1>1
  <2> QED  BY <2>1, Cardinalities
<1>2. ASSUME NEW x1 \in Nat, NEW x2 \in Nat, NEW x3 \in Nat,
             x1 < x2, x2 < x3
      PROVE  Counts({x1, x2, x3}, 3)
  <2>1. x1 # x2 /\ x3 \notin {x1, x2}  BY <1>2
  <2> QED  BY <2>1, Cardinalities
<1>3. ASSUME NEW x1 \in Nat, NEW x2 \in Nat, NEW x3 \in Nat, NEW x4 \in Nat,
             x1 < x2, x2 < x3, x3 < x4
      PROVE  Counts({x1, x2, x3, x4}, 4)
  <2>1. x1 # x2 /\ x3 \notin {x1, x2} /\ x4 \notin {x1, x2, x3}
    BY <1>3
  <2> QED  BY <2>1, Cardinalities
<1>4. ASSUME NEW x1 \in Nat, NEW x2 \in Nat, NEW x3 \in Nat, NEW x4 \in Nat, NEW x5 \in Nat,
             x1 < x2, x2 < x3, x3 < x4, x4 < x5
      PROVE  Counts({x1, x2, x3, x4, x5}, 5)
  <2>1. x1 # x2 /\ x3 \notin {x1, x2} /\ x4 \notin {x1, x2, x3}
        /\ x5 \notin {x1, x2, x3, x4}
    BY <1>4
  <2> QED  BY <2>1, Cardinalities
<1>5. ASSUME NEW x1 \in Nat, NEW x2 \in Nat, NEW x3 \in Nat, NEW x4 \in Nat,
             NEW x5 \in Nat, NEW x6 \in Nat,
             x1 < x2, x2 < x3, x3 < x4, x4 < x5, x5 < x6
      PROVE  Counts({x1, x2, x3, x4, x5, x6}, 6)
  <2>1. x1 # x2 /\ x3 \notin {x1, x2} /\ x4 \notin {x1, x2, x3}
        /\ x5 \notin {x1, x2, x3, x4} /\ x6 \notin {x1, x2, x3, x4, x5}
    BY <1>5
  <2> QED  BY <2>1, Cardinalities
<1> QED  BY <1>1, <1>2, <1>3, <1>4, <1>5, ZenonT(60)

\* Every field that has labels stands behind one of them.
Labelled(format) ==
  \A i \in 1 .. Len(format) :
    Conversions(format[i]) > 0 /\ Labels(format[i][2]) # {} =>
      /\ i > 1 /\ format[i - 1][1] = "lit"
      /\ format[i - 1][2] \in Labels(format[i][2])

\* The conversions of each kind of item.
LEMMA ItemConversions ==
  \A y : /\ Conversions(Lit(y)) = 0 /\ Conversions(Skip) = 0
         /\ Conversions(SkipNum) = 0 /\ Conversions(<<"num", y>>) = 1
         /\ Conversions(<<"numcomma", y>>) = 1 /\ Conversions(<<"stamp", y>>) = 1
         /\ Conversions(<<"state", y>>) = 1 /\ Conversions(<<"paren", y>>) = 1
         /\ Conversions(<<"word", y>>) = 1 /\ Conversions(<<"rest", y>>) = 1
         /\ Conversions(<<"portid", y>>) = 2
BY DEF Conversions, Lit, Skip, SkipNum

\* Some items are converted, once each.
OneEach(x, n, D) ==
  /\ n \in D /\ D \subseteq 1 .. n
  /\ \A i \in D : Conversions(x[i]) = 1
  /\ \A i \in 1 .. n : i \notin D => Conversions(x[i]) = 0

\* Then there are as many conversions as items that are converted.
LEMMA OneEachCounted ==
  ASSUME NEW n \in Nat \ {0}, NEW x, Len(x) = n, NEW D, OneEach(x, n, D),
         NEW c, Counts(D, c)
  PROVE  Complete(x, c)
<1>1. /\ n \in D /\ \A i \in D : i \in 1 .. n
      /\ \A i \in D : Conversions(x[i]) = 1
      /\ \A i \in 1 .. n : i \notin D => Conversions(x[i]) = 0
  BY DEF OneEach
<1> DEFINE f == [i \in D |-> <<i, 1>>]
<1>2. ASSUME NEW p \in Converted(x, n) PROVE p[1] \in D /\ p = <<p[1], 1>>
  <2>1. p \in (1 .. n) \X {1, 2} /\ p[2] <= Conversions(x[p[1]])  BY DEF Converted
  <2>2. p = <<p[1], p[2]>> /\ p[1] \in 1 .. n /\ p[2] \in {1, 2}  BY <2>1
  <2>3. PICK i \in 1 .. n, k \in {1, 2} : i = p[1] /\ k = p[2]  BY <2>2
  <2>4. k <= Conversions(x[i])  BY <2>1, <2>3
  <2>5. i \in D
    <3>1. i \notin D => Conversions(x[i]) = 0  BY <1>1
    <3> QED  BY <2>4, <3>1
  <2>6. Conversions(x[i]) = 1  BY <1>1, <2>5
  <2>7. k = 1  BY <2>4, <2>6
  <2> QED  BY <2>2, <2>3, <2>5, <2>7
<1>3. ASSUME NEW i \in D PROVE <<i, 1>> \in Converted(x, n)
  <2>1. i \in 1 .. n /\ 1 <= Conversions(x[i])  BY <1>1
  <2> QED  BY <2>1 DEF Converted
<1>4. f \in [D -> Converted(x, n)] /\ \A i \in D : f[i] = <<i, 1>>  BY <1>3
<1> HIDE DEF f
<1>5. \A i, j \in D : f[i] = f[j] => i = j  BY <1>4
<1>6. \A p \in Converted(x, n) : \E i \in D : f[i] = p  BY <1>2, <1>4
<1>7. ExistsBijection(D, Converted(x, n))
  BY <1>4, <1>5, <1>6 DEF ExistsBijection, Bijection, Injection, Surjection, IsInjective
<1>8. Counts(Converted(x, n), c)  BY <1>7, FS_Bijection DEF Counts
<1>9. Conversions(x[n]) > 0
  <2>1. Conversions(x[n]) = 1  BY <1>1
  <2> QED  BY <2>1
<1> QED  BY <1>8, <1>9 DEF Complete, Counts

\* The labels of the fields.
LEMMA LabelsOfFields ==
  /\ Labels("timestamp") = {} /\ Labels("state") = {} /\ Labels("portName") = {}
  /\ Labels("fromState") = {} /\ Labels("offset") = {"offset", "offset:", "max"}
  /\ Labels("freq") = {"freq"} /\ Labels("path_delay") = {"delay"}
  /\ Labels("portNumber") = {"port"} /\ Labels("toState") = {"to"}
  /\ Labels("trigger") = {"on"} /\ Labels("masterClockIdentity") = {"clock", "master"}
  /\ Labels("sequence") = {"sequence:"}
BY DEF Labels

-----------------------------------------------------------------------------
(* The formats                                                             *)

\* The items of the summary of ptp4l.
RmsItems(x) ==
  /\ Len(x) = 11 /\ x[1] = Stamp /\ x[2] = Lit("rms") /\ x[3] = SkipNum
  /\ x[4] = Lit("max") /\ x[5] = <<"num", "offset">> /\ x[6] = Lit("freq")
  /\ x[7] = <<"num", "freq">> /\ x[8] = Lit("+/-") /\ x[9] = SkipNum
  /\ x[10] = Lit("delay") /\ x[11] = <<"num", "path_delay">>

\* The format has them.
LEMMA RmsFormat ==
  RmsItems(<<Stamp>> \o RmsTail)
<1>1. PICK s, t, x : s = <<Stamp>> /\ t = RmsTail /\ x = s \o t
  OBVIOUS
<1>2. IsSequence(s) /\ IsSequence(t) /\ Len(s) = 1 /\ Len(t) = 10
  BY <1>1, Tuples DEF RmsTail
<1>3. IsConcat(x, s, t)  BY <1>1, <1>2, Concatenation
<1>4. Len(x) = 11 /\ (\A i \in 1 .. 1 : x[i] = s[i]) /\ \A i \in 1 .. 10 : x[1 + i] = t[i]
  BY <1>2, <1>3 DEF IsConcat
<1>5. /\ x[1] = s[1] /\ x[2] = t[1] /\ x[3] = t[2] /\ x[4] = t[3] /\ x[5] = t[4]
      /\ x[6] = t[5] /\ x[7] = t[6] /\ x[8] = t[7] /\ x[9] = t[8] /\ x[10] = t[9]
      /\ x[11] = t[10]
  BY <1>4
<1> QED  BY <1>1, <1>4, <1>5 DEF RmsItems, RmsTail

\* They are counted, and their fields are labelled.
LEMMA RmsCounted ==
  ASSUME NEW x, RmsItems(x)
  PROVE  Complete(x, 4) /\ Labelled(x)
<1>1. Len(x) = 11 /\ 11 \in Nat \ {0}  BY DEF RmsItems
<1>2. \A i \in 1 .. 11 :
        i = 1 \/ i = 2 \/ i = 3 \/ i = 4 \/ i = 5 \/ i = 6 \/ i = 7 \/
        i = 8 \/ i = 9 \/ i = 10 \/ i = 11
  OBVIOUS
<1>3. /\ Conversions(x[1]) = 1 /\ Conversions(x[2]) = 0 /\ Conversions(x[3]) = 0
      /\ Conversions(x[4]) = 0 /\ Conversions(x[5]) = 1 /\ Conversions(x[6]) = 0
      /\ Conversions(x[7]) = 1 /\ Conversions(x[8]) = 0 /\ Conversions(x[9]) = 0
      /\ Conversions(x[10]) = 0 /\ Conversions(x[11]) = 1
  BY ItemConversions DEF RmsItems, Stamp
<1>4. OneEach(x, 11, {1, 5, 7, 11})  BY <1>2, <1>3 DEF OneEach
<1>5. Counts({1, 5, 7, 11}, 4)  BY NumbersCounted
<1>6. Complete(x, 4)  BY <1>1, <1>4, <1>5, OneEachCounted
<1>7. Labelled(x)
  <2>1. /\ x[1][2] = "timestamp" /\ x[5][2] = "offset" /\ x[7][2] = "freq"
        /\ x[11][2] = "path_delay" /\ x[4][1] = "lit" /\ x[4][2] = "max"
        /\ x[6][1] = "lit" /\ x[6][2] = "freq" /\ x[10][1] = "lit"
        /\ x[10][2] = "delay"
    BY DEF RmsItems, Lit, Stamp
  <2> QED  BY <1>1, <1>2, <1>3, <2>1, LabelsOfFields DEF Labelled
<1> QED  BY <1>6, <1>7

\* The items of an offset of ptp4l.
OffsetItems(x) ==
  /\ Len(x) = 10 /\ x[1] = Stamp /\ x[2] = Skip /\ x[3] = Lit("offset")
  /\ x[4] = <<"num", "offset">> /\ x[5] = <<"state", "state">> /\ x[6] = Lit("freq")
  /\ x[7] = <<"num", "freq">> /\ x[8] = Lit("path") /\ x[9] = Lit("delay")
  /\ x[10] = <<"num", "path_delay">>

\* The format has them.
LEMMA OffsetFormat ==
  OffsetItems(<<Stamp, Skip>> \o OffsetTail \o
              <<Lit("path"), Lit("delay"), <<"num", "path_delay">>>>)
<1>1. PICK s, t, u, y, x : /\ s = <<Stamp, Skip>> /\ t = OffsetTail
                           /\ u = <<Lit("path"), Lit("delay"), <<"num", "path_delay">>>>
                           /\ y = s \o t /\ x = y \o u
  OBVIOUS
<1>2. /\ IsSequence(s) /\ IsSequence(t) /\ IsSequence(u)
      /\ Len(s) = 2 /\ Len(t) = 5 /\ Len(u) = 3
  BY <1>1, Tuples DEF OffsetTail
<1>3. IsConcat(y, s, t)  BY <1>1, <1>2, Concatenation
<1>4. IsSequence(y) /\ Len(y) = 7 /\ (\A i \in 1 .. 2 : y[i] = s[i])
      /\ \A i \in 1 .. 5 : y[2 + i] = t[i]
  BY <1>2, <1>3 DEF IsConcat
<1>5. IsConcat(x, y, u)  BY <1>1, <1>2, <1>4, Concatenation
<1>6. Len(x) = 10 /\ (\A i \in 1 .. 7 : x[i] = y[i])
      /\ \A i \in 1 .. 3 : x[7 + i] = u[i]
  BY <1>2, <1>4, <1>5 DEF IsConcat
<1>7. /\ y[1] = s[1] /\ y[2] = s[2] /\ y[3] = t[1] /\ y[4] = t[2] /\ y[5] = t[3]
      /\ y[6] = t[4] /\ y[7] = t[5]
  BY <1>4
<1>8. /\ x[1] = y[1] /\ x[2] = y[2] /\ x[3] = y[3] /\ x[4] = y[4] /\ x[5] = y[5]
      /\ x[6] = y[6] /\ x[7] = y[7] /\ x[8] = u[1] /\ x[9] = u[2] /\ x[10] = u[3]
  BY <1>6
<1> QED  BY <1>1, <1>6, <1>7, <1>8 DEF OffsetItems, OffsetTail

\* They are counted, and their fields are labelled.
LEMMA OffsetCounted ==
  ASSUME NEW x, OffsetItems(x)
  PROVE  Complete(x, 5) /\ Labelled(x)
<1>1. Len(x) = 10 /\ 10 \in Nat \ {0}  BY DEF OffsetItems
<1>2. \A i \in 1 .. 10 :
        i = 1 \/ i = 2 \/ i = 3 \/ i = 4 \/ i = 5 \/ i = 6 \/ i = 7 \/
        i = 8 \/ i = 9 \/ i = 10
  OBVIOUS
<1>3. /\ Conversions(x[1]) = 1 /\ Conversions(x[2]) = 0 /\ Conversions(x[3]) = 0
      /\ Conversions(x[4]) = 1 /\ Conversions(x[5]) = 1 /\ Conversions(x[6]) = 0
      /\ Conversions(x[7]) = 1 /\ Conversions(x[8]) = 0 /\ Conversions(x[9]) = 0
      /\ Conversions(x[10]) = 1
  BY ItemConversions DEF OffsetItems, Stamp
<1>4. OneEach(x, 10, {1, 4, 5, 7, 10})  BY <1>2, <1>3 DEF OneEach
<1>5. Counts({1, 4, 5, 7, 10}, 5)  BY NumbersCounted
<1>6. Complete(x, 5)  BY <1>1, <1>4, <1>5, OneEachCounted
<1>7. Labelled(x)
  <2>1. /\ x[1][2] = "timestamp" /\ x[4][2] = "offset" /\ x[5][2] = "state"
        /\ x[7][2] = "freq" /\ x[10][2] = "path_delay" /\ x[3][1] = "lit"
        /\ x[3][2] = "offset" /\ x[6][1] = "lit" /\ x[6][2] = "freq"
        /\ x[9][1] = "lit" /\ x[9][2] = "delay"
    BY DEF OffsetItems, Lit, Stamp
  <2> QED  BY <1>1, <1>2, <1>3, <2>1, LabelsOfFields DEF Labelled
<1> QED  BY <1>6, <1>7

\* The items of the summary of phc2sys.
PhcRmsItems(x) ==
  /\ Len(x) = 12 /\ x[1] = Stamp /\ x[2] = Skip /\ x[3] = Lit("rms")
  /\ x[4] = SkipNum /\ x[5] = Lit("max") /\ x[6] = <<"num", "offset">>
  /\ x[7] = Lit("freq") /\ x[8] = <<"num", "freq">> /\ x[9] = Lit("+/-")
  /\ x[10] = SkipNum /\ x[11] = Lit("delay") /\ x[12] = <<"num", "path_delay">>

\* The format has them.
LEMMA PhcRmsFormat ==
  PhcRmsItems(<<Stamp, Skip>> \o RmsTail)
<1>1. PICK s, t, x : s = <<Stamp, Skip>> /\ t = RmsTail /\ x = s \o t
  OBVIOUS
<1>2. IsSequence(s) /\ IsSequence(t) /\ Len(s) = 2 /\ Len(t) = 10
  BY <1>1, Tuples DEF RmsTail
<1>3. IsConcat(x, s, t)  BY <1>1, <1>2, Concatenation
<1>4. Len(x) = 12 /\ (\A i \in 1 .. 2 : x[i] = s[i]) /\ \A i \in 1 .. 10 : x[2 + i] = t[i]
  BY <1>2, <1>3 DEF IsConcat
<1>5. /\ x[1] = s[1] /\ x[2] = s[2] /\ x[3] = t[1] /\ x[4] = t[2] /\ x[5] = t[3]
      /\ x[6] = t[4] /\ x[7] = t[5] /\ x[8] = t[6] /\ x[9] = t[7] /\ x[10] = t[8]
      /\ x[11] = t[9] /\ x[12] = t[10]
  BY <1>4
<1> QED  BY <1>1, <1>4, <1>5 DEF PhcRmsItems, RmsTail

\* They are counted, and their fields are labelled.
LEMMA PhcRmsCounted ==
  ASSUME NEW x, PhcRmsItems(x)
  PROVE  Complete(x, 4) /\ Labelled(x)
<1>1. Len(x) = 12 /\ 12 \in Nat \ {0}  BY DEF PhcRmsItems
<1>2. \A i \in 1 .. 12 :
        i = 1 \/ i = 2 \/ i = 3 \/ i = 4 \/ i = 5 \/ i = 6 \/ i = 7 \/
        i = 8 \/ i = 9 \/ i = 10 \/ i = 11 \/ i = 12
  OBVIOUS
<1>3. /\ Conversions(x[1]) = 1 /\ Conversions(x[2]) = 0 /\ Conversions(x[3]) = 0
      /\ Conversions(x[4]) = 0 /\ Conversions(x[5]) = 0 /\ Conversions(x[6]) = 1
      /\ Conversions(x[7]) = 0 /\ Conversions(x[8]) = 1 /\ Conversions(x[9]) = 0
      /\ Conversions(x[10]) = 0 /\ Conversions(x[11]) = 0 /\ Conversions(x[12]) = 1
  BY ItemConversions DEF PhcRmsItems, Stamp
<1>4. OneEach(x, 12, {1, 6, 8, 12})  BY <1>2, <1>3 DEF OneEach
<1>5. Counts({1, 6, 8, 12}, 4)  BY NumbersCounted
<1>6. Complete(x, 4)  BY <1>1, <1>4, <1>5, OneEachCounted
<1>7. Labelled(x)
  <2>1. /\ x[1][2] = "timestamp" /\ x[6][2] = "offset" /\ x[8][2] = "freq"
        /\ x[12][2] = "path_delay" /\ x[5][1] = "lit" /\ x[5][2] = "max"
        /\ x[7][1] = "lit" /\ x[7][2] = "freq" /\ x[11][1] = "lit"
        /\ x[11][2] = "delay"
    BY DEF PhcRmsItems, Lit, Stamp
  <2> QED  BY <1>1, <1>2, <1>3, <2>1, LabelsOfFields DEF Labelled
<1> QED  BY <1>6, <1>7

\* The items of an offset of phc2sys.
PhcOffsetItems(x) ==
  /\ Len(x) = 10 /\ x[1] = Stamp /\ x[2] = Skip /\ x[3] = Skip
  /\ x[4] = Lit("offset") /\ x[5] = <<"num", "offset">>
  /\ x[6] = <<"state", "state">> /\ x[7] = Lit("freq") /\ x[8] = <<"num", "freq">>
  /\ x[9] = Lit("delay") /\ x[10] = <<"num", "path_delay">>

\* The format has them.
LEMMA PhcOffsetFormat ==
  PhcOffsetItems(<<Stamp, Skip, Skip>> \o OffsetTail \o
                 <<Lit("delay"), <<"num", "path_delay">>>>)
<1>1. PICK s, t, u, y, x : /\ s = <<Stamp, Skip, Skip>> /\ t = OffsetTail
                           /\ u = <<Lit("delay"), <<"num", "path_delay">>>>
                           /\ y = s \o t /\ x = y \o u
  OBVIOUS
<1>2. /\ IsSequence(s) /\ IsSequence(t) /\ IsSequence(u)
      /\ Len(s) = 3 /\ Len(t) = 5 /\ Len(u) = 2
  BY <1>1, Tuples DEF OffsetTail
<1>3. IsConcat(y, s, t)  BY <1>1, <1>2, Concatenation
<1>4. IsSequence(y) /\ Len(y) = 8 /\ (\A i \in 1 .. 3 : y[i] = s[i])
      /\ \A i \in 1 .. 5 : y[3 + i] = t[i]
  BY <1>2, <1>3 DEF IsConcat
<1>5. IsConcat(x, y, u)  BY <1>1, <1>2, <1>4, Concatenation
<1>6. Len(x) = 10 /\ (\A i \in 1 .. 8 : x[i] = y[i])
      /\ \A i \in 1 .. 2 : x[8 + i] = u[i]
  BY <1>2, <1>4, <1>5 DEF IsConcat
<1>7. /\ y[1] = s[1] /\ y[2] = s[2] /\ y[3] = s[3] /\ y[4] = t[1] /\ y[5] = t[2]
      /\ y[6] = t[3] /\ y[7] = t[4] /\ y[8] = t[5]
  BY <1>4
<1>8. /\ x[1] = y[1] /\ x[2] = y[2] /\ x[3] = y[3] /\ x[4] = y[4] /\ x[5] = y[5]
      /\ x[6] = y[6] /\ x[7] = y[7] /\ x[8] = y[8] /\ x[9] = u[1] /\ x[10] = u[2]
  BY <1>6
<1> QED  BY <1>1, <1>6, <1>7, <1>8 DEF PhcOffsetItems, OffsetTail

\* They are counted, and their fields are labelled.
LEMMA PhcOffsetCounted ==
  ASSUME NEW x, PhcOffsetItems(x)
  PROVE  Complete(x, 5) /\ Labelled(x)
<1>1. Len(x) = 10 /\ 10 \in Nat \ {0}  BY DEF PhcOffsetItems
<1>2. \A i \in 1 .. 10 :
        i = 1 \/ i = 2 \/ i = 3 \/ i = 4 \/ i = 5 \/ i = 6 \/ i = 7 \/
        i = 8 \/ i = 9 \/ i = 10
  OBVIOUS
<1>3. /\ Conversions(x[1]) = 1 /\ Conversions(x[2]) = 0 /\ Conversions(x[3]) = 0
      /\ Conversions(x[4]) = 0 /\ Conversions(x[5]) = 1 /\ Conversions(x[6]) = 1
      /\ Conversions(x[7]) = 0 /\ Conversions(x[8]) = 1 /\ Conversions(x[9]) = 0
      /\ Conversions(x[10]) = 1
  BY ItemConversions DEF PhcOffsetItems, Stamp
<1>4. OneEach(x, 10, {1, 5, 6, 8, 10})  BY <1>2, <1>3 DEF OneEach
<1>5. Counts({1, 5, 6, 8, 10}, 5)  BY NumbersCounted
<1>6. Complete(x, 5)  BY <1>1, <1>4, <1>5, OneEachCounted
<1>7. Labelled(x)
  <2>1. /\ x[1][2] = "timestamp" /\ x[5][2] = "offset" /\ x[6][2] = "state"
        /\ x[8][2] = "freq" /\ x[10][2] = "path_delay" /\ x[4][1] = "lit"
        /\ x[4][2] = "offset" /\ x[7][1] = "lit" /\ x[7][2] = "freq"
        /\ x[9][1] = "lit" /\ x[9][2] = "delay"
    BY DEF PhcOffsetItems, Lit, Stamp
  <2> QED  BY <1>1, <1>2, <1>3, <2>1, LabelsOfFields DEF Labelled
<1> QED  BY <1>6, <1>7

\* The items of a port change.
PortItems(x) ==
  /\ Len(x) = 9 /\ x[1] = Stamp /\ x[2] = Lit("port")
  /\ x[3] = <<"num", "portNumber">> /\ x[4] = <<"paren", "portName">>
  /\ x[5] = <<"word", "fromState">> /\ x[6] = Lit("to")
  /\ x[7] = <<"word", "toState">> /\ x[8] = Lit("on")
  /\ x[9] = <<"rest", "trigger">>

\* The format has them.
LEMMA PortFormat ==
  PortItems(PortHead \o
            <<<<"word", "fromState">>, Lit("to"), <<"word", "toState">>,
              Lit("on"), <<"rest", "trigger">>>>)
<1>1. PICK s, t, x : /\ s = PortHead
                     /\ t = <<<<"word", "fromState">>, Lit("to"), <<"word", "toState">>,
                                Lit("on"), <<"rest", "trigger">>>>
                     /\ x = s \o t
  OBVIOUS
<1>2. IsSequence(s) /\ IsSequence(t) /\ Len(s) = 4 /\ Len(t) = 5
  BY <1>1, Tuples DEF PortHead
<1>3. IsConcat(x, s, t)  BY <1>1, <1>2, Concatenation
<1>4. Len(x) = 9 /\ (\A i \in 1 .. 4 : x[i] = s[i]) /\ \A i \in 1 .. 5 : x[4 + i] = t[i]
  BY <1>2, <1>3 DEF IsConcat
<1>5. /\ x[1] = s[1] /\ x[2] = s[2] /\ x[3] = s[3] /\ x[4] = s[4] /\ x[5] = t[1]
      /\ x[6] = t[2] /\ x[7] = t[3] /\ x[8] = t[4] /\ x[9] = t[5]
  BY <1>4
<1> QED  BY <1>1, <1>4, <1>5 DEF PortItems, PortHead

\* They are counted, and their fields are labelled.
LEMMA PortCounted ==
  ASSUME NEW x, PortItems(x)
  PROVE  Complete(x, 6) /\ Labelled(x)
<1>1. Len(x) = 9 /\ 9 \in Nat \ {0}  BY DEF PortItems
<1>2. \A i \in 1 .. 9 :
        i = 1 \/ i = 2 \/ i = 3 \/ i = 4 \/ i = 5 \/ i = 6 \/ i = 7 \/
        i = 8 \/ i = 9
  OBVIOUS
<1>3. /\ Conversions(x[1]) = 1 /\ Conversions(x[2]) = 0 /\ Conversions(x[3]) = 1
      /\ Conversions(x[4]) = 1 /\ Conversions(x[5]) = 1 /\ Conversions(x[6]) = 0
      /\ Conversions(x[7]) = 1 /\ Conversions(x[8]) = 0 /\ Conversions(x[9]) = 1
  BY ItemConversions DEF PortItems, Stamp
<1>4. OneEach(x, 9, {1, 3, 4, 5, 7, 9})  BY <1>2, <1>3 DEF OneEach
<1>5. Counts({1, 3, 4, 5, 7, 9}, 6)  BY NumbersCounted
<1>6. Complete(x, 6)  BY <1>1, <1>4, <1>5, OneEachCounted
<1>7. Labelled(x)
  <2>1. /\ x[1][2] = "timestamp" /\ x[3][2] = "portNumber" /\ x[4][2] = "portName"
        /\ x[5][2] = "fromState" /\ x[7][2] = "toState" /\ x[9][2] = "trigger"
        /\ x[2][1] = "lit" /\ x[2][2] = "port" /\ x[6][1] = "lit" /\ x[6][2] = "to"
        /\ x[8][1] = "lit" /\ x[8][2] = "on"
    BY DEF PortItems, Lit, Stamp
  <2> QED  BY <1>1, <1>2, <1>3, <2>1, LabelsOfFields DEF Labelled
<1> QED  BY <1>6, <1>7

\* The items of a foreign master.
ForeignItems(x) ==
  /\ Len(x) = 8 /\ x[1] = Stamp /\ x[2] = Lit("port")
  /\ x[3] = <<"num", "portNumber">> /\ x[4] = <<"paren", "portName">>
  /\ x[5] = Lit("new") /\ x[6] = Lit("foreign") /\ x[7] = Lit("master")
  /\ x[8] = <<"portid", "masterClockIdentity">>

\* The format has them.
LEMMA ForeignFormat ==
  ForeignItems(PortHead \o
               <<Lit("new"), Lit("foreign"), Lit("master"), <<"portid", "masterClockIdentity">>>>)
<1>1. PICK s, t, x : /\ s = PortHead
                     /\ t = <<Lit("new"), Lit("foreign"), Lit("master"),
                              <<"portid", "masterClockIdentity">>>>
                     /\ x = s \o t
  OBVIOUS
<1>2. IsSequence(s) /\ IsSequence(t) /\ Len(s) = 4 /\ Len(t) = 4
  BY <1>1, Tuples DEF PortHead
<1>3. IsConcat(x, s, t)  BY <1>1, <1>2, Concatenation
<1>4. Len(x) = 8 /\ (\A i \in 1 .. 4 : x[i] = s[i]) /\ \A i \in 1 .. 4 : x[4 + i] = t[i]
  BY <1>2, <1>3 DEF IsConcat
<1>5. /\ x[1] = s[1] /\ x[2] = s[2] /\ x[3] = s[3] /\ x[4] = s[4] /\ x[5] = t[1]
      /\ x[6] = t[2] /\ x[7] = t[3] /\ x[8] = t[4]
  BY <1>4
<1> QED  BY <1>1, <1>4, <1>5 DEF ForeignItems, PortHead

\* They are counted, and their fields are labelled.
LEMMA ForeignCounted ==
  ASSUME NEW x, ForeignItems(x)
  PROVE  Complete(x, 5) /\ Labelled(x)
<1>1. Len(x) = 8 /\ 8 \in Nat \ {0}  BY DEF ForeignItems
<1>2. \A i \in 1 .. 8 :
        i = 1 \/ i = 2 \/ i = 3 \/ i = 4 \/ i = 5 \/ i = 6 \/ i = 7 \/
        i = 8
  OBVIOUS
<1>3. /\ Conversions(x[1]) = 1 /\ Conversions(x[2]) = 0 /\ Conversions(x[3]) = 1
      /\ Conversions(x[4]) = 1 /\ Conversions(x[5]) = 0 /\ Conversions(x[6]) = 0
      /\ Conversions(x[7]) = 0 /\ Conversions(x[8]) = 2
  BY ItemConversions DEF ForeignItems, Stamp
<1>4. Converted(x, 8) = {<<1, 1>>, <<3, 1>>, <<4, 1>>, <<8, 1>>, <<8, 2>>}
  <2>1. ASSUME NEW i \in 1 .. 8, NEW c \in {1, 2}
        PROVE  c <= Conversions(x[i]) <=> (c = 1 /\ i \in {1, 3, 4, 8}) \/ (c = 2 /\ i = 8)
    BY <1>2, <1>3
  <2>2. ASSUME NEW p \in Converted(x, 8)
        PROVE  p \in {<<1, 1>>, <<3, 1>>, <<4, 1>>, <<8, 1>>, <<8, 2>>}
    <3>1. p = <<p[1], p[2]>> /\ p[1] \in 1 .. 8 /\ p[2] \in {1, 2}
          /\ p[2] <= Conversions(x[p[1]])
      BY DEF Converted
    <3> QED  BY <2>1, <3>1
  <2>3. ASSUME NEW i \in {1, 3, 4, 8} PROVE <<i, 1>> \in Converted(x, 8)
    <3>1. i \in 1 .. 8  OBVIOUS
    <3> QED  BY <2>1, <3>1 DEF Converted
  <2>4. <<8, 2>> \in Converted(x, 8)  BY <1>3 DEF Converted
  <2> QED  BY <2>2, <2>3, <2>4
<1>5. Counts(Converted(x, 8), 5)
  <2>1. PICK p1, p2, p3, p4, p5 : /\ p1 = <<1, 1>> /\ p2 = <<3, 1>> /\ p3 = <<4, 1>>
                                  /\ p4 = <<8, 1>> /\ p5 = <<8, 2>>
    OBVIOUS
  <2>2. p1 # p2 /\ p3 \notin {p1, p2} /\ p4 \notin {p1, p2, p3} /\ p5 \notin {p1, p2, p3, p4}
    BY <2>1
  <2>3. Counts({p1, p2, p3, p4, p5}, 5)  BY <2>2, Cardinalities
  <2> QED  BY <1>4, <2>1, <2>3
<1>6. Complete(x, 5)  BY <1>1, <1>3, <1>5 DEF Complete, Counts
<1>7. Labelled(x)
  <2>1. /\ x[1][2] = "timestamp" /\ x[3][2] = "portNumber" /\ x[4][2] = "portName"
        /\ x[8][2] = "masterClockIdentity" /\ x[2][1] = "lit" /\ x[2][2] = "port"
        /\ x[7][1] = "lit" /\ x[7][2] = "master"
    BY DEF ForeignItems, Lit, Stamp
  <2> QED  BY <1>1, <1>2, <1>3, <2>1, LabelsOfFields DEF Labelled
<1> QED  BY <1>6, <1>7

\* The items of a best master.
BestItems(x) ==
  /\ Len(x) = 6 /\ x[1] = Stamp /\ x[2] = Lit("selected") /\ x[3] = Lit("best")
  /\ x[4] = Lit("master") /\ x[5] = Lit("clock")
  /\ x[6] = <<"word", "masterClockIdentity">>

\* The format has them.
LEMMA BestFormat ==
  BestItems(<<Stamp, Lit("selected")>> \o <<Lit("best"), Lit("master"), Lit("clock")>> \o
            <<<<"word", "masterClockIdentity">>>>)
<1>1. PICK s, t, u, y, x : /\ s = <<Stamp, Lit("selected")>>
                           /\ t = <<Lit("best"), Lit("master"), Lit("clock")>>
                           /\ u = <<<<"word", "masterClockIdentity">>>>
                           /\ y = s \o t /\ x = y \o u
  OBVIOUS
<1>2. /\ IsSequence(s) /\ IsSequence(t) /\ IsSequence(u)
      /\ Len(s) = 2 /\ Len(t) = 3 /\ Len(u) = 1
  BY <1>1, Tuples
<1>3. IsConcat(y, s, t)  BY <1>1, <1>2, Concatenation
<1>4. IsSequence(y) /\ Len(y) = 5 /\ (\A i \in 1 .. 2 : y[i] = s[i])
      /\ \A i \in 1 .. 3 : y[2 + i] = t[i]
  BY <1>2, <1>3 DEF IsConcat
<1>5. IsConcat(x, y, u)  BY <1>1, <1>2, <1>4, Concatenation
<1>6. Len(x) = 6 /\ (\A i \in 1 .. 5 : x[i] = y[i])
      /\ \A i \in 1 .. 1 : x[5 + i] = u[i]
  BY <1>2, <1>4, <1>5 DEF IsConcat
<1>7. y[1] = s[1] /\ y[2] = s[2] /\ y[3] = t[1] /\ y[4] = t[2] /\ y[5] = t[3]
  BY <1>4
<1>8. /\ x[1] = y[1] /\ x[2] = y[2] /\ x[3] = y[3] /\ x[4] = y[4] /\ x[5] = y[5]
      /\ x[6] = u[1]
  BY <1>6
<1> QED  BY <1>1, <1>6, <1>7, <1>8 DEF BestItems

\* They are counted, and their fields are labelled.
LEMMA BestCounted ==
  ASSUME NEW x, BestItems(x)
  PROVE  Complete(x, 2) /\ Labelled(x)
<1>1. Len(x) = 6 /\ 6 \in Nat \ {0}  BY DEF BestItems
<1>2. \A i \in 1 .. 6 :
        i = 1 \/ i = 2 \/ i = 3 \/ i = 4 \/ i = 5 \/ i = 6
  OBVIOUS
<1>3. /\ Conversions(x[1]) = 1 /\ Conversions(x[2]) = 0 /\ Conversions(x[3]) = 0
      /\ Conversions(x[4]) = 0 /\ Conversions(x[5]) = 0 /\ Conversions(x[6]) = 1
  BY ItemConversions DEF BestItems, Stamp
<1>4. OneEach(x, 6, {1, 6})  BY <1>2, <1>3 DEF OneEach
<1>5. Counts({1, 6}, 2)  BY NumbersCounted
<1>6. Complete(x, 2)  BY <1>1, <1>4, <1>5, OneEachCounted
<1>7. Labelled(x)
  <2>1. /\ x[1][2] = "timestamp" /\ x[6][2] = "masterClockIdentity"
        /\ x[5][1] = "lit" /\ x[5][2] = "clock"
    BY DEF BestItems, Lit, Stamp
  <2> QED  BY <1>1, <1>2, <1>3, <2>1, LabelsOfFields DEF Labelled
<1> QED  BY <1>6, <1>7

\* The items of the local clock as master.
LocalItems(x) ==
  /\ Len(x) = 5 /\ x[1] = Stamp /\ x[2] = Lit("selected") /\ x[3] = Lit("local")
  /\ x[4] = Lit("clock") /\ x[5] = <<"word", "masterClockIdentity">>

\* The format has them.
LEMMA LocalFormat ==
  LocalItems(<<Stamp, Lit("selected")>> \o <<Lit("local"), Lit("clock")>> \o
             <<<<"word", "masterClockIdentity">>>>)
<1>1. PICK s, t, u, y, x : /\ s = <<Stamp, Lit("selected")>>
                           /\ t = <<Lit("local"), Lit("clock")>>
                           /\ u = <<<<"word", "masterClockIdentity">>>>
                           /\ y = s \o t /\ x = y \o u
  OBVIOUS
<1>2. /\ IsSequence(s) /\ IsSequence(t) /\ IsSequence(u)
      /\ Len(s) = 2 /\ Len(t) = 2 /\ Len(u) = 1
  BY <1>1, Tuples
<1>3. IsConcat(y, s, t)  BY <1>1, <1>2, Concatenation
<1>4. IsSequence(y) /\ Len(y) = 4 /\ (\A i \in 1 .. 2 : y[i] = s[i])
      /\ \A i \in 1 .. 2 : y[2 + i] = t[i]
  BY <1>2, <1>3 DEF IsConcat
<1>5. IsConcat(x, y, u)  BY <1>1, <1>2, <1>4, Concatenation
<1>6. Len(x) = 5 /\ (\A i \in 1 .. 4 : x[i] = y[i])
      /\ \A i \in 1 .. 1 : x[4 + i] = u[i]
  BY <1>2, <1>4, <1>5 DEF IsConcat
<1>7. y[1] = s[1] /\ y[2] = s[2] /\ y[3] = t[1] /\ y[4] = t[2]
  BY <1>4
<1>8. x[1] = y[1] /\ x[2] = y[2] /\ x[3] = y[3] /\ x[4] = y[4] /\ x[5] = u[1]
  BY <1>6
<1> QED  BY <1>1, <1>6, <1>7, <1>8 DEF LocalItems

\* They are counted, and their fields are labelled.
LEMMA LocalCounted ==
  ASSUME NEW x, LocalItems(x)
  PROVE  Complete(x, 2) /\ Labelled(x)
<1>1. Len(x) = 5 /\ 5 \in Nat \ {0}  BY DEF LocalItems
<1>2. \A i \in 1 .. 5 :
        i = 1 \/ i = 2 \/ i = 3 \/ i = 4 \/ i = 5
  OBVIOUS
<1>3. /\ Conversions(x[1]) = 1 /\ Conversions(x[2]) = 0 /\ Conversions(x[3]) = 0
      /\ Conversions(x[4]) = 0 /\ Conversions(x[5]) = 1
  BY ItemConversions DEF LocalItems, Stamp
<1>4. OneEach(x, 5, {1, 5})  BY <1>2, <1>3 DEF OneEach
<1>5. Counts({1, 5}, 2)  BY NumbersCounted
<1>6. Complete(x, 2)  BY <1>1, <1>4, <1>5, OneEachCounted
<1>7. Labelled(x)
  <2>1. /\ x[1][2] = "timestamp" /\ x[5][2] = "masterClockIdentity"
        /\ x[4][1] = "lit" /\ x[4][2] = "clock"
    BY DEF LocalItems, Lit, Stamp
  <2> QED  BY <1>1, <1>2, <1>3, <2>1, LabelsOfFields DEF Labelled
<1> QED  BY <1>6, <1>7

\* The items of a line of ppswatch.
PpsItems(x) ==
  /\ Len(x) = 6 /\ x[1] = Lit("timestamp:") /\ x[2] = <<"numcomma", "timestamp">>
  /\ x[3] = Lit("sequence:") /\ x[4] = <<"numcomma", "sequence">>
  /\ x[5] = Lit("offset:") /\ x[6] = <<"num", "offset">>

\* The format has them.
LEMMA PpsFormat ==
  PpsItems(<<Lit("timestamp:"), <<"numcomma", "timestamp">>,
           Lit("sequence:"), <<"numcomma", "sequence">>,
           Lit("offset:"), <<"num", "offset">>>>)
BY DEF PpsItems

\* They are counted, and their fields are labelled.
LEMMA PpsCounted ==
  ASSUME NEW x, PpsItems(x)
  PROVE  Complete(x, 3) /\ Labelled(x)
<1>1. Len(x) = 6 /\ 6 \in Nat \ {0}  BY DEF PpsItems
<1>2. \A i \in 1 .. 6 :
        i = 1 \/ i = 2 \/ i = 3 \/ i = 4 \/ i = 5 \/ i = 6
  OBVIOUS
<1>3. /\ Conversions(x[1]) = 0 /\ Conversions(x[2]) = 1 /\ Conversions(x[3]) = 0
      /\ Conversions(x[4]) = 1 /\ Conversions(x[5]) = 0 /\ Conversions(x[6]) = 1
  BY ItemConversions DEF PpsItems, Stamp
<1>4. OneEach(x, 6, {2, 4, 6})  BY <1>2, <1>3 DEF OneEach
<1>5. Counts({2, 4, 6}, 3)  BY NumbersCounted
<1>6. Complete(x, 3)  BY <1>1, <1>4, <1>5, OneEachCounted
<1>7. Labelled(x)
  <2>1. /\ x[2][2] = "timestamp" /\ x[4][2] = "sequence" /\ x[6][2] = "offset"
        /\ x[3][1] = "lit" /\ x[3][2] = "sequence:" /\ x[5][1] = "lit"
        /\ x[5][2] = "offset:"
    BY DEF PpsItems, Lit, Stamp
  <2> QED  BY <1>1, <1>2, <1>3, <2>1, LabelsOfFields DEF Labelled
<1> QED  BY <1>6, <1>7

-----------------------------------------------------------------------------
(* Fields behind their words                                               *)

\* FieldsAreLabelled for the fields of one event.
InLine(fields, line) ==
  \A f \in fields :
    Labels(f[1]) # {} =>
      \E i \in 2 .. Len(line) :
        /\ line[i - 1].text \in Labels(f[1])
        /\ f[2] = SubSeq(line, i, i + Len(f[2]) - 1)

\* The fields of a line that has every item of a labelled format.
LEMMA FieldsOfFormat ==
  ASSUME NEW x, NEW count, Complete(x, count), Labelled(x), NEW event,
         NEW line, IsSequence(line), Takes(x, line)
  PROVE  InLine(EventOf(event, x, line).fields, line)
<1>0. PICK S : line \in Seq(S)  BY DEF IsSequence
<1>1. PICK l \in Nat, k \in Nat : l = Len(line) /\ k = Len(x) /\ line \in Seq(S)
  BY <1>0 DEF Complete
<1>2. k <= l /\ \A i \in 1 .. k : Fits(x[i], line[i])  BY <1>1 DEF Takes
<1> DEFINE Fields == {<<x[p[1]][2], Part(x, line, p[1])>> : p \in Converted(x, k)}
<1>3. EventOf(event, x, line).fields = Fields  BY <1>1 DEF EventOf
<1>4. ASSUME NEW f \in Fields, Labels(f[1]) # {}
      PROVE  \E i \in 2 .. l : /\ line[i - 1].text \in Labels(f[1])
                               /\ f[2] = SubSeq(line, i, i + Len(f[2]) - 1)
  <2>1. PICK p \in Converted(x, k) : f = <<x[p[1]][2], Part(x, line, p[1])>>
    OBVIOUS
  <2>2. PICK i : i = p[1]  OBVIOUS
  <2>3. p \in (1 .. k) \X {1, 2} /\ p[2] <= Conversions(x[i])  BY <2>1, <2>2 DEF Converted
  <2>4. i \in 1 .. k /\ p[2] \in {1, 2}  BY <2>2, <2>3
  <2>5. Conversions(x[i]) > 0
    <3>1. Conversions(x[i]) \in {0, 1, 2}  BY ConversionsType
    <3> QED  BY <2>3, <2>4, <3>1
  <2>6. f[1] = x[i][2] /\ f[2] = Part(x, line, i)  BY <2>1, <2>2
  <2>7. i > 1 /\ x[i - 1][1] = "lit" /\ x[i - 1][2] \in Labels(f[1])
    BY <1>1, <1>4, <2>4, <2>5, <2>6 DEF Labelled
  <2>8. i - 1 \in 1 .. k /\ i \in 2 .. l /\ i \in 1 .. l  BY <1>1, <1>2, <2>4, <2>7
  <2>9. line[i - 1].text \in Labels(f[1])
    <3>1. Fits(x[i - 1], line[i - 1])  BY <1>2, <2>8
    <3> QED  BY <2>7, <3>1 DEF Fits
  <2>10. f[2] = SubSeq(line, i, i + Len(f[2]) - 1)
    <3>1. CASE x[i][1] = "rest"
      <4>1. PICK t : t = SubSeq(line, i, l)  OBVIOUS
      <4>2. f[2] = t  BY <1>1, <2>6, <3>1, <4>1 DEF Part
      <4>3. Len(t) = l - i + 1  BY <1>1, <2>8, <4>1
      <4>4. i + Len(t) - 1 = l  BY <1>1, <2>8, <4>3
      <4> QED  BY <4>1, <4>2, <4>4
    <3>2. CASE x[i][1] # "rest"
      <4>1. f[2] = <<line[i]>> /\ Len(f[2]) = 1  BY <2>6, <3>2 DEF Part
      <4>2. PICK t : t = SubSeq(line, i, i)  OBVIOUS
      <4>3. t \in Seq(S) /\ Len(t) = 1 /\ t[1] = line[i]  BY <1>1, <2>8, <4>2
      <4>4. t = <<line[i]>>  BY <4>3
      <4>5. i + Len(f[2]) - 1 = i  BY <2>8, <4>1
      <4> QED  BY <4>1, <4>2, <4>4, <4>5
    <3> QED  BY <3>1, <3>2
  <2> QED  BY <2>8, <2>9, <2>10
<1> HIDE DEF Fields
<1> QED  BY <1>1, <1>3, <1>4 DEF InLine

\* What a call of Scan gives when its format is one of the above.
LEMMA FieldsOfScan ==
  ASSUME NEW x, NEW count, Complete(x, count), Labelled(x), NEW event,
         NEW line, IsSequence(line)
  PROVE  InLine(Scan(event, x, count, line).fields, line)
<1>1. InLine(NoEvent.fields, line)  BY DEF InLine, NoEvent
<1>2. IsScanOf(Scan(event, x, count, line), event, x, line)  BY ScanMeaning
<1>3. Takes(x, line) => InLine(EventOf(event, x, line).fields, line)  BY FieldsOfFormat
<1> QED  BY <1>1, <1>2, <1>3 DEF IsScanOf

\* The first of some events, or none.
LEMMA FirstOfEvents ==
  ASSUME NEW events, Len(events) \in Nat
  PROVE  \/ /\ FirstOf(events) = NoEvent
            /\ \A i \in 1 .. Len(events) : events[i] = NoEvent
         \/ \E i \in 1 .. Len(events) :
              /\ FirstOf(events) = events[i] /\ events[i] # NoEvent
              /\ \A j \in 1 .. Len(events) : j < i => events[j] = NoEvent
<1> DEFINE I == {i \in 1 .. Len(events) : events[i] # NoEvent}
           n == IF I # {} THEN Min(I) ELSE 0
<1>1. FirstOf(events) = IF n = 0 THEN NoEvent ELSE events[n]
  BY DEF FirstOf, SelectInSeq
<1>2. I \in SUBSET Nat /\ \A i : i \in I <=> i \in 1 .. Len(events) /\ events[i] # NoEvent
  OBVIOUS
<1> HIDE DEF I
<1>3. CASE I = {}  BY <1>1, <1>2, <1>3
<1>4. CASE I # {}
  <2>1. Min(I) \in I /\ \A i \in I : Min(I) <= i  BY <1>2, <1>4, LeastOfSet
  <2>2. n = Min(I)  BY <1>4
  <2> HIDE DEF n
  <2>3. n \in 1 .. Len(events) /\ events[n] # NoEvent  BY <1>2, <2>1, <2>2
  <2>4. \A j \in 1 .. Len(events) : j < n => events[j] = NoEvent  BY <1>2, <2>1, <2>2, <2>3
  <2>5. FirstOf(events) = events[n]  BY <1>1, <2>3
  <2> QED  BY <2>3, <2>4, <2>5
<1> QED  BY <1>3, <1>4

\* The alternatives of a handler.
LEMMA FieldsOfFirst ==
  ASSUME NEW events, Len(events) \in Nat, NEW line,
         \A i \in 1 .. Len(events) : InLine(events[i].fields, line)
  PROVE  InLine(FirstOf(events).fields, line)
<1>1. InLine(NoEvent.fields, line)  BY DEF InLine, NoEvent
<1> QED  BY <1>1, FirstOfEvents

\* The calls of Scan.
LEMMA FieldsOfParsers ==
  ASSUME NEW line, IsSequence(line)
  PROVE  /\ InLine(Ptp4lRms(line).fields, line)
         /\ InLine(Ptp4lOffset(line).fields, line)
         /\ InLine(Phc2sysMetrics(line).fields, line)
         /\ InLine(PortChange(line).fields, line)
         /\ InLine(ForeignMaster(line).fields, line)
         /\ InLine(BestMaster(line).fields, line)
         /\ InLine(PpsMetrics(line).fields, line)
<1>0. InLine(NoEvent.fields, line)  BY DEF InLine, NoEvent
<1>1. InLine(Ptp4lRms(line).fields, line)
  BY RmsFormat, RmsCounted, FieldsOfScan DEF Ptp4lRms
<1>2. InLine(Ptp4lOffset(line).fields, line)
  BY OffsetFormat, OffsetCounted, FieldsOfScan DEF Ptp4lOffset
<1>3. InLine(Phc2sysMetrics(line).fields, line)
  <2> DEFINE rms == Scan("metrics", <<Stamp, Skip>> \o RmsTail, 4, line)
             offset == Scan("metrics",
                            <<Stamp, Skip, Skip>> \o OffsetTail
                              \o <<Lit("delay"), <<"num", "path_delay">>>>, 5, line)
  <2>1. InLine(rms.fields, line)  BY PhcRmsFormat, PhcRmsCounted, FieldsOfScan
  <2>2. InLine(offset.fields, line)  BY PhcOffsetFormat, PhcOffsetCounted, FieldsOfScan
  <2>3. Phc2sysMetrics(line) = FirstOf(<<rms, offset>>)  BY DEF Phc2sysMetrics
  <2> HIDE DEF rms, offset
  <2>4. PICK events : events = <<rms, offset>>  OBVIOUS
  <2>5. Len(events) = 2 /\ events[1] = rms /\ events[2] = offset
        /\ \A i \in 1 .. 2 : i = 1 \/ i = 2
    BY <2>4
  <2> QED  BY <2>1, <2>2, <2>3, <2>4, <2>5, FieldsOfFirst
<1>4. InLine(PortChange(line).fields, line)
  BY <1>0, PortFormat, PortCounted, FieldsOfScan DEF PortChange
<1>5. InLine(ForeignMaster(line).fields, line)
  BY <1>0, ForeignFormat, ForeignCounted, FieldsOfScan DEF ForeignMaster
<1>6. InLine(BestMaster(line).fields, line)
  <2> DEFINE best == Scan("best", <<Stamp, Lit("selected")>>
                                    \o <<Lit("best"), Lit("master"), Lit("clock")>>
                                    \o <<<<"word", "masterClockIdentity">>>>, 2, line)
             local == Scan("best", <<Stamp, Lit("selected")>> \o <<Lit("local"), Lit("clock")>>
                                     \o <<<<"word", "masterClockIdentity">>>>, 2, line)
  <2>1. InLine(best.fields, line)  BY BestFormat, BestCounted, FieldsOfScan
  <2>2. InLine(local.fields, line)  BY LocalFormat, LocalCounted, FieldsOfScan
  <2>3. BestMaster(line) \in {NoEvent, FirstOf(<<best, local>>)}  BY DEF BestMaster
  <2> HIDE DEF best, local
  <2>4. PICK events : events = <<best, local>>  OBVIOUS
  <2>5. Len(events) = 2 /\ events[1] = best /\ events[2] = local
        /\ \A i \in 1 .. 2 : i = 1 \/ i = 2
    BY <2>4
  <2> QED  BY <1>0, <2>1, <2>2, <2>3, <2>4, <2>5, FieldsOfFirst
<1>7. InLine(PpsMetrics(line).fields, line)
  BY PpsFormat, PpsCounted, FieldsOfScan DEF PpsMetrics
<1> QED  BY <1>1, <1>2, <1>3, <1>4, <1>5, <1>6, <1>7

\* Whatever the line, however long: each field of its event was in it behind a
\* word that names the field (FieldsAreLabelled).
THEOREM FieldsOfAnyLine ==
  ASSUME NEW unit \in {"ptp4l", "phc2sys", "ppswatch"}, NEW line, IsSequence(line)
  PROVE  InLine(Handle(unit, line).fields, line)
<1>1. CASE unit = "ptp4l"
  <2>1. PICK e1, e2, e3, e4, metrics :
          /\ metrics = <<Ptp4lRms(line), Ptp4lOffset(line)>> /\ e1 = FirstOf(metrics)
          /\ e2 = PortChange(line) /\ e3 = ForeignMaster(line) /\ e4 = BestMaster(line)
    OBVIOUS
  <2>2. Len(metrics) = 2 /\ metrics[1] = Ptp4lRms(line) /\ metrics[2] = Ptp4lOffset(line)
        /\ \A i \in 1 .. 2 : i = 1 \/ i = 2
    BY <2>1
  <2>3. InLine(e1.fields, line)  BY <2>1, <2>2, FieldsOfParsers, FieldsOfFirst
  <2>4. PICK events : events = <<e1, e2, e3, e4>>  OBVIOUS
  <2>5. Len(events) = 4 /\ events[1] = e1 /\ events[2] = e2 /\ events[3] = e3 /\ events[4] = e4
        /\ \A i \in 1 .. 4 : i = 1 \/ i = 2 \/ i = 3 \/ i = 4
    BY <2>4
  <2>6. Handle(unit, line) = FirstOf(events)
    BY <1>1, <2>1, <2>4 DEF Handle, Ptp4lMetrics
  <2> QED  BY <2>1, <2>3, <2>5, <2>6, FieldsOfParsers, FieldsOfFirst
<1>2. CASE unit = "phc2sys"
  <2>1. Handle(unit, line) \in {Phc2sysMetrics(line), [event |-> "waiting", fields |-> {}]}
    BY <1>2 DEF Handle
  <2>2. InLine({}, line)  BY DEF InLine
  <2> QED  BY <2>1, <2>2, FieldsOfParsers
<1>3. CASE unit = "ppswatch"
  <2>1. Handle(unit, line) = PpsMetrics(line)  BY <1>3 DEF Handle
  <2> QED  BY <2>1, FieldsOfParsers
<1> QED  BY <1>1, <1>2, <1>3

-----------------------------------------------------------------------------
(* One meaning                                                             *)

\* A line that gives an event has the items of the format.
LEMMA ScanTakes ==
  ASSUME NEW x, NEW count, Complete(x, count), NEW event, NEW line, IsSequence(line),
         Scan(event, x, count, line) # NoEvent
  PROVE  Takes(x, line)
<1>1. IsScanOf(Scan(event, x, count, line), event, x, line)  BY ScanMeaning
<1> QED  BY <1>1 DEF IsScanOf

\* What tells the lines of ptp4l apart.
LEMMA ShapesOfLines ==
  ASSUME NEW line, IsSequence(line)
  PROVE  /\ Ptp4lRms(line) # NoEvent =>
              3 \in 1 .. Len(line) /\ line[2].text = "rms" /\ line[3].kind = "num"
         /\ Ptp4lOffset(line) # NoEvent =>
              3 \in 1 .. Len(line) /\ line[3].text = "offset"
         /\ PortChange(line) # NoEvent =>
              /\ 3 \in 1 .. Len(line) /\ line[2].text = "port" /\ line[3].kind = "num"
              /\ line[6].text = "to"
         /\ ForeignMaster(line) # NoEvent =>
              /\ 3 \in 1 .. Len(line) /\ line[2].text = "port" /\ line[3].kind = "num"
              /\ line[6].text = "foreign"
         /\ BestMaster(line) # NoEvent =>
              line[2].text = "selected" /\ line[3].text \in {"best", "local"}
<1>0. PICK l \in Nat : l = Len(line)  BY DEF IsSequence
<1>1. ASSUME Ptp4lRms(line) # NoEvent
      PROVE  3 \in 1 .. l /\ line[2].text = "rms" /\ line[3].kind = "num"
  <2>1. PICK x : x = <<Stamp>> \o RmsTail  OBVIOUS
  <2>2. RmsItems(x) /\ Takes(x, line)
    BY <1>1, <2>1, RmsFormat, RmsCounted, ScanTakes DEF Ptp4lRms
  <2>3. l >= 11 /\ Fits(x[2], line[2]) /\ Fits(x[3], line[3])
    BY <1>0, <2>2 DEF Takes, RmsItems
  <2>4. x[2] = Lit("rms") /\ x[3] = SkipNum  BY <2>2 DEF RmsItems
  <2> QED  BY <1>0, <2>3, <2>4 DEF Fits, Lit, SkipNum
<1>2. ASSUME Ptp4lOffset(line) # NoEvent
      PROVE  3 \in 1 .. l /\ line[3].text = "offset"
  <2>1. PICK x : x = <<Stamp, Skip>> \o OffsetTail
                       \o <<Lit("path"), Lit("delay"), <<"num", "path_delay">>>>
    OBVIOUS
  <2>2. OffsetItems(x) /\ Takes(x, line)
    BY <1>2, <2>1, OffsetFormat, OffsetCounted, ScanTakes DEF Ptp4lOffset
  <2>3. l >= 10 /\ Fits(x[3], line[3])
    BY <1>0, <2>2 DEF Takes, OffsetItems
  <2>4. x[3] = Lit("offset")  BY <2>2 DEF OffsetItems
  <2> QED  BY <1>0, <2>3, <2>4 DEF Fits, Lit
<1>3. ASSUME PortChange(line) # NoEvent
      PROVE  /\ 3 \in 1 .. l /\ line[2].text = "port" /\ line[3].kind = "num"
             /\ line[6].text = "to"
  <2>1. PICK x : x = PortHead \o <<<<"word", "fromState">>, Lit("to"), <<"word", "toState">>,
                                   Lit("on"), <<"rest", "trigger">>>>
    OBVIOUS
  <2>2. PortItems(x) /\ Takes(x, line)
    BY <1>3, <2>1, PortFormat, PortCounted, ScanTakes DEF PortChange
  <2>3. l >= 9 /\ Fits(x[2], line[2]) /\ Fits(x[3], line[3]) /\ Fits(x[6], line[6])
    BY <1>0, <2>2 DEF Takes, PortItems
  <2>4. x[2] = Lit("port") /\ x[3] = <<"num", "portNumber">> /\ x[6] = Lit("to")
    BY <2>2 DEF PortItems
  <2> QED  BY <1>0, <2>3, <2>4 DEF Fits, Lit
<1>4. ASSUME ForeignMaster(line) # NoEvent
      PROVE  /\ 3 \in 1 .. l /\ line[2].text = "port" /\ line[3].kind = "num"
             /\ line[6].text = "foreign"
  <2>1. PICK x : x = PortHead \o <<Lit("new"), Lit("foreign"), Lit("master"),
                                   <<"portid", "masterClockIdentity">>>>
    OBVIOUS
  <2>2. ForeignItems(x) /\ Takes(x, line)
    BY <1>4, <2>1, ForeignFormat, ForeignCounted, ScanTakes DEF ForeignMaster
  <2>3. l >= 8 /\ Fits(x[2], line[2]) /\ Fits(x[3], line[3]) /\ Fits(x[6], line[6])
    BY <1>0, <2>2 DEF Takes, ForeignItems
  <2>4. x[2] = Lit("port") /\ x[3] = <<"num", "portNumber">> /\ x[6] = Lit("foreign")
    BY <2>2 DEF ForeignItems
  <2> QED  BY <1>0, <2>3, <2>4 DEF Fits, Lit
<1>5. ASSUME BestMaster(line) # NoEvent
      PROVE  line[2].text = "selected" /\ line[3].text \in {"best", "local"}
  <2>1. PICK x, y :
          /\ x = <<Stamp, Lit("selected")>> \o <<Lit("best"), Lit("master"), Lit("clock")>>
                   \o <<<<"word", "masterClockIdentity">>>>
          /\ y = <<Stamp, Lit("selected")>> \o <<Lit("local"), Lit("clock")>>
                   \o <<<<"word", "masterClockIdentity">>>>
    OBVIOUS
  <2>2. PICK events : events = <<Scan("best", x, 2, line), Scan("best", y, 2, line)>>
    OBVIOUS
  <2>3. BestMaster(line) \in {NoEvent, FirstOf(events)}  BY <2>1, <2>2 DEF BestMaster
  <2>4. /\ Len(events) = 2 /\ events[1] = Scan("best", x, 2, line)
        /\ events[2] = Scan("best", y, 2, line) /\ \A i \in 1 .. 2 : i = 1 \/ i = 2
    BY <2>2
  <2>5. BestItems(x) /\ LocalItems(y) /\ Complete(x, 2) /\ Complete(y, 2)
    BY <2>1, BestFormat, BestCounted, LocalFormat, LocalCounted
  <2>6. Takes(x, line) \/ Takes(y, line)
    BY <1>5, <2>3, <2>4, <2>5, FirstOfEvents, ScanTakes
  <2>7. CASE Takes(x, line)
    <3>1. Fits(x[2], line[2]) /\ Fits(x[3], line[3])
      BY <1>0, <2>5, <2>7 DEF Takes, BestItems
    <3>2. x[2] = Lit("selected") /\ x[3] = Lit("best")  BY <2>5 DEF BestItems
    <3> QED  BY <3>1, <3>2 DEF Fits, Lit
  <2>8. CASE Takes(y, line)
    <3>1. Fits(y[2], line[2]) /\ Fits(y[3], line[3])
      BY <1>0, <2>5, <2>8 DEF Takes, LocalItems
    <3>2. y[2] = Lit("selected") /\ y[3] = Lit("local")  BY <2>5 DEF LocalItems
    <3> QED  BY <3>1, <3>2 DEF Fits, Lit
  <2> QED  BY <2>6, <2>7, <2>8
<1> QED  BY <1>0, <1>1, <1>2, <1>3, <1>4, <1>5

\* A token that a number conversion takes does not read "offset".
NumbersAreNumbers(line) ==
  \A i \in 1 .. Len(line) : line[i].kind = "num" => line[i].text # "offset"

\* Whatever the line, however long: at most one parser of ptp4l takes it
\* (OneMeaning).
THEOREM OneMeaningOfAnyLine ==
  ASSUME NEW line, IsSequence(line), NumbersAreNumbers(line),
         NEW i \in 1 .. 5, NEW j \in 1 .. 5,
         Ptp4lParsers(line)[i] # NoEvent, Ptp4lParsers(line)[j] # NoEvent
  PROVE  i = j
<1>1. PICK p : p = Ptp4lParsers(line)  OBVIOUS
<1>2. /\ p[1] = Ptp4lRms(line) /\ p[2] = Ptp4lOffset(line) /\ p[3] = PortChange(line)
      /\ p[4] = ForeignMaster(line) /\ p[5] = BestMaster(line)
      /\ \A k \in 1 .. 5 : k = 1 \/ k = 2 \/ k = 3 \/ k = 4 \/ k = 5
  BY <1>1 DEF Ptp4lParsers
<1>3. \A k \in 1 .. Len(line) : ~(line[k].kind = "num" /\ line[k].text = "offset")
  BY DEF NumbersAreNumbers
<1>4. /\ p[1] # NoEvent => p[2] = NoEvent /\ p[3] = NoEvent /\ p[4] = NoEvent /\ p[5] = NoEvent
      /\ p[2] # NoEvent => p[3] = NoEvent /\ p[4] = NoEvent /\ p[5] = NoEvent
      /\ p[3] # NoEvent => p[4] = NoEvent /\ p[5] = NoEvent
      /\ p[4] # NoEvent => p[5] = NoEvent
  BY <1>2, <1>3, ShapesOfLines
<1>5. p[i] # NoEvent /\ p[j] # NoEvent  BY <1>1
<1> QED  BY <1>2, <1>4, <1>5

-----------------------------------------------------------------------------
(* The lines of a run                                                      *)

\* A sequence of tokens, no number of which is the word "offset".
Plain(line) == IsSequence(line) /\ NumbersAreNumbers(line)

\* A plain line is one over the tokens it has, and so is any over them.
LEMMA PlainTokens ==
  ASSUME NEW T, \A t \in T : ~(t.kind = "num" /\ t.text = "offset")
  PROVE  /\ \A line \in Seq(T) : Plain(line)
         /\ \A line : IsSequence(line) /\ (\A i \in 1 .. Len(line) : line[i] \in T)
                        => line \in Seq(T)
<1>1. ASSUME NEW line \in Seq(T) PROVE Plain(line)
  <2>1. \A i \in 1 .. Len(line) : line[i] \in T  OBVIOUS
  <2>2. NumbersAreNumbers(line)  BY <2>1 DEF NumbersAreNumbers
  <2>3. IsSequence(line)  BY DEF IsSequence
  <2> QED  BY <2>2, <2>3 DEF Plain
<1>2. ASSUME NEW line, IsSequence(line), \A i \in 1 .. Len(line) : line[i] \in T
      PROVE  line \in Seq(T)
  <2>1. PICK S : line \in Seq(S)  BY <1>2 DEF IsSequence
  <2>2. PICK n \in Nat : n = Len(line) /\ line \in [1 .. n -> S]  BY <2>1
  <2>3. line \in [1 .. n -> T]  BY <1>2, <2>2
  <2> QED  BY <2>3
<1> QED  BY <1>1, <1>2

\* The words of a line.
LEMMA WordsAreWords ==
  ASSUME NEW texts, IsSequence(texts)
  PROVE  /\ Len(Words(texts)) = Len(texts) /\ Plain(Words(texts))
         /\ \A i \in 1 .. Len(texts) : Words(texts)[i] = W(texts[i])
<1>1. PICK S : texts \in Seq(S)  BY DEF IsSequence
<1>2. PICK n \in Nat : n = Len(texts) /\ DOMAIN texts = 1 .. n  BY <1>1
<1>3. PICK T, w : T = {W(texts[i]) : i \in 1 .. n} /\ w = Words(texts)  OBVIOUS
<1>4. w = [i \in 1 .. n |-> W(texts[i])]  BY <1>2, <1>3 DEF Words
<1>5. w \in [1 .. n -> T]  BY <1>3, <1>4
<1>6. w \in Seq(T) /\ Len(w) = n /\ \A i \in 1 .. n : w[i] = W(texts[i])
  BY <1>4, <1>5
<1>7. \A t \in T : ~(t.kind = "num" /\ t.text = "offset")  BY <1>3 DEF W
<1> QED  BY <1>2, <1>3, <1>6, <1>7, PlainTokens

\* Plain lines end to end.
LEMMA PlainConcat ==
  ASSUME NEW s, NEW t, Plain(s), Plain(t)
  PROVE  Plain(s \o t) /\ IsConcat(s \o t, s, t)
<1>1. IsConcat(s \o t, s, t)  BY Concatenation DEF Plain
<1>2. PICK x : x = s \o t  OBVIOUS
<1>3. PICK m \in Nat, n \in Nat : m = Len(s) /\ n = Len(t)  BY DEF Plain, IsSequence
<1>4. /\ IsSequence(x) /\ Len(x) = m + n
      /\ \A i \in 1 .. m : x[i] = s[i]
      /\ \A i \in 1 .. n : x[m + i] = t[i]
  BY <1>1, <1>2, <1>3 DEF IsConcat
<1>5. ASSUME NEW i \in 1 .. m + n, x[i].kind = "num", x[i].text = "offset" PROVE FALSE
  <2>1. CASE i <= m
    <3>1. i \in 1 .. m  BY <2>1
    <3> QED  BY <1>3, <1>4, <1>5, <3>1 DEF Plain, NumbersAreNumbers
  <2>2. CASE i > m
    <3>1. i - m \in 1 .. n /\ m + (i - m) = i  BY <2>2
    <3>2. x[i] = t[i - m]  BY <1>4, <3>1
    <3> QED  BY <1>3, <1>5, <3>1, <3>2 DEF Plain, NumbersAreNumbers
  <2> QED  BY <2>1, <2>2
<1> QED  BY <1>1, <1>2, <1>4, <1>5 DEF Plain, NumbersAreNumbers

\* The tokens that are put in by a damage are words and a number.
LEMMA OthersArePlain ==
  Plain(Others)
<1>1. PICK s, t, w : /\ t = <<N("8")>> /\ w = Words(s)
                     /\ s = <<"to", "on", "selected", "rms", "offset", "delay", "new">>
  OBVIOUS
<1>2. IsSequence(s) /\ IsSequence(t) /\ Len(t) = 1 /\ t[1] = N("8")
  BY <1>1, Tuples
<1>3. Plain(w)  BY <1>1, <1>2, WordsAreWords
<1>4. \A i \in 1 .. 1 : t[i].kind = "num" => t[i].text # "offset"
  <2>1. t[1].text = "8"  BY <1>2 DEF N
  <2> QED  BY <2>1
<1>5. Plain(t)  BY <1>2, <1>4 DEF Plain, NumbersAreNumbers
<1>6. Plain(w \o t)  BY <1>3, <1>5, PlainConcat
<1> QED  BY <1>1, <1>6 DEF Others

\* A damage leaves a plain line plain.
LEMMA DamagedIsPlain ==
  ASSUME NEW line, Plain(line), NEW d \in Damaged(line)
  PROVE  Plain(d)
<1>1. PICK S0 : line \in Seq(S0)  BY DEF Plain, IsSequence
<1>2. PICK R0 : Others \in Seq(R0)  BY OthersArePlain DEF Plain, IsSequence
<1>3. PICK n \in Nat, r \in Nat :
        n = Len(line) /\ DOMAIN line = 1 .. n /\ r = Len(Others) /\ DOMAIN Others = 1 .. r
  BY <1>1, <1>2
<1>4. PICK T : T = {line[i] : i \in 1 .. n} \cup {Others[j] : j \in 1 .. r}  OBVIOUS
<1>5. \A t \in T : ~(t.kind = "num" /\ t.text = "offset")
  BY <1>3, <1>4, OthersArePlain DEF Plain, NumbersAreNumbers
<1>6. (\A i \in 1 .. n : line[i] \in T) /\ \A j \in 1 .. r : Others[j] \in T  BY <1>4
<1>7. line \in Seq(T)  BY <1>3, <1>5, <1>6, PlainTokens DEF Plain
<1>8. CASE d \in {SubSeq(line, 1, m) : m \in 0 .. Len(line)}
  <2>1. PICK m \in 0 .. n : d = SubSeq(line, 1, m)  BY <1>3, <1>8
  <2>2. d \in Seq(T)  BY <1>3, <1>7, <2>1
  <2> QED  BY <1>5, <2>2, PlainTokens
<1>9. CASE d \in {RemoveAt(line, i) : i \in DOMAIN line}
  <2>1. PICK i \in 1 .. n : d = SubSeq(line, 1, i - 1) \o SubSeq(line, i + 1, n)
    BY <1>3, <1>9 DEF RemoveAt
  <2>2. PICK x, y : x = SubSeq(line, 1, i - 1) /\ y = SubSeq(line, i + 1, n)  OBVIOUS
  <2>3. x \in Seq(T) /\ y \in Seq(T)  BY <1>3, <1>7, <2>2
  <2>4. d \in Seq(T)  BY <2>1, <2>2, <2>3
  <2> QED  BY <1>5, <2>4, PlainTokens
<1>10. CASE d \in {InsertAt(line, i, line[i]) : i \in DOMAIN line}
  <2>1. PICK i \in 1 .. n : d = SubSeq(line, 1, i - 1) \o <<line[i]>> \o SubSeq(line, i, n)
    BY <1>3, <1>10 DEF InsertAt
  <2>2. PICK x, y, z : x = SubSeq(line, 1, i - 1) /\ y = <<line[i]>> /\ z = SubSeq(line, i, n)
    OBVIOUS
  <2>3. x \in Seq(T) /\ y \in Seq(T) /\ z \in Seq(T)  BY <1>3, <1>6, <1>7, <2>2
  <2>4. PICK u : u = x \o y  OBVIOUS
  <2>5. u \in Seq(T)  BY <2>3, <2>4
  <2>6. d \in Seq(T)  BY <2>1, <2>2, <2>3, <2>4, <2>5
  <2> QED  BY <1>5, <2>6, PlainTokens
<1>11. CASE d \in {[line EXCEPT ![i] = Others[j]] : i \in DOMAIN line, j \in DOMAIN Others}
  <2>1. PICK i \in 1 .. n, j \in 1 .. r : d = [line EXCEPT ![i] = Others[j]]
    BY <1>3, <1>11
  <2>2. Others[j] \in T  BY <1>6
  <2>3. d \in Seq(T)  BY <1>3, <1>7, <2>1, <2>2
  <2> QED  BY <1>5, <2>3, PlainTokens
<1>12. CASE d \in {[line EXCEPT ![i] = line[i + 1], ![i + 1] = line[i]] :
                     i \in 1 .. (Len(line) - 1)}
  <2>1. PICK i \in 1 .. (n - 1) : d = [line EXCEPT ![i] = line[i + 1], ![i + 1] = line[i]]
    BY <1>3, <1>12
  <2>2. line[i] \in T /\ line[i + 1] \in T  BY <1>6
  <2>3. d \in Seq(T)  BY <1>3, <1>7, <2>1, <2>2
  <2> QED  BY <1>5, <2>3, PlainTokens
<1> QED  BY <1>8, <1>9, <1>10, <1>11, <1>12 DEF Damaged

\* A line that has every item of a format gives its event.
LEMMA TakenIsEvent ==
  ASSUME NEW x, NEW count, Complete(x, count), NEW event, event # "none",
         NEW line, IsSequence(line)
  PROVE  /\ Takes(x, line) => /\ Scan(event, x, count, line).event = event
                              /\ Scan(event, x, count, line) # NoEvent
         /\ ~Takes(x, line) => Scan(event, x, count, line) = NoEvent
<1>1. IsScanOf(Scan(event, x, count, line), event, x, line)  BY ScanMeaning
<1>2. EventOf(event, x, line).event = event  BY DEF EventOf
<1>3. NoEvent.event = "none"  BY DEF NoEvent
<1> QED  BY <1>1, <1>2, <1>3 DEF IsScanOf

\* The handler of ptp4l gives the event of the one parser that has one.
LEMMA HandlerOfPtp4l ==
  ASSUME NEW line, Plain(line), NEW k \in 1 .. 5, Ptp4lParsers(line)[k] # NoEvent
  PROVE  Handle("ptp4l", line) = Ptp4lParsers(line)[k]
<1>1. PICK p : p = Ptp4lParsers(line)  OBVIOUS
<1>2. /\ p[1] = Ptp4lRms(line) /\ p[2] = Ptp4lOffset(line) /\ p[3] = PortChange(line)
      /\ p[4] = ForeignMaster(line) /\ p[5] = BestMaster(line)
      /\ \A i \in 1 .. 5 : i = 1 \/ i = 2 \/ i = 3 \/ i = 4 \/ i = 5
  BY <1>1 DEF Ptp4lParsers
<1>3. \A i \in 1 .. 5 : i # k => p[i] = NoEvent
  BY <1>1, OneMeaningOfAnyLine DEF Plain
<1>4. PICK both, m : both = <<p[1], p[2]>> /\ m = FirstOf(both)  OBVIOUS
<1>5. Len(both) = 2 /\ both[1] = p[1] /\ both[2] = p[2] /\ \A i \in 1 .. 2 : i = 1 \/ i = 2
  BY <1>4
<1>6. /\ k = 1 => m = p[1]
      /\ k = 2 => m = p[2]
      /\ k \notin {1, 2} => m = NoEvent
  BY <1>1, <1>3, <1>4, <1>5, FirstOfEvents
<1>7. PICK all : all = <<m, p[3], p[4], p[5]>>  OBVIOUS
<1>8. Len(all) = 4 /\ all[1] = m /\ all[2] = p[3] /\ all[3] = p[4] /\ all[4] = p[5]
      /\ \A i \in 1 .. 4 : i = 1 \/ i = 2 \/ i = 3 \/ i = 4
  BY <1>7
<1>9. Handle("ptp4l", line) = FirstOf(all)
  BY <1>2, <1>4, <1>7 DEF Handle, Ptp4lMetrics
<1>10. p[k] # NoEvent  BY <1>1
<1>11. \E i \in 1 .. 4 : all[i] = p[k] /\ \A j \in 1 .. 4 : j # i => all[j] = NoEvent
  BY <1>2, <1>3, <1>6, <1>8
<1>12. FirstOf(all) = p[k]  BY <1>8, <1>10, <1>11, FirstOfEvents
<1> QED  BY <1>1, <1>9, <1>12

\* The first of two alternatives.
LEMMA FirstOfTwo ==
  ASSUME NEW event, event # "none", NEW f, NEW m, Complete(f, m), NEW h, NEW n, Complete(h, n),
         NEW line, IsSequence(line),
         NEW r, r = FirstOf(<<Scan(event, f, m, line), Scan(event, h, n, line)>>)
  PROVE  /\ Takes(f, line) \/ Takes(h, line) => r.event = event /\ r # NoEvent
         /\ ~Takes(f, line) /\ ~Takes(h, line) => r = NoEvent
<1>1. PICK e1, e2 : e1 = Scan(event, f, m, line) /\ e2 = Scan(event, h, n, line)
  OBVIOUS
<1>2. PICK events : events = <<e1, e2>>  OBVIOUS
<1>3. Len(events) = 2 /\ events[1] = e1 /\ events[2] = e2 /\ \A i \in 1 .. 2 : i = 1 \/ i = 2
  BY <1>2
<1>4. r = FirstOf(events)  BY <1>1, <1>2
<1>5. /\ Takes(f, line) => e1.event = event /\ e1 # NoEvent
      /\ ~Takes(f, line) => e1 = NoEvent
  BY <1>1, TakenIsEvent
<1>6. /\ Takes(h, line) => e2.event = event /\ e2 # NoEvent
      /\ ~Takes(h, line) => e2 = NoEvent
  BY <1>1, TakenIsEvent
<1>7. \/ r = NoEvent /\ e1 = NoEvent /\ e2 = NoEvent
      \/ r = e1 /\ e1 # NoEvent
      \/ r = e2 /\ e2 # NoEvent
  BY <1>3, <1>4, FirstOfEvents
<1> QED  BY <1>5, <1>6, <1>7

\* The two alternatives of phc2sys.
LEMMA MeaningOfPhc2sys ==
  ASSUME NEW line, IsSequence(line)
  PROVE  \A f, h :
           /\ f = <<Stamp, Skip>> \o RmsTail
           /\ h = <<Stamp, Skip, Skip>> \o OffsetTail
                    \o <<Lit("delay"), <<"num", "path_delay">>>>
           => /\ Takes(f, line) \/ Takes(h, line) =>
                   Phc2sysMetrics(line).event = "metrics" /\ Phc2sysMetrics(line) # NoEvent
              /\ ~Takes(f, line) /\ ~Takes(h, line) => Phc2sysMetrics(line) = NoEvent
<1>1. ASSUME NEW f, NEW h, Complete(f, 4), Complete(h, 5), NEW r,
             r = FirstOf(<<Scan("metrics", f, 4, line), Scan("metrics", h, 5, line)>>)
      PROVE  /\ Takes(f, line) \/ Takes(h, line) => r.event = "metrics" /\ r # NoEvent
             /\ ~Takes(f, line) /\ ~Takes(h, line) => r = NoEvent
  <2>1. "metrics" # "none"  OBVIOUS
  <2> QED  BY <1>1, <2>1, FirstOfTwo
<1>2. ASSUME NEW f, f = <<Stamp, Skip>> \o RmsTail,
             NEW h, h = <<Stamp, Skip, Skip>> \o OffsetTail
                          \o <<Lit("delay"), <<"num", "path_delay">>>>
      PROVE  /\ Complete(f, 4) /\ Complete(h, 5)
             /\ Phc2sysMetrics(line)
                  = FirstOf(<<Scan("metrics", f, 4, line), Scan("metrics", h, 5, line)>>)
  <2>1. Complete(f, 4)  BY <1>2, PhcRmsFormat, PhcRmsCounted
  <2>2. Complete(h, 5)  BY <1>2, PhcOffsetFormat, PhcOffsetCounted
  <2>3. Phc2sysMetrics(line)
          = FirstOf(<<Scan("metrics", f, 4, line), Scan("metrics", h, 5, line)>>)
    BY <1>2 DEF Phc2sysMetrics
  <2> QED  BY <2>1, <2>2, <2>3
<1> QED  BY <1>1, <1>2

\* Some words are in a line.
LEMMA MentionsWords ==
  ASSUME NEW line, NEW l \in Nat, l = Len(line)
  PROVE  /\ \A w, i : i \in 1 .. l /\ line[i].text = w => Mentions(line, <<w>>)
         /\ \A w1, w2, w3, i :
              i \in 1 .. l - 2 /\ line[i].text = w1 /\ line[i + 1].text = w2
                               /\ line[i + 2].text = w3
              => Mentions(line, <<w1, w2, w3>>)
<1>1. ASSUME NEW w, NEW i \in 1 .. l, line[i].text = w PROVE Mentions(line, <<w>>)
  <2>1. PICK words : words = <<w>>  OBVIOUS
  <2>2. Len(words) = 1 /\ DOMAIN words = 1 .. 1 /\ words[1] = w  BY <2>1
  <2>3. i - 1 \in 0 .. l - 1 /\ (i - 1) + 1 = i  OBVIOUS
  <2>4. \A j \in 1 .. 1 : line[(i - 1) + j].text = words[j]  BY <1>1, <2>2, <2>3
  <2> QED  BY <2>1, <2>2, <2>3, <2>4 DEF Mentions
<1>2. ASSUME NEW w1, NEW w2, NEW w3, NEW i \in 1 .. l - 2, line[i].text = w1,
             line[i + 1].text = w2, line[i + 2].text = w3
      PROVE  Mentions(line, <<w1, w2, w3>>)
  <2>1. PICK words : words = <<w1, w2, w3>>  OBVIOUS
  <2>2. Len(words) = 3 /\ DOMAIN words = 1 .. 3 /\ words[1] = w1 /\ words[2] = w2
        /\ words[3] = w3 /\ \A j \in 1 .. 3 : j = 1 \/ j = 2 \/ j = 3
    BY <2>1
  <2>3. i - 1 \in 0 .. l - 3 /\ (i - 1) + 1 = i /\ (i - 1) + 2 = i + 1 /\ (i - 1) + 3 = i + 2
    OBVIOUS
  <2>4. \A j \in 1 .. 3 : line[(i - 1) + j].text = words[j]  BY <1>2, <2>2, <2>3
  <2> QED  BY <2>1, <2>2, <2>3, <2>4 DEF Mentions
<1> QED  BY <1>1, <1>2

\* The two alternatives of a best master.
LEMMA MeaningOfBest ==
  ASSUME NEW line, IsSequence(line), 2 \in 1 .. Len(line), line[2].text = "selected",
         NEW f, f = <<Stamp, Lit("selected")>> \o <<Lit("best"), Lit("master"), Lit("clock")>>
                      \o <<<<"word", "masterClockIdentity">>>>,
         NEW h, h = <<Stamp, Lit("selected")>> \o <<Lit("local"), Lit("clock")>>
                      \o <<<<"word", "masterClockIdentity">>>>,
         Takes(f, line) \/ Takes(h, line)
  PROVE  BestMaster(line).event = "best" /\ BestMaster(line) # NoEvent
<1>1. PICK r : r = FirstOf(<<Scan("best", f, 2, line), Scan("best", h, 2, line)>>)
  OBVIOUS
<1>2. PICK l \in Nat : l = Len(line)  BY DEF IsSequence
<1>3. Mentions(line, <<"selected">>)  BY <1>2, MentionsWords
<1>4. BestMaster(line) = r  BY <1>1, <1>3 DEF BestMaster
<1>5. Complete(f, 2)  BY BestFormat, BestCounted
<1>6. Complete(h, 2)  BY LocalFormat, LocalCounted
<1>7. "best" # "none"  OBVIOUS
<1> QED  BY <1>1, <1>4, <1>5, <1>6, <1>7, FirstOfTwo

\* The tokens that fit the items of a format.
LEMMA TokensFit ==
  /\ Fits(Stamp, Time)
  /\ \A w : Fits(Lit(w), W(w))
  /\ \A f, v : Fits(<<"num", f>>, N(v))
  /\ \A v : Fits(SkipNum, N(v))
  /\ \A t : Fits(Skip, t)
  /\ \A f, t : Fits(<<"word", f>>, t) /\ Fits(<<"rest", f>>, t)
  /\ \A f, v : /\ Fits(<<"state", f>>, [kind |-> "state", text |-> v])
               /\ Fits(<<"paren", f>>, [kind |-> "paren", text |-> v])
               /\ Fits(<<"portid", f>>, [kind |-> "portid", text |-> v])
               /\ Fits(<<"numcomma", f>>, [kind |-> "numcomma", text |-> v])
BY DEF Fits, Stamp, Time, Lit, W, N, Skip, SkipNum

\* A token that is no number "offset".
NoOffset(t) == ~(t.kind = "num" /\ t.text = "offset")

\* The tokens of the lines are none.
LEMMA NumbersNoOffset ==
  /\ NoOffset(Time)
  /\ \A w : NoOffset(W(w))
  /\ \A v : v # "offset" => NoOffset(N(v))
  /\ \A k, v : k # "num" => NoOffset([kind |-> k, text |-> v])
BY DEF NoOffset, Time, W, N

\* The summary of ptp4l: its tokens.
RmsTokens(x) ==
  /\ IsSequence(x) /\ Len(x) = 13 /\ x[1] = Time /\ x[2] = W("rms")
  /\ x[3] = N("32") /\ x[4] = W("max") /\ x[5] = N("40") /\ x[6] = W("freq")
  /\ x[7] = N("+12") /\ x[8] = W("+/-") /\ x[9] = N("5") /\ x[10] = W("delay")
  /\ x[11] = N("90") /\ x[12] = W("+/-") /\ x[13] = N("16")

\* The line has them.
LEMMA RmsLine ==
  RmsTokens(<<Time>> \o Rms)
<1>1. PICK s, t, x : s = <<Time>> /\ t = Rms /\ x = s \o t
  OBVIOUS
<1>2. IsSequence(s) /\ IsSequence(t) /\ Len(s) = 1 /\ Len(t) = 12
  BY <1>1, Tuples DEF Rms
<1>3. IsConcat(x, s, t)  BY <1>1, <1>2, Concatenation
<1>4. /\ IsSequence(x) /\ Len(x) = 13 /\ \A i \in 1 .. 1 : x[i] = s[i]
      /\ \A i \in 1 .. 12 : x[1 + i] = t[i]
  BY <1>2, <1>3 DEF IsConcat
<1>5. /\ x[1] = s[1] /\ x[2] = t[1] /\ x[3] = t[2] /\ x[4] = t[3] /\ x[5] = t[4]
      /\ x[6] = t[5] /\ x[7] = t[6] /\ x[8] = t[7] /\ x[9] = t[8] /\ x[10] = t[9]
      /\ x[11] = t[10] /\ x[12] = t[11] /\ x[13] = t[12]
  BY <1>4
<1> QED  BY <1>1, <1>4, <1>5 DEF RmsTokens, Rms

\* It is plain and gives its event.
LEMMA RmsEvent ==
  ASSUME NEW x, RmsTokens(x)
  PROVE  Plain(x) /\ Handle("ptp4l", x).event = "metrics"
<1>1. IsSequence(x) /\ Len(x) = 13  BY DEF RmsTokens
<1>2. \A i \in 1 .. 13 :
        i = 1 \/ i = 2 \/ i = 3 \/ i = 4 \/ i = 5 \/ i = 6 \/ i = 7 \/
        i = 8 \/ i = 9 \/ i = 10 \/ i = 11 \/ i = 12 \/ i = 13
  OBVIOUS
<1>3. /\ NoOffset(x[1]) /\ NoOffset(x[2]) /\ NoOffset(x[3]) /\ NoOffset(x[4])
      /\ NoOffset(x[5]) /\ NoOffset(x[6]) /\ NoOffset(x[7]) /\ NoOffset(x[8])
      /\ NoOffset(x[9]) /\ NoOffset(x[10]) /\ NoOffset(x[11]) /\ NoOffset(x[12])
      /\ NoOffset(x[13])
  BY NumbersNoOffset DEF RmsTokens
<1>4. Plain(x)  BY <1>1, <1>2, <1>3 DEF Plain, NumbersAreNumbers, NoOffset
<1>5. PICK f : f = <<Stamp>> \o RmsTail
  OBVIOUS
<1>6. RmsItems(f) /\ Complete(f, 4)  BY <1>5, RmsFormat, RmsCounted
<1>7. /\ Fits(f[1], x[1]) /\ Fits(f[2], x[2]) /\ Fits(f[3], x[3])
      /\ Fits(f[4], x[4]) /\ Fits(f[5], x[5]) /\ Fits(f[6], x[6])
      /\ Fits(f[7], x[7]) /\ Fits(f[8], x[8]) /\ Fits(f[9], x[9])
      /\ Fits(f[10], x[10]) /\ Fits(f[11], x[11])
  BY <1>6, TokensFit DEF RmsItems, RmsTokens
<1>8. Takes(f, x)
  <2>1. Len(f) = 11  BY <1>6 DEF RmsItems
  <2>2. \A i \in 1 .. 11 :
          i = 1 \/ i = 2 \/ i = 3 \/ i = 4 \/ i = 5 \/ i = 6 \/ i = 7 \/
          i = 8 \/ i = 9 \/ i = 10 \/ i = 11
    OBVIOUS
  <2> QED  BY <1>1, <1>7, <2>1, <2>2 DEF Takes
<1>9. Ptp4lRms(x).event = "metrics" /\ Ptp4lRms(x) # NoEvent
  <2>1. Ptp4lRms(x) = Scan("metrics", f, 4, x)  BY <1>5 DEF Ptp4lRms
  <2>2. "metrics" # "none"  OBVIOUS
  <2> QED  BY <1>1, <1>6, <1>8, <2>1, <2>2, TakenIsEvent
<1>10. Ptp4lParsers(x)[1] = Ptp4lRms(x)  BY DEF Ptp4lParsers
<1>11. 1 \in 1 .. 5  OBVIOUS
<1> QED  BY <1>4, <1>9, <1>10, <1>11, HandlerOfPtp4l

\* An offset of ptp4l: its tokens.
OffsetTokens(x) ==
  /\ IsSequence(x) /\ Len(x) = 10 /\ x[1] = Time /\ x[2] = W("master")
  /\ x[3] = W("offset") /\ x[4] = N("-21")
  /\ x[5] = [kind |-> "state", text |-> "s2"] /\ x[6] = W("freq") /\ x[7] = N("+32")
  /\ x[8] = W("path") /\ x[9] = W("delay") /\ x[10] = N("7")

\* The line has them.
LEMMA OffsetLine ==
  OffsetTokens(<<Time, W("master")>> \o Offset \o <<W("path"), W("delay"), N("7")>>)
<1>1. PICK s, t, u, y, x : /\ s = <<Time, W("master")>> /\ t = Offset
                           /\ u = <<W("path"), W("delay"), N("7")>> /\ y = s \o t
                           /\ x = y \o u
  OBVIOUS
<1>2. /\ IsSequence(s) /\ IsSequence(t) /\ IsSequence(u) /\ Len(s) = 2 /\ Len(t) = 5
      /\ Len(u) = 3
  BY <1>1, Tuples DEF Offset
<1>3. IsConcat(y, s, t)  BY <1>1, <1>2, Concatenation
<1>4. /\ IsSequence(y) /\ Len(y) = 7 /\ \A i \in 1 .. 2 : y[i] = s[i]
      /\ \A i \in 1 .. 5 : y[2 + i] = t[i]
  BY <1>2, <1>3 DEF IsConcat
<1>5. IsConcat(x, y, u)  BY <1>1, <1>2, <1>4, Concatenation
<1>6. /\ IsSequence(x) /\ Len(x) = 10 /\ \A i \in 1 .. 7 : x[i] = y[i]
      /\ \A i \in 1 .. 3 : x[7 + i] = u[i]
  BY <1>2, <1>4, <1>5 DEF IsConcat
<1>7. /\ y[1] = s[1] /\ y[2] = s[2] /\ y[3] = t[1] /\ y[4] = t[2] /\ y[5] = t[3]
      /\ y[6] = t[4] /\ y[7] = t[5]
  BY <1>4
<1>8. /\ x[1] = y[1] /\ x[2] = y[2] /\ x[3] = y[3] /\ x[4] = y[4] /\ x[5] = y[5]
      /\ x[6] = y[6] /\ x[7] = y[7] /\ x[8] = u[1] /\ x[9] = u[2] /\ x[10] = u[3]
  BY <1>6
<1> QED  BY <1>1, <1>6, <1>7, <1>8 DEF OffsetTokens, Offset

\* It is plain and gives its event.
LEMMA OffsetEvent ==
  ASSUME NEW x, OffsetTokens(x)
  PROVE  Plain(x) /\ Handle("ptp4l", x).event = "metrics"
<1>1. IsSequence(x) /\ Len(x) = 10  BY DEF OffsetTokens
<1>2. \A i \in 1 .. 10 :
        i = 1 \/ i = 2 \/ i = 3 \/ i = 4 \/ i = 5 \/ i = 6 \/ i = 7 \/
        i = 8 \/ i = 9 \/ i = 10
  OBVIOUS
<1>3. /\ NoOffset(x[1]) /\ NoOffset(x[2]) /\ NoOffset(x[3]) /\ NoOffset(x[4])
      /\ NoOffset(x[5]) /\ NoOffset(x[6]) /\ NoOffset(x[7]) /\ NoOffset(x[8])
      /\ NoOffset(x[9]) /\ NoOffset(x[10])
  BY NumbersNoOffset DEF OffsetTokens
<1>4. Plain(x)  BY <1>1, <1>2, <1>3 DEF Plain, NumbersAreNumbers, NoOffset
<1>5. PICK f : f = <<Stamp, Skip>> \o OffsetTail
                     \o <<Lit("path"), Lit("delay"), <<"num", "path_delay">>>>
  OBVIOUS
<1>6. OffsetItems(f) /\ Complete(f, 5)  BY <1>5, OffsetFormat, OffsetCounted
<1>7. /\ Fits(f[1], x[1]) /\ Fits(f[2], x[2]) /\ Fits(f[3], x[3])
      /\ Fits(f[4], x[4]) /\ Fits(f[5], x[5]) /\ Fits(f[6], x[6])
      /\ Fits(f[7], x[7]) /\ Fits(f[8], x[8]) /\ Fits(f[9], x[9])
      /\ Fits(f[10], x[10])
  BY <1>6, TokensFit, ZenonT(60) DEF OffsetItems, OffsetTokens
<1>8. Takes(f, x)
  <2>1. Len(f) = 10  BY <1>6 DEF OffsetItems
  <2> QED  BY <1>1, <1>2, <1>7, <2>1 DEF Takes
<1>9. Ptp4lOffset(x).event = "metrics" /\ Ptp4lOffset(x) # NoEvent
  <2>1. Ptp4lOffset(x) = Scan("metrics", f, 5, x)  BY <1>5 DEF Ptp4lOffset
  <2>2. "metrics" # "none"  OBVIOUS
  <2> QED  BY <1>1, <1>6, <1>8, <2>1, <2>2, TakenIsEvent
<1>10. Ptp4lParsers(x)[2] = Ptp4lOffset(x)  BY DEF Ptp4lParsers
<1>11. 2 \in 1 .. 5  OBVIOUS
<1> QED  BY <1>4, <1>9, <1>10, <1>11, HandlerOfPtp4l

\* A port change: its tokens.
PortTokens(x) ==
  /\ IsSequence(x) /\ Len(x) = 9 /\ x[1] = Time /\ x[2] = W("port") /\ x[3] = N("1")
  /\ x[4] = [kind |-> "paren", text |-> "eth0"] /\ x[5] = W("LISTENING")
  /\ x[6] = W("to") /\ x[7] = W("SLAVE") /\ x[8] = W("on") /\ x[9] = W("SELECTED")

\* The line has them.
LEMMA PortLine ==
  PortTokens(Port1 \o Words(<<"LISTENING", "to", "SLAVE", "on", "SELECTED">>))
<1>1. PICK s, t, w, x : /\ s = Port1 /\ t = Words(w)
                        /\ w = <<"LISTENING", "to", "SLAVE", "on", "SELECTED">>
                        /\ x = s \o t
  OBVIOUS
<1>2. IsSequence(w) /\ Len(w) = 5  BY <1>1, Tuples
<1>3. /\ IsSequence(t) /\ Len(t) = 5
      /\ \A i \in 1 .. 5 : t[i] = W(w[i])
  BY <1>1, <1>2, WordsAreWords DEF Plain
<1>4. /\ t[1] = W(w[1]) /\ t[2] = W(w[2]) /\ t[3] = W(w[3]) /\ t[4] = W(w[4])
      /\ t[5] = W(w[5])
  BY <1>3
<1>5. IsSequence(s) /\ Len(s) = 4
  BY <1>1, Tuples DEF Port1
<1>6. IsConcat(x, s, t)  BY <1>1, <1>3, <1>5, Concatenation
<1>7. /\ IsSequence(x) /\ Len(x) = 9 /\ \A i \in 1 .. 4 : x[i] = s[i]
      /\ \A i \in 1 .. 5 : x[4 + i] = t[i]
  BY <1>3, <1>5, <1>6 DEF IsConcat
<1>8. /\ x[1] = s[1] /\ x[2] = s[2] /\ x[3] = s[3] /\ x[4] = s[4] /\ x[5] = t[1]
      /\ x[6] = t[2] /\ x[7] = t[3] /\ x[8] = t[4] /\ x[9] = t[5]
  BY <1>7
<1> QED  BY <1>1, <1>4, <1>7, <1>8 DEF PortTokens, Port1

\* It is plain and gives its event.
LEMMA PortEvent ==
  ASSUME NEW x, PortTokens(x)
  PROVE  Plain(x) /\ Handle("ptp4l", x).event = "port"
<1>1. IsSequence(x) /\ Len(x) = 9  BY DEF PortTokens
<1>2. \A i \in 1 .. 9 :
        i = 1 \/ i = 2 \/ i = 3 \/ i = 4 \/ i = 5 \/ i = 6 \/ i = 7 \/
        i = 8 \/ i = 9
  OBVIOUS
<1>3. /\ NoOffset(x[1]) /\ NoOffset(x[2]) /\ NoOffset(x[3]) /\ NoOffset(x[4])
      /\ NoOffset(x[5]) /\ NoOffset(x[6]) /\ NoOffset(x[7]) /\ NoOffset(x[8])
      /\ NoOffset(x[9])
  BY NumbersNoOffset DEF PortTokens
<1>4. Plain(x)  BY <1>1, <1>2, <1>3 DEF Plain, NumbersAreNumbers, NoOffset
<1>5. PICK f : f = PortHead
                     \o <<<<"word", "fromState">>, Lit("to"), <<"word", "toState">>,
                          Lit("on"), <<"rest", "trigger">>>>
  OBVIOUS
<1>6. PortItems(f) /\ Complete(f, 6)  BY <1>5, PortFormat, PortCounted
<1>7. /\ Fits(f[1], x[1]) /\ Fits(f[2], x[2]) /\ Fits(f[3], x[3])
      /\ Fits(f[4], x[4]) /\ Fits(f[5], x[5]) /\ Fits(f[6], x[6])
      /\ Fits(f[7], x[7]) /\ Fits(f[8], x[8]) /\ Fits(f[9], x[9])
  BY <1>6, TokensFit, ZenonT(60) DEF PortItems, PortTokens
<1>8. Takes(f, x)
  <2>1. Len(f) = 9  BY <1>6 DEF PortItems
  <2> QED  BY <1>1, <1>2, <1>7, <2>1 DEF Takes
<1>9. PortChange(x).event = "port" /\ PortChange(x) # NoEvent
  <2>1. x[2].text = "port" /\ x[6].text = "to"  BY DEF PortTokens, W
  <2>2. Mentions(x, <<"port">>) /\ Mentions(x, <<"to">>)
    <3>1. 2 \in 1 .. 9 /\ 6 \in 1 .. 9  OBVIOUS
    <3> QED  BY <1>1, <2>1, <3>1, MentionsWords
  <2>3. PortChange(x) = Scan("port", f, 6, x)  BY <1>5, <2>2 DEF PortChange
  <2>4. "port" # "none"  OBVIOUS
  <2> QED  BY <1>1, <1>6, <1>8, <2>3, <2>4, TakenIsEvent
<1>10. Ptp4lParsers(x)[3] = PortChange(x)  BY DEF Ptp4lParsers
<1>11. 3 \in 1 .. 5  OBVIOUS
<1> QED  BY <1>4, <1>9, <1>10, <1>11, HandlerOfPtp4l

\* A foreign master: its tokens.
ForeignTokens(x) ==
  /\ IsSequence(x) /\ Len(x) = 8 /\ x[1] = Time /\ x[2] = W("port") /\ x[3] = N("1")
  /\ x[4] = [kind |-> "paren", text |-> "eth0"] /\ x[5] = W("new")
  /\ x[6] = W("foreign") /\ x[7] = W("master")
  /\ x[8] = [kind |-> "portid", text |-> "e0d4-1"]

\* The line has them.
LEMMA ForeignLine ==
  ForeignTokens(Port1 \o Words(<<"new", "foreign", "master">>)
                \o <<[kind |-> "portid", text |-> "e0d4-1"]>>)
<1>1. PICK s, t, u, w, y, x : /\ s = Port1 /\ t = Words(w)
                              /\ w = <<"new", "foreign", "master">>
                              /\ u = <<[kind |-> "portid", text |-> "e0d4-1"]>>
                              /\ y = s \o t /\ x = y \o u
  OBVIOUS
<1>2. IsSequence(w) /\ Len(w) = 3  BY <1>1, Tuples
<1>3. /\ IsSequence(t) /\ Len(t) = 3
      /\ \A i \in 1 .. 3 : t[i] = W(w[i])
  BY <1>1, <1>2, WordsAreWords DEF Plain
<1>4. t[1] = W(w[1]) /\ t[2] = W(w[2]) /\ t[3] = W(w[3])
  BY <1>3
<1>5. IsSequence(s) /\ IsSequence(u) /\ Len(s) = 4 /\ Len(u) = 1
  BY <1>1, Tuples DEF Port1
<1>6. IsConcat(y, s, t)  BY <1>1, <1>3, <1>5, Concatenation
<1>7. /\ IsSequence(y) /\ Len(y) = 7 /\ \A i \in 1 .. 4 : y[i] = s[i]
      /\ \A i \in 1 .. 3 : y[4 + i] = t[i]
  BY <1>3, <1>5, <1>6 DEF IsConcat
<1>8. IsConcat(x, y, u)  BY <1>1, <1>5, <1>7, Concatenation
<1>9. /\ IsSequence(x) /\ Len(x) = 8 /\ \A i \in 1 .. 7 : x[i] = y[i]
      /\ \A i \in 1 .. 1 : x[7 + i] = u[i]
  BY <1>5, <1>7, <1>8 DEF IsConcat
<1>10. /\ y[1] = s[1] /\ y[2] = s[2] /\ y[3] = s[3] /\ y[4] = s[4] /\ y[5] = t[1]
       /\ y[6] = t[2] /\ y[7] = t[3]
  BY <1>7
<1>11. /\ x[1] = y[1] /\ x[2] = y[2] /\ x[3] = y[3] /\ x[4] = y[4] /\ x[5] = y[5]
       /\ x[6] = y[6] /\ x[7] = y[7] /\ x[8] = u[1]
  BY <1>9
<1> QED  BY <1>1, <1>4, <1>9, <1>10, <1>11 DEF ForeignTokens, Port1

\* It is plain and gives its event.
LEMMA ForeignEvent ==
  ASSUME NEW x, ForeignTokens(x)
  PROVE  Plain(x) /\ Handle("ptp4l", x).event = "foreign"
<1>1. IsSequence(x) /\ Len(x) = 8  BY DEF ForeignTokens
<1>2. \A i \in 1 .. 8 :
        i = 1 \/ i = 2 \/ i = 3 \/ i = 4 \/ i = 5 \/ i = 6 \/ i = 7 \/
        i = 8
  OBVIOUS
<1>3. /\ NoOffset(x[1]) /\ NoOffset(x[2]) /\ NoOffset(x[3]) /\ NoOffset(x[4])
      /\ NoOffset(x[5]) /\ NoOffset(x[6]) /\ NoOffset(x[7]) /\ NoOffset(x[8])
  BY NumbersNoOffset DEF ForeignTokens
<1>4. Plain(x)  BY <1>1, <1>2, <1>3 DEF Plain, NumbersAreNumbers, NoOffset
<1>5. PICK f : f = PortHead
                     \o <<Lit("new"), Lit("foreign"), Lit("master"),
                          <<"portid", "masterClockIdentity">>>>
  OBVIOUS
<1>6. ForeignItems(f) /\ Complete(f, 5)  BY <1>5, ForeignFormat, ForeignCounted
<1>7. /\ Fits(f[1], x[1]) /\ Fits(f[2], x[2]) /\ Fits(f[3], x[3])
      /\ Fits(f[4], x[4]) /\ Fits(f[5], x[5]) /\ Fits(f[6], x[6])
      /\ Fits(f[7], x[7]) /\ Fits(f[8], x[8])
  BY <1>6, TokensFit, ZenonT(60) DEF ForeignItems, ForeignTokens
<1>8. Takes(f, x)
  <2>1. Len(f) = 8  BY <1>6 DEF ForeignItems
  <2> QED  BY <1>1, <1>2, <1>7, <2>1 DEF Takes
<1>9. ForeignMaster(x).event = "foreign" /\ ForeignMaster(x) # NoEvent
  <2>1. x[5].text = "new" /\ x[6].text = "foreign" /\ x[7].text = "master"
    BY DEF ForeignTokens, W
  <2>2. Mentions(x, <<"new", "foreign", "master">>)
    <3>1. 5 \in 1 .. 8 - 2 /\ 5 + 1 = 6 /\ 5 + 2 = 7  OBVIOUS
    <3> QED  BY <1>1, <2>1, <3>1, MentionsWords
  <2>3. ForeignMaster(x) = Scan("foreign", f, 5, x)  BY <1>5, <2>2 DEF ForeignMaster
  <2>4. "foreign" # "none"  OBVIOUS
  <2> QED  BY <1>1, <1>6, <1>8, <2>3, <2>4, TakenIsEvent
<1>10. Ptp4lParsers(x)[4] = ForeignMaster(x)  BY DEF Ptp4lParsers
<1>11. 4 \in 1 .. 5  OBVIOUS
<1> QED  BY <1>4, <1>9, <1>10, <1>11, HandlerOfPtp4l

\* A best master: its tokens.
BestTokens(x) ==
  /\ IsSequence(x) /\ Len(x) = 6 /\ x[1] = Time /\ x[2] = W("selected")
  /\ x[3] = W("best") /\ x[4] = W("master") /\ x[5] = W("clock") /\ x[6] = W("e0d4")

\* The line has them.
LEMMA BestLine ==
  BestTokens(<<Time>> \o Words(<<"selected", "best", "master", "clock", "e0d4">>))
<1>1. PICK s, t, w, x : /\ s = <<Time>> /\ t = Words(w)
                        /\ w = <<"selected", "best", "master", "clock", "e0d4">>
                        /\ x = s \o t
  OBVIOUS
<1>2. IsSequence(w) /\ Len(w) = 5  BY <1>1, Tuples
<1>3. /\ IsSequence(t) /\ Len(t) = 5
      /\ \A i \in 1 .. 5 : t[i] = W(w[i])
  BY <1>1, <1>2, WordsAreWords DEF Plain
<1>4. /\ t[1] = W(w[1]) /\ t[2] = W(w[2]) /\ t[3] = W(w[3]) /\ t[4] = W(w[4])
      /\ t[5] = W(w[5])
  BY <1>3
<1>5. IsSequence(s) /\ Len(s) = 1
  BY <1>1, Tuples
<1>6. IsConcat(x, s, t)  BY <1>1, <1>3, <1>5, Concatenation
<1>7. /\ IsSequence(x) /\ Len(x) = 6 /\ \A i \in 1 .. 1 : x[i] = s[i]
      /\ \A i \in 1 .. 5 : x[1 + i] = t[i]
  BY <1>3, <1>5, <1>6 DEF IsConcat
<1>8. /\ x[1] = s[1] /\ x[2] = t[1] /\ x[3] = t[2] /\ x[4] = t[3] /\ x[5] = t[4]
      /\ x[6] = t[5]
  BY <1>7
<1> QED  BY <1>1, <1>4, <1>7, <1>8 DEF BestTokens

\* It is plain and gives its event.
LEMMA BestEvent ==
  ASSUME NEW x, BestTokens(x)
  PROVE  Plain(x) /\ Handle("ptp4l", x).event = "best"
<1>1. IsSequence(x) /\ Len(x) = 6  BY DEF BestTokens
<1>2. \A i \in 1 .. 6 :
        i = 1 \/ i = 2 \/ i = 3 \/ i = 4 \/ i = 5 \/ i = 6
  OBVIOUS
<1>3. /\ NoOffset(x[1]) /\ NoOffset(x[2]) /\ NoOffset(x[3]) /\ NoOffset(x[4])
      /\ NoOffset(x[5]) /\ NoOffset(x[6])
  BY NumbersNoOffset DEF BestTokens
<1>4. Plain(x)  BY <1>1, <1>2, <1>3 DEF Plain, NumbersAreNumbers, NoOffset
<1>5. PICK f : f = <<Stamp, Lit("selected")>> \o <<Lit("best"), Lit("master"), Lit("clock")>>
                     \o <<<<"word", "masterClockIdentity">>>>
  OBVIOUS
<1>6. BestItems(f) /\ Complete(f, 2)  BY <1>5, BestFormat, BestCounted
<1>7. /\ Fits(f[1], x[1]) /\ Fits(f[2], x[2]) /\ Fits(f[3], x[3])
      /\ Fits(f[4], x[4]) /\ Fits(f[5], x[5]) /\ Fits(f[6], x[6])
  BY <1>6, TokensFit DEF BestItems, BestTokens
<1>8. Takes(f, x)
  <2>1. Len(f) = 6  BY <1>6 DEF BestItems
  <2> QED  BY <1>1, <1>2, <1>7, <2>1 DEF Takes
<1>9. BestMaster(x).event = "best" /\ BestMaster(x) # NoEvent
  <2>1. 2 \in 1 .. Len(x) /\ x[2].text = "selected"  BY <1>1 DEF BestTokens, W
  <2> QED  BY <1>1, <1>5, <1>8, <2>1, MeaningOfBest
<1>10. Ptp4lParsers(x)[5] = BestMaster(x)  BY DEF Ptp4lParsers
<1>11. 5 \in 1 .. 5  OBVIOUS
<1> QED  BY <1>4, <1>9, <1>10, <1>11, HandlerOfPtp4l

\* The local clock as master: its tokens.
LocalTokens(x) ==
  /\ IsSequence(x) /\ Len(x) = 8 /\ x[1] = Time /\ x[2] = W("selected")
  /\ x[3] = W("local") /\ x[4] = W("clock") /\ x[5] = W("e0d4") /\ x[6] = W("as")
  /\ x[7] = W("best") /\ x[8] = W("master")

\* The line has them.
LEMMA LocalLine ==
  LocalTokens(<<Time>>
              \o Words(<<"selected", "local", "clock", "e0d4", "as", "best", "master">>))
<1>1. PICK s, t, w, x : /\ s = <<Time>> /\ t = Words(w)
                        /\ w = <<"selected", "local", "clock", "e0d4", "as", "best", "master">>
                        /\ x = s \o t
  OBVIOUS
<1>2. IsSequence(w) /\ Len(w) = 7  BY <1>1, Tuples
<1>3. /\ IsSequence(t) /\ Len(t) = 7
      /\ \A i \in 1 .. 7 : t[i] = W(w[i])
  BY <1>1, <1>2, WordsAreWords DEF Plain
<1>4. /\ t[1] = W(w[1]) /\ t[2] = W(w[2]) /\ t[3] = W(w[3]) /\ t[4] = W(w[4])
      /\ t[5] = W(w[5]) /\ t[6] = W(w[6]) /\ t[7] = W(w[7])
  BY <1>3
<1>5. IsSequence(s) /\ Len(s) = 1
  BY <1>1, Tuples
<1>6. IsConcat(x, s, t)  BY <1>1, <1>3, <1>5, Concatenation
<1>7. /\ IsSequence(x) /\ Len(x) = 8 /\ \A i \in 1 .. 1 : x[i] = s[i]
      /\ \A i \in 1 .. 7 : x[1 + i] = t[i]
  BY <1>3, <1>5, <1>6 DEF IsConcat
<1>8. /\ x[1] = s[1] /\ x[2] = t[1] /\ x[3] = t[2] /\ x[4] = t[3] /\ x[5] = t[4]
      /\ x[6] = t[5] /\ x[7] = t[6] /\ x[8] = t[7]
  BY <1>7
<1> QED  BY <1>1, <1>4, <1>7, <1>8 DEF LocalTokens

\* It is plain and gives its event.
LEMMA LocalEvent ==
  ASSUME NEW x, LocalTokens(x)
  PROVE  Plain(x) /\ Handle("ptp4l", x).event = "best"
<1>1. IsSequence(x) /\ Len(x) = 8  BY DEF LocalTokens
<1>2. \A i \in 1 .. 8 :
        i = 1 \/ i = 2 \/ i = 3 \/ i = 4 \/ i = 5 \/ i = 6 \/ i = 7 \/
        i = 8
  OBVIOUS
<1>3. /\ NoOffset(x[1]) /\ NoOffset(x[2]) /\ NoOffset(x[3]) /\ NoOffset(x[4])
      /\ NoOffset(x[5]) /\ NoOffset(x[6]) /\ NoOffset(x[7]) /\ NoOffset(x[8])
  BY NumbersNoOffset DEF LocalTokens
<1>4. Plain(x)  BY <1>1, <1>2, <1>3 DEF Plain, NumbersAreNumbers, NoOffset
<1>5. PICK f : f = <<Stamp, Lit("selected")>> \o <<Lit("local"), Lit("clock")>>
                     \o <<<<"word", "masterClockIdentity">>>>
  OBVIOUS
<1>6. LocalItems(f) /\ Complete(f, 2)  BY <1>5, LocalFormat, LocalCounted
<1>7. /\ Fits(f[1], x[1]) /\ Fits(f[2], x[2]) /\ Fits(f[3], x[3])
      /\ Fits(f[4], x[4]) /\ Fits(f[5], x[5])
  BY <1>6, TokensFit DEF LocalItems, LocalTokens
<1>8. Takes(f, x)
  <2>1. Len(f) = 5  BY <1>6 DEF LocalItems
  <2>2. \A i \in 1 .. 5 :
          i = 1 \/ i = 2 \/ i = 3 \/ i = 4 \/ i = 5
    OBVIOUS
  <2> QED  BY <1>1, <1>7, <2>1, <2>2 DEF Takes
<1>9. BestMaster(x).event = "best" /\ BestMaster(x) # NoEvent
  <2>1. 2 \in 1 .. Len(x) /\ x[2].text = "selected"  BY <1>1 DEF LocalTokens, W
  <2> QED  BY <1>1, <1>5, <1>8, <2>1, MeaningOfBest
<1>10. Ptp4lParsers(x)[5] = BestMaster(x)  BY DEF Ptp4lParsers
<1>11. 5 \in 1 .. 5  OBVIOUS
<1> QED  BY <1>4, <1>9, <1>10, <1>11, HandlerOfPtp4l

\* The summary of phc2sys: its tokens.
PhcRmsTokens(x) ==
  /\ IsSequence(x) /\ Len(x) = 14 /\ x[1] = Time /\ x[2] = W("CLOCK_REALTIME")
  /\ x[3] = W("rms") /\ x[4] = N("32") /\ x[5] = W("max") /\ x[6] = N("40")
  /\ x[7] = W("freq") /\ x[8] = N("+12") /\ x[9] = W("+/-") /\ x[10] = N("5")
  /\ x[11] = W("delay") /\ x[12] = N("90") /\ x[13] = W("+/-") /\ x[14] = N("16")

\* The line has them.
LEMMA PhcRmsLine ==
  PhcRmsTokens(<<Time, W("CLOCK_REALTIME")>> \o Rms)
<1>1. PICK s, t, x : s = <<Time, W("CLOCK_REALTIME")>> /\ t = Rms /\ x = s \o t
  OBVIOUS
<1>2. IsSequence(s) /\ IsSequence(t) /\ Len(s) = 2 /\ Len(t) = 12
  BY <1>1, Tuples DEF Rms
<1>3. IsConcat(x, s, t)  BY <1>1, <1>2, Concatenation
<1>4. /\ IsSequence(x) /\ Len(x) = 14 /\ \A i \in 1 .. 2 : x[i] = s[i]
      /\ \A i \in 1 .. 12 : x[2 + i] = t[i]
  BY <1>2, <1>3 DEF IsConcat
<1>5. /\ x[1] = s[1] /\ x[2] = s[2] /\ x[3] = t[1] /\ x[4] = t[2] /\ x[5] = t[3]
      /\ x[6] = t[4] /\ x[7] = t[5] /\ x[8] = t[6] /\ x[9] = t[7] /\ x[10] = t[8]
      /\ x[11] = t[9] /\ x[12] = t[10] /\ x[13] = t[11] /\ x[14] = t[12]
  BY <1>4
<1> QED  BY <1>1, <1>4, <1>5 DEF PhcRmsTokens, Rms

\* It is plain and gives its event.
LEMMA PhcRmsEvent ==
  ASSUME NEW x, PhcRmsTokens(x)
  PROVE  Plain(x) /\ Handle("phc2sys", x).event = "metrics"
<1>1. IsSequence(x) /\ Len(x) = 14  BY DEF PhcRmsTokens
<1>2. \A i \in 1 .. 14 :
        i = 1 \/ i = 2 \/ i = 3 \/ i = 4 \/ i = 5 \/ i = 6 \/ i = 7 \/
        i = 8 \/ i = 9 \/ i = 10 \/ i = 11 \/ i = 12 \/ i = 13 \/ i = 14
  OBVIOUS
<1>3. /\ NoOffset(x[1]) /\ NoOffset(x[2]) /\ NoOffset(x[3]) /\ NoOffset(x[4])
      /\ NoOffset(x[5]) /\ NoOffset(x[6]) /\ NoOffset(x[7]) /\ NoOffset(x[8])
      /\ NoOffset(x[9]) /\ NoOffset(x[10]) /\ NoOffset(x[11]) /\ NoOffset(x[12])
      /\ NoOffset(x[13]) /\ NoOffset(x[14])
  BY NumbersNoOffset DEF PhcRmsTokens
<1>4. Plain(x)  BY <1>1, <1>2, <1>3 DEF Plain, NumbersAreNumbers, NoOffset
<1>5. PICK f : f = <<Stamp, Skip>> \o RmsTail
  OBVIOUS
<1>6. PhcRmsItems(f) /\ Complete(f, 4)  BY <1>5, PhcRmsFormat, PhcRmsCounted
<1>7. /\ Fits(f[1], x[1]) /\ Fits(f[2], x[2]) /\ Fits(f[3], x[3])
      /\ Fits(f[4], x[4]) /\ Fits(f[5], x[5]) /\ Fits(f[6], x[6])
      /\ Fits(f[7], x[7]) /\ Fits(f[8], x[8]) /\ Fits(f[9], x[9])
      /\ Fits(f[10], x[10]) /\ Fits(f[11], x[11]) /\ Fits(f[12], x[12])
  BY <1>6, TokensFit DEF PhcRmsItems, PhcRmsTokens
<1>8. Takes(f, x)
  <2>1. Len(f) = 12  BY <1>6 DEF PhcRmsItems
  <2>2. \A i \in 1 .. 12 :
          i = 1 \/ i = 2 \/ i = 3 \/ i = 4 \/ i = 5 \/ i = 6 \/ i = 7 \/
          i = 8 \/ i = 9 \/ i = 10 \/ i = 11 \/ i = 12
    OBVIOUS
  <2> QED  BY <1>1, <1>7, <2>1, <2>2 DEF Takes
<1>9. Phc2sysMetrics(x).event = "metrics" /\ Phc2sysMetrics(x) # NoEvent
  BY <1>1, <1>5, <1>8, MeaningOfPhc2sys
<1>10. Handle("phc2sys", x) = Phc2sysMetrics(x)  BY <1>9 DEF Handle
<1> QED  BY <1>4, <1>9, <1>10

\* An offset of phc2sys: its tokens.
PhcOffsetTokens(x) ==
  /\ IsSequence(x) /\ Len(x) = 10 /\ x[1] = Time /\ x[2] = W("CLOCK_REALTIME")
  /\ x[3] = W("phc") /\ x[4] = W("offset") /\ x[5] = N("-21")
  /\ x[6] = [kind |-> "state", text |-> "s2"] /\ x[7] = W("freq") /\ x[8] = N("+32")
  /\ x[9] = W("delay") /\ x[10] = N("14")

\* The line has them.
LEMMA PhcOffsetLine ==
  PhcOffsetTokens(<<Time, W("CLOCK_REALTIME"), W("phc")>> \o Offset
                  \o <<W("delay"), N("14")>>)
<1>1. PICK s, t, u, y, x : /\ s = <<Time, W("CLOCK_REALTIME"), W("phc")>>
                           /\ t = Offset /\ u = <<W("delay"), N("14")>>
                           /\ y = s \o t /\ x = y \o u
  OBVIOUS
<1>2. /\ IsSequence(s) /\ IsSequence(t) /\ IsSequence(u) /\ Len(s) = 3 /\ Len(t) = 5
      /\ Len(u) = 2
  BY <1>1, Tuples DEF Offset
<1>3. IsConcat(y, s, t)  BY <1>1, <1>2, Concatenation
<1>4. /\ IsSequence(y) /\ Len(y) = 8 /\ \A i \in 1 .. 3 : y[i] = s[i]
      /\ \A i \in 1 .. 5 : y[3 + i] = t[i]
  BY <1>2, <1>3 DEF IsConcat
<1>5. IsConcat(x, y, u)  BY <1>1, <1>2, <1>4, Concatenation
<1>6. /\ IsSequence(x) /\ Len(x) = 10 /\ \A i \in 1 .. 8 : x[i] = y[i]
      /\ \A i \in 1 .. 2 : x[8 + i] = u[i]
  BY <1>2, <1>4, <1>5 DEF IsConcat
<1>7. /\ y[1] = s[1] /\ y[2] = s[2] /\ y[3] = s[3] /\ y[4] = t[1] /\ y[5] = t[2]
      /\ y[6] = t[3] /\ y[7] = t[4] /\ y[8] = t[5]
  BY <1>4
<1>8. /\ x[1] = y[1] /\ x[2] = y[2] /\ x[3] = y[3] /\ x[4] = y[4] /\ x[5] = y[5]
      /\ x[6] = y[6] /\ x[7] = y[7] /\ x[8] = y[8] /\ x[9] = u[1] /\ x[10] = u[2]
  BY <1>6
<1> QED  BY <1>1, <1>6, <1>7, <1>8 DEF PhcOffsetTokens, Offset

\* It is plain and gives its event.
LEMMA PhcOffsetEvent ==
  ASSUME NEW x, PhcOffsetTokens(x)
  PROVE  Plain(x) /\ Handle("phc2sys", x).event = "metrics"
<1>1. IsSequence(x) /\ Len(x) = 10  BY DEF PhcOffsetTokens
<1>2. \A i \in 1 .. 10 :
        i = 1 \/ i = 2 \/ i = 3 \/ i = 4 \/ i = 5 \/ i = 6 \/ i = 7 \/
        i = 8 \/ i = 9 \/ i = 10
  OBVIOUS
<1>3. /\ NoOffset(x[1]) /\ NoOffset(x[2]) /\ NoOffset(x[3]) /\ NoOffset(x[4])
      /\ NoOffset(x[5]) /\ NoOffset(x[6]) /\ NoOffset(x[7]) /\ NoOffset(x[8])
      /\ NoOffset(x[9]) /\ NoOffset(x[10])
  BY NumbersNoOffset DEF PhcOffsetTokens
<1>4. Plain(x)  BY <1>1, <1>2, <1>3 DEF Plain, NumbersAreNumbers, NoOffset
<1>5. PICK f : f = <<Stamp, Skip, Skip>> \o OffsetTail
                     \o <<Lit("delay"), <<"num", "path_delay">>>>
  OBVIOUS
<1>6. PhcOffsetItems(f) /\ Complete(f, 5)  BY <1>5, PhcOffsetFormat, PhcOffsetCounted
<1>7. /\ Fits(f[1], x[1]) /\ Fits(f[2], x[2]) /\ Fits(f[3], x[3])
      /\ Fits(f[4], x[4]) /\ Fits(f[5], x[5]) /\ Fits(f[6], x[6])
      /\ Fits(f[7], x[7]) /\ Fits(f[8], x[8]) /\ Fits(f[9], x[9])
      /\ Fits(f[10], x[10])
  BY <1>6, TokensFit, ZenonT(60) DEF PhcOffsetItems, PhcOffsetTokens
<1>8. Takes(f, x)
  <2>1. Len(f) = 10  BY <1>6 DEF PhcOffsetItems
  <2> QED  BY <1>1, <1>2, <1>7, <2>1 DEF Takes
<1>9. Phc2sysMetrics(x).event = "metrics" /\ Phc2sysMetrics(x) # NoEvent
  BY <1>1, <1>5, <1>8, MeaningOfPhc2sys
<1>10. Handle("phc2sys", x) = Phc2sysMetrics(x)  BY <1>9 DEF Handle
<1> QED  BY <1>4, <1>9, <1>10

\* phc2sys waits: its tokens.
WaitingTokens(x) ==
  /\ IsSequence(x) /\ Len(x) = 4 /\ x[1] = Time /\ x[2] = W("Waiting")
  /\ x[3] = W("for") /\ x[4] = W("ptp4l")

\* The line has them.
LEMMA WaitingLine ==
  WaitingTokens(<<Time>> \o Words(<<"Waiting", "for", "ptp4l">>))
<1>1. PICK s, t, w, x : /\ s = <<Time>> /\ t = Words(w)
                        /\ w = <<"Waiting", "for", "ptp4l">> /\ x = s \o t
  OBVIOUS
<1>2. IsSequence(w) /\ Len(w) = 3  BY <1>1, Tuples
<1>3. /\ IsSequence(t) /\ Len(t) = 3
      /\ \A i \in 1 .. 3 : t[i] = W(w[i])
  BY <1>1, <1>2, WordsAreWords DEF Plain
<1>4. t[1] = W(w[1]) /\ t[2] = W(w[2]) /\ t[3] = W(w[3])
  BY <1>3
<1>5. IsSequence(s) /\ Len(s) = 1
  BY <1>1, Tuples
<1>6. IsConcat(x, s, t)  BY <1>1, <1>3, <1>5, Concatenation
<1>7. /\ IsSequence(x) /\ Len(x) = 4 /\ \A i \in 1 .. 1 : x[i] = s[i]
      /\ \A i \in 1 .. 3 : x[1 + i] = t[i]
  BY <1>3, <1>5, <1>6 DEF IsConcat
<1>8. x[1] = s[1] /\ x[2] = t[1] /\ x[3] = t[2] /\ x[4] = t[3]
  BY <1>7
<1> QED  BY <1>1, <1>4, <1>7, <1>8 DEF WaitingTokens

\* It is plain and gives its event.
LEMMA WaitingEvent ==
  ASSUME NEW x, WaitingTokens(x)
  PROVE  Plain(x) /\ Handle("phc2sys", x).event = "waiting"
<1>1. IsSequence(x) /\ Len(x) = 4  BY DEF WaitingTokens
<1>2. \A i \in 1 .. 4 :
        i = 1 \/ i = 2 \/ i = 3 \/ i = 4
  OBVIOUS
<1>3. NoOffset(x[1]) /\ NoOffset(x[2]) /\ NoOffset(x[3]) /\ NoOffset(x[4])
  BY NumbersNoOffset DEF WaitingTokens
<1>4. Plain(x)  BY <1>1, <1>2, <1>3 DEF Plain, NumbersAreNumbers, NoOffset
<1>5. PICK f, h :
        /\ f = <<Stamp, Skip>> \o RmsTail
        /\ h = <<Stamp, Skip, Skip>> \o OffsetTail \o <<Lit("delay"), <<"num", "path_delay">>>>
  OBVIOUS
<1>6. Len(f) = 12 /\ Len(h) = 10
  BY <1>5, PhcRmsFormat, PhcOffsetFormat DEF PhcRmsItems, PhcOffsetItems
<1>7. ~Takes(f, x) /\ ~Takes(h, x)  BY <1>1, <1>6 DEF Takes
<1>8. Phc2sysMetrics(x) = NoEvent  BY <1>1, <1>5, <1>7, MeaningOfPhc2sys
<1>9. Mentions(x, <<"Waiting", "for", "ptp4l">>)
  <2>1. x[2].text = "Waiting" /\ x[3].text = "for" /\ x[4].text = "ptp4l"
    BY DEF WaitingTokens, W
  <2>2. 2 \in 1 .. 4 - 2 /\ 2 + 1 = 3 /\ 2 + 2 = 4  OBVIOUS
  <2> QED  BY <1>1, <2>1, <2>2, MentionsWords
<1>10. Handle("phc2sys", x).event = "waiting"  BY <1>8, <1>9 DEF Handle
<1> QED  BY <1>4, <1>10

\* A line of ppswatch: its tokens.
PpsTokens(x) ==
  /\ IsSequence(x) /\ Len(x) = 6 /\ x[1] = W("timestamp:")
  /\ x[2] = [kind |-> "numcomma", text |-> "9"] /\ x[3] = W("sequence:")
  /\ x[4] = [kind |-> "numcomma", text |-> "3"] /\ x[5] = W("offset:")
  /\ x[6] = N("-6")

\* The line has them.
LEMMA PpsLine ==
  PpsTokens(<<W("timestamp:"), [kind |-> "numcomma", text |-> "9"],
              W("sequence:"), [kind |-> "numcomma", text |-> "3"],
              W("offset:"), N("-6")>>)
BY Tuples DEF PpsTokens

\* It is plain and gives its event.
LEMMA PpsEvent ==
  ASSUME NEW x, PpsTokens(x)
  PROVE  Plain(x) /\ Handle("ppswatch", x).event = "metrics"
<1>1. IsSequence(x) /\ Len(x) = 6  BY DEF PpsTokens
<1>2. \A i \in 1 .. 6 :
        i = 1 \/ i = 2 \/ i = 3 \/ i = 4 \/ i = 5 \/ i = 6
  OBVIOUS
<1>3. /\ NoOffset(x[1]) /\ NoOffset(x[2]) /\ NoOffset(x[3]) /\ NoOffset(x[4])
      /\ NoOffset(x[5]) /\ NoOffset(x[6])
  BY NumbersNoOffset DEF PpsTokens
<1>4. Plain(x)  BY <1>1, <1>2, <1>3 DEF Plain, NumbersAreNumbers, NoOffset
<1>5. PICK f : f = <<Lit("timestamp:"), <<"numcomma", "timestamp">>,
                    Lit("sequence:"), <<"numcomma", "sequence">>,
                    Lit("offset:"), <<"num", "offset">>>>
  OBVIOUS
<1>6. PpsItems(f) /\ Complete(f, 3)  BY <1>5, PpsFormat, PpsCounted
<1>7. /\ Fits(f[1], x[1]) /\ Fits(f[2], x[2]) /\ Fits(f[3], x[3])
      /\ Fits(f[4], x[4]) /\ Fits(f[5], x[5]) /\ Fits(f[6], x[6])
  BY <1>6, TokensFit DEF PpsItems, PpsTokens
<1>8. Takes(f, x)
  <2>1. Len(f) = 6  BY <1>6 DEF PpsItems
  <2> QED  BY <1>1, <1>2, <1>7, <2>1 DEF Takes
<1>9. PpsMetrics(x) = Scan("metrics", f, 3, x)  BY <1>5 DEF PpsMetrics
<1>10. PpsMetrics(x).event = "metrics"
  <2>1. "metrics" # "none"  OBVIOUS
  <2> QED  BY <1>1, <1>6, <1>8, <1>9, <2>1, TakenIsEvent
<1>11. Handle("ppswatch", x) = PpsMetrics(x)  BY DEF Handle
<1> QED  BY <1>4, <1>10, <1>11
\* The lines the programs write are plain and give their events.
LEMMA EventsOfLines ==
  ASSUME NEW known \in Lines
  PROVE  Plain(known[3]) /\ Handle(known[1], known[3]).event = known[2]
<1>1. PICK r, o, p, f :
        /\ r = <<Time>> \o Rms
        /\ o = <<Time, W("master")>> \o Offset \o <<W("path"), W("delay"), N("7")>>
        /\ p = Port1 \o Words(<<"LISTENING", "to", "SLAVE", "on", "SELECTED">>)
        /\ f = Port1 \o Words(<<"new", "foreign", "master">>)
                 \o <<[kind |-> "portid", text |-> "e0d4-1"]>>
  OBVIOUS
<1>2. PICK m, c :
        /\ m = <<Time>> \o Words(<<"selected", "best", "master", "clock", "e0d4">>)
        /\ c = <<Time>> \o Words(<<"selected", "local", "clock", "e0d4", "as", "best", "master">>)
  OBVIOUS
<1>3. PICK pr, po, w, t :
        /\ pr = <<Time, W("CLOCK_REALTIME")>> \o Rms
        /\ po = <<Time, W("CLOCK_REALTIME"), W("phc")>> \o Offset \o <<W("delay"), N("14")>>
        /\ w = <<Time>> \o Words(<<"Waiting", "for", "ptp4l">>)
        /\ t = <<W("timestamp:"), [kind |-> "numcomma", text |-> "9"], W("sequence:"),
                 [kind |-> "numcomma", text |-> "3"], W("offset:"), N("-6")>>
  OBVIOUS
<1>4. /\ Plain(r) /\ Handle("ptp4l", r).event = "metrics"
      /\ Plain(o) /\ Handle("ptp4l", o).event = "metrics"
      /\ Plain(p) /\ Handle("ptp4l", p).event = "port"
      /\ Plain(f) /\ Handle("ptp4l", f).event = "foreign"
  BY <1>1, RmsLine, RmsEvent, OffsetLine, OffsetEvent, PortLine, PortEvent, ForeignLine,
     ForeignEvent
<1>5. /\ Plain(m) /\ Handle("ptp4l", m).event = "best"
      /\ Plain(c) /\ Handle("ptp4l", c).event = "best"
  BY <1>2, BestLine, BestEvent, LocalLine, LocalEvent
<1>6. /\ Plain(pr) /\ Handle("phc2sys", pr).event = "metrics"
      /\ Plain(po) /\ Handle("phc2sys", po).event = "metrics"
      /\ Plain(w) /\ Handle("phc2sys", w).event = "waiting"
      /\ Plain(t) /\ Handle("ppswatch", t).event = "metrics"
  BY <1>3, PhcRmsLine, PhcRmsEvent, PhcOffsetLine, PhcOffsetEvent, WaitingLine, WaitingEvent,
     PpsLine, PpsEvent
<1>7. \/ known = <<"ptp4l", "metrics", r>> \/ known = <<"ptp4l", "metrics", o>>
      \/ known = <<"ptp4l", "port", p>> \/ known = <<"ptp4l", "foreign", f>>
      \/ known = <<"ptp4l", "best", m>> \/ known = <<"ptp4l", "best", c>>
      \/ known = <<"phc2sys", "metrics", pr>> \/ known = <<"phc2sys", "metrics", po>>
      \/ known = <<"phc2sys", "waiting", w>> \/ known = <<"ppswatch", "metrics", t>>
  BY <1>1, <1>2, <1>3 DEF Lines
<1>8. ASSUME NEW unit, NEW event, NEW line, known = <<unit, event, line>>
      PROVE  known[1] = unit /\ known[2] = event /\ known[3] = line
  BY <1>8
<1> QED  BY <1>4, <1>5, <1>6, <1>7, <1>8

\* The units whose lines are read.
LEMMA UnitsOfLines ==
  ASSUME NEW known \in Lines
  PROVE  known[1] \in {"ptp4l", "phc2sys", "ppswatch"}
BY DEF Lines

\* A step that gives a line is that of the line parsers.
LEMMA LineStep ==
  ASSUME ParsersNext, subject' = "line"
  PROVE  ParseLine
<1>1. "line" # "proc" /\ "line" # "adapter" /\ "line" # "hwmon" /\ "line" # "topology"
  OBVIOUS
<1> QED
  BY <1>1 DEF ParsersNext, ReadProc, ResolveAdapter, ScanHwmon, ParseTopology, Run

\* Every field of a run's lines stands behind its word, and an undamaged line
\* gives its event (FieldsAreLabelled).
THEOREM FieldsAreLabelledHolds == ParsersSpec => []FieldsAreLabelled
<1>1. ParsersInit => FieldsAreLabelled
  BY DEF ParsersInit, FieldsAreLabelled
<1>2. FieldsAreLabelled /\ [ParsersNext]_<<subject, input, outcome>> => FieldsAreLabelled'
  <2> DEFINE Holds(what, arguments, value) ==
               what = "line" =>
                 /\ arguments.whole => value.event = arguments.event
                 /\ InLine(value.fields, arguments.line)
  <2>1. /\ FieldsAreLabelled <=> Holds(subject, input, outcome)
        /\ FieldsAreLabelled' <=> Holds(subject', input', outcome')
    BY DEF FieldsAreLabelled, InLine
  <2>2. CASE UNCHANGED <<subject, input, outcome>>
    <3> HIDE DEF Holds
    <3> QED  BY <2>1, <2>2
  <2>3. ASSUME ParsersNext, subject' = "line"
        PROVE  /\ input'.whole => outcome'.event = input'.event
               /\ InLine(outcome'.fields, input'.line)
    <3>1. ParseLine  BY <2>3, LineStep
    <3>2. PICK known \in Lines : \E line \in Damaged(known[3]) :
            /\ input' = [unit |-> known[1], line |-> line, whole |-> line = known[3],
                         event |-> known[2]]
            /\ outcome' = Handle(known[1], line)
      BY <3>1 DEF ParseLine, Run
    <3>3. PICK line \in Damaged(known[3]) :
            /\ input' = [unit |-> known[1], line |-> line, whole |-> line = known[3],
                         event |-> known[2]]
            /\ outcome' = Handle(known[1], line)
      BY <3>2
    <3>4. Plain(line)  BY EventsOfLines, DamagedIsPlain
    <3>5. InLine(outcome'.fields, line)
      BY <3>3, <3>4, UnitsOfLines, FieldsOfAnyLine DEF Plain
    <3>6. line = known[3] => outcome'.event = known[2]  BY <3>3, EventsOfLines
    <3> QED  BY <3>3, <3>5, <3>6
  <2> QED  BY <2>1, <2>2, <2>3
<1> QED  BY <1>1, <1>2, PTL DEF ParsersSpec

\* At most one parser of ptp4l takes a line of a run (OneMeaning).
THEOREM OneMeaningHolds == ParsersSpec => []OneMeaning
<1>1. ParsersInit => OneMeaning
  BY DEF ParsersInit, OneMeaning
<1>2. OneMeaning /\ [ParsersNext]_<<subject, input, outcome>> => OneMeaning'
  <2> DEFINE Holds(what, arguments) ==
               what = "line" =>
                 \A i, j \in 1 .. 5 :
                   /\ Ptp4lParsers(arguments.line)[i] # NoEvent
                   /\ Ptp4lParsers(arguments.line)[j] # NoEvent
                   => i = j
  <2>1. \A line : DOMAIN Ptp4lParsers(line) = 1 .. 5  BY DEF Ptp4lParsers
  <2>2. /\ OneMeaning <=> Holds(subject, input)
        /\ OneMeaning' <=> Holds(subject', input')
    BY <2>1 DEF OneMeaning
  <2>3. CASE UNCHANGED <<subject, input, outcome>>
    <3> HIDE DEF Holds
    <3> QED  BY <2>2, <2>3
  <2>4. ASSUME ParsersNext, subject' = "line", NEW i \in 1 .. 5, NEW j \in 1 .. 5,
               Ptp4lParsers(input'.line)[i] # NoEvent,
               Ptp4lParsers(input'.line)[j] # NoEvent
        PROVE  i = j
    <3>1. ParseLine  BY <2>4, LineStep
    <3>2. PICK known \in Lines : \E line \in Damaged(known[3]) :
            input' = [unit |-> known[1], line |-> line, whole |-> line = known[3],
                      event |-> known[2]]
      BY <3>1 DEF ParseLine, Run
    <3>3. PICK line \in Damaged(known[3]) :
            input' = [unit |-> known[1], line |-> line, whole |-> line = known[3],
                      event |-> known[2]]
      BY <3>2
    <3>4. Plain(line)  BY EventsOfLines, DamagedIsPlain
    <3>5. input'.line = line  BY <3>3
    <3> QED  BY <2>4, <3>4, <3>5, OneMeaningOfAnyLine DEF Plain
  <2> QED  BY <2>2, <2>3, <2>4
<1> QED  BY <1>1, <1>2, PTL DEF ParsersSpec
=============================================================================
