------------------------ MODULE SnapshotBuildProofs ------------------------
(***************************************************************************)
(* Proofs about the construction of a snapshot: the depth-first walk of    *)
(* validateDependencyGraph accepts only graphs without a cycle, and gives  *)
(* a cycle or an excess of depth as its reason only where there is one,    *)
(* for any definitions and whatever order the maps are ranged over.        *)
(***************************************************************************)
EXTENDS SnapshotBuild, NaturalNumbers, FiniteSetTheorems, SequenceTheorems, TLAPS

\* A step that names no prover is tried with the SMT solver, with Zenon, and with the
\* solver for longer.
USE SMTT(10), Zenon, SMTT(30)

\* What it is to be a list, and what is one.
LEMMA ListFacts ==
  ASSUME NEW s
  PROVE  /\ IsList(s) => Len(s) \in Nat /\ DOMAIN s = 1..Len(s) /\ s = [i \in 1..Len(s) |-> s[i]]
         /\ \A n \in Nat : s = [i \in 1..n |-> s[i]] => IsList(s) /\ Len(s) = n
         /\ \A S : s \in Seq(S) => IsList(s) /\ ToSet(s) \subseteq S
<1>1. IsList(s) => Len(s) \in Nat /\ DOMAIN s = 1..Len(s) /\ s = [i \in 1..Len(s) |-> s[i]]
  BY DEF IsList
<1>2. ASSUME NEW n \in Nat, s = [i \in 1..n |-> s[i]] PROVE IsList(s) /\ Len(s) = n
  <2>1. DOMAIN s = 1..n
    BY <1>2
  <2>2. \A i \in 1..n : s[i] \in ToSet(s)
    BY <2>1 DEF ToSet, Range
  <2>3. s \in [1..n -> ToSet(s)]
    BY <1>2, <2>2
  <2> QED
    BY <2>1, <2>3 DEF IsList
<1>3. ASSUME NEW S, s \in Seq(S) PROVE IsList(s) /\ ToSet(s) \subseteq S
  <2>1. Len(s) \in Nat /\ s = [i \in 1..Len(s) |-> s[i]] /\ DOMAIN s = 1..Len(s)
    BY <1>3
  <2>2. IsList(s)
    BY <1>2, <2>1
  <2> QED
    BY <1>3, <2>1, <2>2 DEF ToSet, Range
<1> QED
  BY <1>1, <1>2, <1>3

-----------------------------------------------------------------------------
(* The dependency graph                                                    *)

\* The keys a definition depends on.
TargetsOf(defs, x) == {defs[x].dependencies[j].key : j \in DOMAIN defs[x].dependencies}
Closed(defs) == \A x \in DOMAIN defs : TargetsOf(defs, x) \subseteq DOMAIN defs

\* The keys n dependencies away, in a graph whose dependencies are all stored.
LEMMA AwaySteps ==
  ASSUME NEW defs, NEW k \in DOMAIN defs, Closed(defs)
  PROVE  /\ Away(defs, k, 0) = {k}
         /\ \A n \in Nat : /\ Away(defs, k, n) \subseteq DOMAIN defs
                           /\ Away(defs, k, n + 1) = UNION {TargetsOf(defs, x) : x \in Away(defs, k, n)}
<1> DEFINE X == SUBSET DOMAIN defs
           Over(A) == UNION {TargetsOf(defs, x) : x \in A}
           F == [A \in X |-> Over(A)]
           Fronts(f) == f = [i \in Nat |-> IF i = 0 THEN {k} ELSE Over(f[i - 1])]
           front == CHOOSE f : Fronts(f)
<1>1. \A A \in X : Over(A) \in X
  BY DEF Closed
<1>2. F \in [X -> X] /\ {k} \in X
  <2> HIDE DEF Over
  <2> QED
    BY <1>1
<1>3. PICK f \in [Nat -> X] : f[0] = {k} /\ \A n \in Nat : f[n + 1] = F[f[n]]
  <2> DEFINE x == {k}
  <2>1. x \in X
    BY <1>2
  <2> HIDE DEF F, X, x
  <2>2. \E f \in [Nat -> X] : Iterates(f, F, x)
    BY <1>2, <2>1, Iteration
  <2> QED
    BY <2>2 DEF x, Iterates
<1>4. ASSUME NEW n \in Nat, n # 0 PROVE f[n] = Over(f[n - 1])
  <2>1. n - 1 \in Nat /\ (n - 1) + 1 = n
    BY <1>4
  <2>2. f[n] = F[f[n - 1]] /\ f[n - 1] \in X
    <3> HIDE DEF F, X
    <3> QED
      BY <1>3, <2>1
  <2> HIDE DEF Over, X
  <2> QED
    BY <2>2
<1>5. Fronts(f)
  <2>1. f = [n \in Nat |-> f[n]]
    BY <1>3
  <2> HIDE DEF Over
  <2> QED
    BY <1>3, <1>4, <2>1
<1>6. Fronts(front)
  <2> HIDE DEF Fronts
  <2> QED
    BY <1>5
<1>7. \A n \in Nat : Away(defs, k, n) = front[n]
  BY DEF Away, TargetsOf
<1>8. front[0] = {k} /\ \A n \in Nat : front[n + 1] = Over(front[n])
  <2>1. \A n \in Nat : n + 1 \in Nat /\ n + 1 # 0 /\ (n + 1) - 1 = n
    OBVIOUS
  <2> HIDE DEF front, Over
  <2> QED
    BY <1>6, <2>1, Zenon
<1> HIDE DEF front
<1> DEFINE S == {n \in Nat : front[n] \in X}
<1>9. S = Nat
  <2>1. 0 \in S
    BY <1>8
  <2>2. ASSUME NEW n \in S PROVE n + 1 \in S
    <3>1. n \in Nat /\ front[n] \in X
      BY <2>2
    <3> HIDE DEF X, Over
    <3>2. front[n + 1] \in X /\ n + 1 \in Nat
      BY <1>1, <1>8, <3>1
    <3> QED
      BY <3>2
  <2>3. S \in SUBSET Nat
    OBVIOUS
  <2> HIDE DEF S
  <2> QED
    BY <2>1, <2>2, <2>3, Induction
<1>10. \A n \in Nat : front[n] \subseteq DOMAIN defs
  BY <1>9
<1> QED
  BY <1>7, <1>8, <1>10

\* Along a chain of dependencies, the key n places on is n dependencies away.
LEMMA AwayChain ==
  ASSUME NEW defs, Closed(defs), NEW m \in Nat, NEW x \in [1..m -> DOMAIN defs],
         \A i \in 1..(m - 1) : x[i + 1] \in TargetsOf(defs, x[i])
  PROVE  \A i \in 1..m : \A n \in 0..(m - i) : x[i + n] \in Away(defs, x[i], n)
<1> SUFFICES ASSUME NEW i \in 1..m
             PROVE  \A n \in 0..(m - i) : x[i + n] \in Away(defs, x[i], n)
  OBVIOUS
<1> DEFINE S == {n \in Nat : n <= m - i => x[i + n] \in Away(defs, x[i], n)}
<1>1. x[i] \in DOMAIN defs
  OBVIOUS
<1>2. 0 \in S
  <2>1. i + 0 = i
    OBVIOUS
  <2> QED
    BY <1>1, <2>1, AwaySteps
<1>3. ASSUME NEW n \in S PROVE n + 1 \in S
  <2>0. n \in Nat
    BY <1>3
  <2> SUFFICES ASSUME n + 1 <= m - i PROVE x[i + (n + 1)] \in Away(defs, x[i], n + 1)
    BY <2>0
  <2>1. n <= m - i /\ i + n \in 1..(m - 1) /\ i + (n + 1) = (i + n) + 1
    BY <2>0
  <2>2. x[i + n] \in Away(defs, x[i], n)
    BY <1>3, <2>1
  <2>3. x[(i + n) + 1] \in TargetsOf(defs, x[i + n])
    BY <2>1
  <2>4. Away(defs, x[i], n + 1) = UNION {TargetsOf(defs, y) : y \in Away(defs, x[i], n)}
    BY <1>1, <2>0, AwaySteps
  <2> QED
    BY <2>1, <2>2, <2>3, <2>4
<1>4. S = Nat
  <2>1. S \in SUBSET Nat
    OBVIOUS
  <2> HIDE DEF S
  <2> QED
    BY <1>2, <1>3, <2>1, Induction
<1>5. ASSUME NEW n \in 0..(m - i) PROVE x[i + n] \in Away(defs, x[i], n)
  <2>1. n \in S /\ n <= m - i
    BY <1>4
  <2> QED
    BY <2>1
<1> QED
  BY <1>5

\* A list in which every key comes after the keys it depends on.
Ordered(defs, v) ==
  \A i \in 1..Len(v) : \A y \in TargetsOf(defs, v[i]) : \E j \in 1..(i - 1) : v[j] = y

\* A graph whose keys can all be listed in that order has no cycle: from the first
\* place of a key the dependencies only lead to earlier places.
LEMMA OrderedAcyclic ==
  ASSUME NEW defs, Closed(defs), IsFiniteSet(DOMAIN defs),
         NEW v \in Seq(DOMAIN defs), DOMAIN defs \subseteq ToSet(v), Ordered(defs, v)
  PROVE  ~Cyclic(defs)
<1> SUFFICES ASSUME Cyclic(defs) PROVE FALSE
  OBVIOUS
<1>1. PICK k \in DOMAIN defs : \E n \in 1..Cardinality(DOMAIN defs) : k \in Away(defs, k, n)
  BY DEF Cyclic
<1>2. PICK n \in Nat : k \in Away(defs, k, n + 1)
  <2>1. Cardinality(DOMAIN defs) \in Nat
    BY FS_CardinalityType
  <2>2. PICK m \in 1..Cardinality(DOMAIN defs) : k \in Away(defs, k, m)
    BY <1>1
  <2>3. m - 1 \in Nat /\ (m - 1) + 1 = m
    BY <2>1
  <2> QED
    BY <2>2, <2>3
<1> DEFINE I == {i \in Nat : i \in 1..Len(v) /\ v[i] = k}
<1>3. Len(v) \in Nat /\ DOMAIN v = 1..Len(v)
  OBVIOUS
<1>4. I \in SUBSET Nat /\ I # {}
  <2>1. PICK i \in DOMAIN v : v[i] = k
    BY DEF ToSet, Range
  <2>2. i \in I
    BY <1>3, <2>1
  <2> QED
    BY <2>2
<1>5. PICK i \in I : \A j \in I : i <= j
  <2> HIDE DEF I
  <2> QED
    BY <1>4, Smallest
<1>6. i \in 1..Len(v) /\ v[i] = k /\ \A j \in 1..Len(v) : v[j] = k => i <= j
  BY <1>3, <1>5
<1> HIDE DEF I
<1> DEFINE S == {m \in Nat : \A y \in Away(defs, k, m + 1) : \E j \in 1..(i - 1) : v[j] = y}
<1>7. 0 \in S
  <2>1. 0 \in Nat /\ Away(defs, k, 0) = {k}
        /\ Away(defs, k, 0 + 1) = UNION {TargetsOf(defs, x) : x \in Away(defs, k, 0)}
    BY AwaySteps
  <2>2. \A y \in Away(defs, k, 0 + 1) : \E j \in 1..(i - 1) : v[j] = y
    <3>1. Away(defs, k, 0 + 1) = TargetsOf(defs, k)
      BY <2>1, Zenon
    <3> QED
      BY <1>6, <3>1, Zenon DEF Ordered
  <2> QED
    BY <2>2
<1>8. ASSUME NEW m \in S PROVE m + 1 \in S
  <2>1. m \in Nat /\ m + 1 \in Nat /\ \A y \in Away(defs, k, m + 1) : \E j \in 1..(i - 1) : v[j] = y
    BY <1>8
  <2>2. Away(defs, k, (m + 1) + 1) = UNION {TargetsOf(defs, x) : x \in Away(defs, k, m + 1)}
    BY <2>1, AwaySteps
  <2>3. ASSUME NEW y \in Away(defs, k, (m + 1) + 1) PROVE \E j \in 1..(i - 1) : v[j] = y
    <3>1. PICK x \in Away(defs, k, m + 1) : y \in TargetsOf(defs, x)
      BY <2>2
    <3>2. PICK j \in 1..(i - 1) : v[j] = x
      BY <2>1
    <3>3. j \in 1..Len(v)
      BY <1>3, <1>6
    <3>4. PICK h \in 1..(j - 1) : v[h] = y
      BY <3>1, <3>2, <3>3, Zenon DEF Ordered
    <3>5. h \in 1..(i - 1)
      BY <1>3, <1>6
    <3> QED
      BY <3>4, <3>5
  <2> QED
    BY <2>1, <2>3
<1>9. S = Nat
  <2>1. S \in SUBSET Nat
    OBVIOUS
  <2> HIDE DEF S
  <2> QED
    BY <1>7, <1>8, <2>1, Induction, Zenon
<1>10. PICK j \in 1..(i - 1) : v[j] = k
  <2>1. n \in S
    BY <1>9, Zenon
  <2> QED
    BY <1>2, <2>1
<1>11. j \in 1..Len(v) /\ ~(i <= j)
  BY <1>3, <1>6
<1> QED
  BY <1>6, <1>10, <1>11

-----------------------------------------------------------------------------
(* The dependency walk                                                     *)

\* A graph that has passed the first loop of validateDependencyGraph.
Graph(D) ==
  /\ IsFiniteSet(DOMAIN D) /\ Closed(D)
  /\ \A k \in DOMAIN D : IsList(D[k].dependencies)

Frames(D) == [key : DOMAIN D, next : Nat \ {0}]
Edges(D, k) == D[k].dependencies

\* The inductive invariant of the walk, for the keys ranged over, the keys visited and
\* the active calls p.  The keys visited are in order; a key ranged over is visited or
\* is the outermost call; no two calls are for one key; each call has visited the
\* dependencies before its next one, save the last of these, which the call above it
\* is for.
WalkOK(D, r, v, p) ==
  /\ v \in Seq(DOMAIN D) /\ p \in Seq(Frames(D))
  /\ Ordered(D, v)
  /\ \A k \in r : k \in ToSet(v) \/ (p # <<>> /\ p[1].key = k)
  /\ \A i, j \in 1..Len(p) : p[i].key = p[j].key => i = j
  /\ \A i \in 1..Len(p) : p[i].next <= Len(Edges(D, p[i].key)) + 1
  /\ \A i \in 1..Len(p) : \A j \in 1..(p[i].next - 1) :
       Edges(D, p[i].key)[j].key \in ToSet(v) \/ (i < Len(p) /\ j = p[i].next - 1)
  /\ \A i \in 1..(Len(p) - 1) :
       p[i].next >= 2 /\ Edges(D, p[i].key)[p[i].next - 1].key = p[i + 1].key

\* The innermost call and the calls around it.
LEMMA Stack ==
  ASSUME NEW S, NEW p \in Seq(S), p # <<>>
  PROVE  /\ Len(p) \in Nat \ {0} /\ Last(p) = p[Len(p)] /\ Last(p) \in S
         /\ Front(p) \in Seq(S) /\ Len(Front(p)) = Len(p) - 1
         /\ \A i \in 1..(Len(p) - 1) : Front(p)[i] = p[i]
<1>1. Len(p) \in Nat \ {0} /\ Last(p) = p[Len(p)] /\ Len(p) \in 1..Len(p)
  BY EmptySeq DEF Last
<1>2. Last(p) \in S
  BY <1>1
<1> DEFINE m == Len(p) - 1
           q == SubSeq(p, 1, m)
<1>3. 1 \in Int /\ m \in Nat /\ \A i \in 1..m : p[i] \in S
  BY <1>1
<1>4. q \in Seq(S) /\ Len(q) = m /\ \A i \in 1..m : q[i] = p[i]
  <2> HIDE DEF m
  <2>1. /\ SubSeq(p, 1, m) \in Seq(S)
        /\ Len(SubSeq(p, 1, m)) = IF 1 <= m THEN m - 1 + 1 ELSE 0
        /\ \A i \in 1..(m - 1 + 1) : SubSeq(p, 1, m)[i] = p[1 + i - 1]
    BY <1>3, SubSeqProperties
  <2>2. m - 1 + 1 = m /\ (~(1 <= m) => m = 0) /\ \A i \in 1..m : 1 + i - 1 = i
    BY <1>3
  <2> QED
    BY <2>1, <2>2
<1> QED
  BY <1>1, <1>2, <1>4 DEF Front

\* A list with one more entry.
LEMMA Appended ==
  ASSUME NEW S, NEW p \in Seq(S), NEW x \in S
  PROVE  /\ Append(p, x) \in Seq(S) /\ Len(Append(p, x)) = Len(p) + 1 /\ Len(p) \in Nat
         /\ \A i \in 1..Len(p) : Append(p, x)[i] = p[i]
         /\ Append(p, x)[Len(p) + 1] = x
         /\ ToSet(Append(p, x)) = ToSet(p) \cup {x}
<1>1. /\ Append(p, x) \in Seq(S) /\ Len(Append(p, x)) = Len(p) + 1 /\ Len(p) \in Nat
      /\ \A i \in 1..Len(p) : Append(p, x)[i] = p[i]
      /\ Append(p, x)[Len(p) + 1] = x
  OBVIOUS
<1>2. DOMAIN p = 1..Len(p) /\ DOMAIN Append(p, x) = 1..(Len(p) + 1)
  BY <1>1
<1>3. \A i : i \in 1..(Len(p) + 1) <=> i \in 1..Len(p) \/ i = Len(p) + 1
  BY <1>1
<1>4. ToSet(Append(p, x)) = ToSet(p) \cup {x}
  BY <1>1, <1>2, <1>3 DEF ToSet, Range
<1> QED
  BY <1>1, <1>4

\* A call that has visited all its dependencies returns.
LEMMA LeaveWalk ==
  ASSUME NEW D, Graph(D), NEW r, NEW v, NEW p, WalkOK(D, r, v, p), p # <<>>,
         Last(p).next > Len(Edges(D, Last(p).key))
  PROVE  WalkOK(D, r, Append(v, Last(p).key), Front(p))
<1> DEFINE n == Len(p)
           k == p[n].key
           w == Append(v, k)
           q == Front(p)
<1>1. p \in Seq(Frames(D)) /\ v \in Seq(DOMAIN D)
  BY DEF WalkOK
<1>2. /\ n \in Nat \ {0} /\ Last(p) = p[n] /\ p[n] \in Frames(D)
      /\ q \in Seq(Frames(D)) /\ Len(q) = n - 1 /\ \A i \in 1..(n - 1) : q[i] = p[i]
  BY <1>1, Stack, Zenon
<1>3. k \in DOMAIN D /\ p[n].next \in Nat \ {0} /\ n \in 1..n
  BY <1>2 DEF Frames
<1>4. /\ w \in Seq(DOMAIN D) /\ Len(w) = Len(v) + 1 /\ Len(v) \in Nat
      /\ \A i \in 1..Len(v) : w[i] = v[i]
      /\ w[Len(v) + 1] = k /\ ToSet(w) = ToSet(v) \cup {k}
  BY <1>1, <1>3, Appended
<1>5. Last(p).key = k /\ Last(p).next = p[n].next
  BY <1>2
<1>6. Len(Edges(D, k)) \in Nat /\ DOMAIN Edges(D, k) = 1..Len(Edges(D, k))
  BY <1>3, ListFacts DEF Graph, Edges
<1>7. \A y \in TargetsOf(D, k) : y \in ToSet(v)
  <2>1. \A j \in 1..(p[n].next - 1) : Edges(D, k)[j].key \in ToSet(v)
    BY <1>2, <1>3 DEF WalkOK
  <2>2. \A j \in 1..Len(Edges(D, k)) : j \in 1..(p[n].next - 1)
    BY <1>3, <1>5, <1>6
  <2>3. TargetsOf(D, k) = {Edges(D, k)[j].key : j \in 1..Len(Edges(D, k))}
    BY <1>6 DEF TargetsOf, Edges
  <2> QED
    BY <2>1, <2>2, <2>3
<1>8. \A i \in 1..(n - 1) : i \in 1..n /\ i + 1 \in 1..n
  BY <1>2
<1> HIDE DEF w, q
<1>9. Ordered(D, w)
  <2> SUFFICES ASSUME NEW i \in 1..Len(w), NEW y \in TargetsOf(D, w[i])
               PROVE  \E j \in 1..(i - 1) : w[j] = y
    BY DEF Ordered
  <2>1. CASE i = Len(v) + 1
    <3>1. y \in ToSet(v) /\ DOMAIN v = 1..Len(v)
      BY <1>1, <1>4, <1>7, <2>1
    <3>2. PICK j \in 1..Len(v) : v[j] = y
      BY <3>1 DEF ToSet, Range
    <3> QED
      BY <1>4, <2>1, <3>2
  <2>2. CASE i # Len(v) + 1
    <3>1. i \in 1..Len(v) /\ w[i] = v[i]
      BY <1>4, <2>2
    <3>2. PICK j \in 1..(i - 1) : v[j] = y
      BY <3>1, Zenon DEF WalkOK, Ordered
    <3>3. j \in 1..Len(v)
      BY <1>4, <3>1
    <3> QED
      BY <1>4, <3>2, <3>3
  <2> QED
    BY <2>1, <2>2
<1>10. ASSUME NEW x \in r PROVE x \in ToSet(w) \/ (q # <<>> /\ q[1].key = x)
  <2>1. CASE x \in ToSet(v)
    BY <1>4, <2>1
  <2>2. CASE p[1].key = x /\ n = 1
    BY <1>4, <2>2
  <2>3. CASE p[1].key = x /\ n # 1
    <3>1. 1 \in 1..(n - 1) /\ Len(q) # 0
      BY <1>2, <2>3
    <3> QED
      BY <1>2, <2>3, <3>1
  <2> QED
    BY <2>1, <2>2, <2>3 DEF WalkOK
<1>11. \A i, j \in 1..Len(q) : q[i].key = q[j].key => i = j
  BY <1>2, <1>8, Zenon DEF WalkOK
<1>12. \A i \in 1..Len(q) : q[i].next <= Len(Edges(D, q[i].key)) + 1
  BY <1>2, <1>8, Zenon DEF WalkOK
<1>13. ASSUME NEW i \in 1..Len(q), NEW j \in 1..(q[i].next - 1)
       PROVE  Edges(D, q[i].key)[j].key \in ToSet(w) \/ (i < Len(q) /\ j = q[i].next - 1)
  <2>1. i \in 1..(n - 1) /\ q[i] = p[i] /\ i \in 1..n
    BY <1>2, <1>8
  <2>2. Edges(D, p[i].key)[j].key \in ToSet(v) \/ j = p[i].next - 1
    BY <2>1, Zenon DEF WalkOK
  <2>3. CASE Edges(D, p[i].key)[j].key \in ToSet(v)
    BY <1>4, <2>1, <2>3
  <2>4. CASE j = p[i].next - 1 /\ i = n - 1
    <3>1. i + 1 = n
      BY <1>2, <2>4
    <3>2. Edges(D, p[i].key)[p[i].next - 1].key = p[i + 1].key
      BY <2>1 DEF WalkOK
    <3> QED
      BY <1>4, <2>1, <2>4, <3>1, <3>2
  <2>5. CASE j = p[i].next - 1 /\ i # n - 1
    <3>1. i < Len(q)
      BY <1>2, <2>1, <2>5
    <3> QED
      BY <2>1, <2>5, <3>1
  <2> QED
    BY <2>2, <2>3, <2>4, <2>5
<1>14. ASSUME NEW i \in 1..(Len(q) - 1)
       PROVE  q[i].next >= 2 /\ Edges(D, q[i].key)[q[i].next - 1].key = q[i + 1].key
  <2>1. i \in 1..(n - 1) /\ i + 1 \in 1..(n - 1)
    BY <1>2
  <2> QED
    BY <1>2, <2>1, Zenon DEF WalkOK
<1>15. WalkOK(D, r, w, q)
  BY <1>2, <1>4, <1>9, <1>10, <1>11, <1>12, <1>13, <1>14 DEF WalkOK
<1> QED
  BY <1>5, <1>15 DEF w, q

\* The calls after the innermost one has moved on to its next dependency.
Callers(p) == Append(Front(p), [Last(p) EXCEPT !.next = @ + 1])

\* They are the same calls, and only the innermost one has moved.
LEMMA Advanced ==
  ASSUME NEW D, NEW p \in Seq(Frames(D)), p # <<>>
  PROVE  /\ Callers(p) \in Seq(Frames(D)) /\ Len(Callers(p)) = Len(p)
         /\ \A i \in 1..(Len(p) - 1) : Callers(p)[i] = p[i]
         /\ Callers(p)[Len(p)].key = p[Len(p)].key
         /\ Callers(p)[Len(p)].next = p[Len(p)].next + 1
<1> DEFINE f == [Last(p) EXCEPT !.next = @ + 1]
<1>1. /\ Len(p) \in Nat \ {0} /\ Last(p) = p[Len(p)] /\ Last(p) \in Frames(D)
      /\ Front(p) \in Seq(Frames(D)) /\ Len(Front(p)) = Len(p) - 1
      /\ \A i \in 1..(Len(p) - 1) : Front(p)[i] = p[i]
  BY Stack
<1>2. f \in Frames(D) /\ f.key = p[Len(p)].key /\ f.next = p[Len(p)].next + 1
  <2>1. \A t \in Frames(D) :
          LET u == [t EXCEPT !.next = @ + 1]
          IN  u \in Frames(D) /\ u.key = t.key /\ u.next = t.next + 1
    BY DEF Frames
  <2> QED
    BY <1>1, <2>1
<1> HIDE DEF f
<1>3. (Len(p) - 1) + 1 = Len(p)
  BY <1>1
<1>4. Callers(p) = Append(Front(p), f)
  BY DEF Callers, f
<1>5. /\ Append(Front(p), f) \in Seq(Frames(D)) /\ Len(Append(Front(p), f)) = Len(Front(p)) + 1
      /\ \A i \in 1..Len(Front(p)) : Append(Front(p), f)[i] = Front(p)[i]
      /\ Append(Front(p), f)[Len(Front(p)) + 1] = f
  BY <1>1, <1>2, Appended
<1> QED
  BY <1>1, <1>2, <1>3, <1>4, <1>5

\* A call goes on from a dependency that is visited already.
LEMMA SkipWalk ==
  ASSUME NEW D, Graph(D), NEW r, NEW v, NEW p, WalkOK(D, r, v, p), p # <<>>,
         Last(p).next <= Len(Edges(D, Last(p).key)),
         NEW k, k = Edges(D, Last(p).key)[Last(p).next].key, k \in ToSet(v)
  PROVE  WalkOK(D, r, v, Callers(p))
<1> DEFINE n == Len(p)
           q == Callers(p)
<1>1. p \in Seq(Frames(D)) /\ v \in Seq(DOMAIN D) /\ Ordered(D, v)
  BY DEF WalkOK
<1>2. n \in Nat \ {0} /\ Last(p) = p[n] /\ p[n] \in Frames(D)
  BY <1>1, Stack, Zenon
<1>3. /\ q \in Seq(Frames(D)) /\ Len(q) = n /\ \A i \in 1..(n - 1) : q[i] = p[i]
      /\ q[n].key = p[n].key /\ q[n].next = p[n].next + 1
  BY <1>1, Advanced
<1> HIDE DEF q
<1>4. p[n].key \in DOMAIN D /\ p[n].next \in Nat \ {0} /\ n \in 1..n
  BY <1>2 DEF Frames
<1>5. \A i \in 1..n : (i = n \/ i \in 1..(n - 1)) /\ q[i].key = p[i].key
  BY <1>2, <1>3
<1>6. Len(Edges(D, p[n].key)) \in Nat
  BY <1>4, ListFacts DEF Graph, Edges
<1>7. \A x \in r : x \in ToSet(v) \/ (q # <<>> /\ q[1].key = x)
  <2>1. 1 \in 1..n /\ q # <<>>
    BY <1>2, <1>3
  <2> QED
    BY <1>5, <2>1 DEF WalkOK
<1>8. \A i, j \in 1..Len(q) : q[i].key = q[j].key => i = j
  BY <1>3, <1>5 DEF WalkOK
<1>9. ASSUME NEW i \in 1..Len(q) PROVE q[i].next <= Len(Edges(D, q[i].key)) + 1
  <2>1. CASE i = n
    BY <1>2, <1>3, <1>4, <1>6, <2>1
  <2>2. CASE i \in 1..(n - 1)
    BY <1>3, <2>2 DEF WalkOK
  <2> QED
    BY <1>3, <1>5, <2>1, <2>2
<1>10. ASSUME NEW i \in 1..Len(q), NEW j \in 1..(q[i].next - 1)
       PROVE  Edges(D, q[i].key)[j].key \in ToSet(v) \/ (i < Len(q) /\ j = q[i].next - 1)
  <2>1. CASE i = n /\ j = p[n].next
    BY <1>2, <1>3, <2>1
  <2>2. CASE i = n /\ j # p[n].next
    <3>1. j \in 1..(p[n].next - 1) /\ ~(n < n)
      BY <1>2, <1>3, <1>4, <2>2
    <3>2. Edges(D, p[n].key)[j].key \in ToSet(v)
      BY <1>4, <3>1, Zenon DEF WalkOK
    <3> QED
      BY <1>3, <2>2, <3>2
  <2>3. CASE i \in 1..(n - 1)
    <3>1. i \in 1..n /\ q[i] = p[i]
      BY <1>3, <2>3
    <3> QED
      BY <1>3, <3>1 DEF WalkOK
  <2> QED
    BY <1>3, <1>5, <2>1, <2>2, <2>3
<1>11. ASSUME NEW i \in 1..(Len(q) - 1)
       PROVE  q[i].next >= 2 /\ Edges(D, q[i].key)[q[i].next - 1].key = q[i + 1].key
  <2>1. i \in 1..(n - 1) /\ i + 1 \in 1..n /\ q[i] = p[i]
    BY <1>2, <1>3
  <2> QED
    BY <1>5, <2>1 DEF WalkOK
<1>12. WalkOK(D, r, v, q)
  BY <1>1, <1>3, <1>7, <1>8, <1>9, <1>10, <1>11 DEF WalkOK
<1> QED
  BY <1>12 DEF q

\* A call is made for a dependency that is neither visited nor being visited.
LEMMA PushWalk ==
  ASSUME NEW D, Graph(D), NEW r, NEW v, NEW p, WalkOK(D, r, v, p), p # <<>>,
         Last(p).next <= Len(Edges(D, Last(p).key)),
         NEW k, k = Edges(D, Last(p).key)[Last(p).next].key, k \notin {p[i].key : i \in DOMAIN p}
  PROVE  WalkOK(D, r, v, Append(Callers(p), [key |-> k, next |-> 1]))
<1> DEFINE n == Len(p)
           c == Callers(p)
           f == [key |-> k, next |-> 1]
           q == Append(c, f)
<1>0. p \in Seq(Frames(D)) /\ v \in Seq(DOMAIN D) /\ Ordered(D, v)
  BY DEF WalkOK
<1>1. DOMAIN p = 1..n
  BY <1>0
<1>2. n \in Nat \ {0} /\ Last(p) = p[n] /\ p[n] \in Frames(D)
  <2>1. Len(p) \in Nat \ {0} /\ Last(p) = p[Len(p)] /\ Last(p) \in Frames(D)
    <3> DEFINE S == Frames(D)
    <3>1. p \in Seq(S)
      BY <1>0
    <3> HIDE DEF S
    <3>2. Len(p) \in Nat \ {0} /\ Last(p) = p[Len(p)] /\ Last(p) \in S
      BY <3>1, Stack
    <3> QED
      BY <3>2 DEF S
  <2> QED
    BY <2>1
<1>3. /\ c \in Seq(Frames(D)) /\ Len(c) = n /\ \A i \in 1..(n - 1) : c[i] = p[i]
      /\ c[n].key = p[n].key /\ c[n].next = p[n].next + 1
  BY <1>0, Advanced
<1>4. p[n].key \in DOMAIN D /\ p[n].next \in Nat \ {0} /\ n \in 1..n
  BY <1>2 DEF Frames
<1>5. Len(Edges(D, p[n].key)) \in Nat /\ DOMAIN Edges(D, p[n].key) = 1..Len(Edges(D, p[n].key))
  BY <1>4, ListFacts DEF Graph, Edges
<1>6. k \in DOMAIN D
  <2>1. p[n].next \in DOMAIN Edges(D, p[n].key)
    BY <1>2, <1>4, <1>5
  <2> QED
    BY <1>2, <1>4, <2>1 DEF Graph, Closed, TargetsOf, Edges
<1>7. f \in Frames(D) /\ f.key = k /\ f.next = 1
  BY <1>6 DEF Frames
<1> HIDE DEF c, f, n
<1>8. /\ q \in Seq(Frames(D)) /\ Len(q) = n + 1
      /\ \A i \in 1..n : q[i] = c[i]
      /\ q[n + 1] = f
  BY <1>3, <1>7, Appended
<1> HIDE DEF q
<1>9. /\ \A i \in 1..(n - 1) : q[i] = p[i]
      /\ \A i \in 1..n : q[i].key = p[i].key
      /\ q[n].next = p[n].next + 1 /\ q[n + 1].key = k /\ q[n + 1].next = 1
  <2>1. q[n] = c[n]
    BY <1>4, <1>8
  <2>2. \A i \in 1..(n - 1) : i \in 1..n /\ q[i] = p[i]
    BY <1>2, <1>3, <1>8
  <2>3. \A i \in 1..n : i \in 1..(n - 1) \/ i = n
    BY <1>2
  <2>4. \A i \in 1..n : q[i].key = p[i].key
    BY <1>3, <2>1, <2>2, <2>3
  <2> QED
    BY <1>3, <1>7, <1>8, <2>1, <2>2, <2>4
<1>10. \A i \in 1..(n + 1) : i \in 1..(n - 1) \/ i = n \/ i = n + 1
  BY <1>2
<1>11. \A x \in r : x \in ToSet(v) \/ (q # <<>> /\ q[1].key = x)
  <2>1. 1 \in 1..n /\ q # <<>>
    BY <1>2, <1>8
  <2> QED
    BY <1>9, <2>1, Zenon DEF WalkOK
<1>12. ASSUME NEW i \in 1..Len(q), NEW j \in 1..Len(q), q[i].key = q[j].key PROVE i = j
  <2>1. \A h \in 1..n : p[h].key # k
    BY <1>1
  <2>2. (i \in 1..n \/ i = n + 1) /\ (j \in 1..n \/ j = n + 1)
    BY <1>2, <1>8
  <2> QED
    BY <1>9, <1>12, <2>1, <2>2 DEF WalkOK, n
<1>13. ASSUME NEW i \in 1..Len(q) PROVE q[i].next <= Len(Edges(D, q[i].key)) + 1
  <2>1. CASE i = n
    BY <1>2, <1>4, <1>5, <1>9, <2>1
  <2>2. CASE i \in 1..(n - 1)
    <3>1. i \in 1..n /\ q[i] = p[i]
      BY <1>2, <1>9, <2>2
    <3> QED
      BY <3>1 DEF WalkOK, n
  <2>3. CASE i = n + 1
    <3>1. Len(Edges(D, k)) \in Nat
      BY <1>6, ListFacts DEF Graph, Edges
    <3> QED
      BY <1>9, <2>3, <3>1
  <2> QED
    BY <1>8, <1>10, <2>1, <2>2, <2>3
<1>14. ASSUME NEW i \in 1..Len(q), NEW j \in 1..(q[i].next - 1)
       PROVE  Edges(D, q[i].key)[j].key \in ToSet(v) \/ (i < Len(q) /\ j = q[i].next - 1)
  <2>1. CASE i = n /\ j = p[n].next
    BY <1>2, <1>4, <1>8, <1>9, <2>1
  <2>2. CASE i = n /\ j # p[n].next
    <3>1. j \in 1..(p[n].next - 1) /\ ~(n < n)
      <4>1. j \in 1..((p[n].next + 1) - 1)
        BY <1>9, <2>2
      <4> QED
        BY <1>2, <1>4, <2>2, <4>1
    <3>2. Edges(D, p[n].key)[j].key \in ToSet(v)
      BY <1>4, <3>1, Zenon DEF WalkOK, n
    <3> QED
      BY <1>4, <1>9, <2>2, <3>2
  <2>3. CASE i \in 1..(n - 1)
    <3>1. i \in 1..n /\ q[i] = p[i] /\ i < Len(q)
      BY <1>2, <1>8, <1>9, <2>3
    <3> QED
      BY <3>1, Zenon DEF WalkOK, n
  <2>4. CASE i = n + 1
    BY <1>9, <2>4
  <2> QED
    BY <1>8, <1>10, <2>1, <2>2, <2>3, <2>4
<1>15. ASSUME NEW i \in 1..(Len(q) - 1)
       PROVE  q[i].next >= 2 /\ Edges(D, q[i].key)[q[i].next - 1].key = q[i + 1].key
  <2>1. i \in 1..n
    BY <1>2, <1>8
  <2>2. CASE i = n
    <3>1. (p[n].next + 1) - 1 = p[n].next /\ p[n].next + 1 >= 2
      BY <1>4
    <3> QED
      BY <1>2, <1>4, <1>9, <2>2, <3>1
  <2>3. CASE i \in 1..(n - 1)
    <3>1. i + 1 \in 1..n /\ q[i] = p[i] /\ q[i + 1].key = p[i + 1].key
      <4>1. i + 1 \in 1..n
        BY <1>2, <2>3
      <4> QED
        BY <1>9, <2>3, <4>1
    <3> QED
      BY <2>3, <3>1 DEF WalkOK, n
  <2>4. i = n \/ i \in 1..(n - 1)
    BY <1>2, <2>1
  <2> QED
    BY <2>2, <2>3, <2>4
<1>16. WalkOK(D, r, v, q)
  BY <1>0, <1>8, <1>11, <1>12, <1>13, <1>14, <1>15 DEF WalkOK
<1> QED
  BY <1>16 DEF q, c, f

\* The loop over the map hands a key to visit.
LEMMA RootWalk ==
  ASSUME NEW D, Graph(D), NEW r, NEW v, WalkOK(D, r, v, <<>>), NEW k \in DOMAIN D
  PROVE  /\ k \in ToSet(v) => WalkOK(D, r \cup {k}, v, <<>>)
         /\ WalkOK(D, r \cup {k}, v, Append(<<>>, [key |-> k, next |-> 1]))
<1>1. v \in Seq(DOMAIN D) /\ Ordered(D, v) /\ \A x \in r : x \in ToSet(v)
  BY DEF WalkOK
<1>2. <<>> \in Seq(Frames(D)) /\ Len(<<>>) = 0
  OBVIOUS
<1>3. ASSUME k \in ToSet(v) PROVE WalkOK(D, r \cup {k}, v, <<>>)
  BY <1>1, <1>2, <1>3 DEF WalkOK
<1> DEFINE f == [key |-> k, next |-> 1]
           q == Append(<<>>, f)
<1>4. f \in Frames(D) /\ f.key = k /\ f.next = 1
  BY DEF Frames
<1> HIDE DEF f
<1>5. q \in Seq(Frames(D)) /\ Len(q) = 1 /\ q[1] = f /\ q # <<>>
  BY <1>2, <1>4
<1> HIDE DEF q
<1>6. Len(Edges(D, k)) \in Nat
  BY ListFacts DEF Graph, Edges
<1>7. /\ \A x \in r \cup {k} : x \in ToSet(v) \/ (q # <<>> /\ q[1].key = x)
      /\ \A i, j \in 1..Len(q) : q[i].key = q[j].key => i = j
  BY <1>1, <1>4, <1>5
<1>8. \A i \in 1..Len(q) : i = 1
  BY <1>5
<1>9. \A i \in 1..Len(q) : q[i].next <= Len(Edges(D, q[i].key)) + 1
  BY <1>4, <1>5, <1>6, <1>8
<1>10. \A i \in 1..Len(q) : \A j \in 1..(q[i].next - 1) :
         Edges(D, q[i].key)[j].key \in ToSet(v) \/ (i < Len(q) /\ j = q[i].next - 1)
  BY <1>4, <1>5, <1>8
<1>11. \A i \in 1..(Len(q) - 1) :
         q[i].next >= 2 /\ Edges(D, q[i].key)[q[i].next - 1].key = q[i + 1].key
  BY <1>5
<1>12. WalkOK(D, r \cup {k}, v, q)
  BY <1>1, <1>5, <1>7, <1>9, <1>10, <1>11 DEF WalkOK
<1> QED
  BY <1>3, <1>12 DEF q, f

\* The active calls, and the dependency the innermost one is at, are a chain.
LEMMA WalkChain ==
  ASSUME NEW D, Graph(D), NEW r, NEW v, NEW p, WalkOK(D, r, v, p), p # <<>>,
         Last(p).next <= Len(Edges(D, Last(p).key)),
         NEW k, k = Edges(D, Last(p).key)[Last(p).next].key
  PROVE  /\ Len(p) \in Nat \ {0} /\ DOMAIN p = 1..Len(p) /\ \A i \in 1..Len(p) : p[i].key \in DOMAIN D
         /\ k \in DOMAIN D
         /\ \A i \in 1..Len(p) : \A n \in 1..(Len(p) - i) : p[i + n].key \in Away(D, p[i].key, n)
         /\ \A i \in 1..Len(p) : k \in Away(D, p[i].key, Len(p) + 1 - i)
<1> DEFINE m == Len(p)
           x == [i \in 1..(m + 1) |-> IF i = m + 1 THEN k ELSE p[i].key]
<1>1. p \in Seq(Frames(D))
  BY DEF WalkOK
<1>2. m \in Nat \ {0} /\ Last(p) = p[m] /\ DOMAIN p = 1..m /\ m \in 1..m
  <2>1. Len(p) \in Nat \ {0} /\ Last(p) = p[Len(p)]
    BY <1>1, Stack, Zenon
  <2>2. DOMAIN p = 1..Len(p)
    BY <1>1
  <2> QED
    BY <2>1, <2>2
<1>3. \A i \in 1..m : p[i].key \in DOMAIN D /\ p[i].next \in Nat \ {0}
  <2>1. \A i \in 1..m : p[i] \in Frames(D)
    BY <1>1
  <2> QED
    BY <2>1 DEF Frames
<1>4. \A y \in DOMAIN D : /\ Len(Edges(D, y)) \in Nat /\ DOMAIN Edges(D, y) = 1..Len(Edges(D, y))
                          /\ TargetsOf(D, y) = {Edges(D, y)[j].key : j \in 1..Len(Edges(D, y))}
  <2> SUFFICES ASSUME NEW y \in DOMAIN D
               PROVE  /\ Len(Edges(D, y)) \in Nat /\ DOMAIN Edges(D, y) = 1..Len(Edges(D, y))
                      /\ TargetsOf(D, y) = {Edges(D, y)[j].key : j \in 1..Len(Edges(D, y))}
    OBVIOUS
  <2>1. Len(Edges(D, y)) \in Nat /\ DOMAIN Edges(D, y) = 1..Len(Edges(D, y))
    BY ListFacts DEF Graph, Edges
  <2> QED
    BY <2>1 DEF TargetsOf, Edges
<1>5. k \in TargetsOf(D, p[m].key) /\ k \in DOMAIN D
  <2>1. p[m].key \in DOMAIN D /\ p[m].next \in Nat \ {0}
    BY <1>2, <1>3
  <2>2. p[m].next \in 1..Len(Edges(D, p[m].key))
    BY <1>2, <1>4, <2>1
  <2>3. k \in TargetsOf(D, p[m].key)
    BY <1>2, <1>4, <2>1, <2>2
  <2> QED
    BY <2>1, <2>3 DEF Graph, Closed
<1>6. ASSUME NEW i \in 1..(m - 1) PROVE p[i + 1].key \in TargetsOf(D, p[i].key)
  <2>1. i \in 1..m
    BY <1>2
  <2>2. p[i].next >= 2 /\ Edges(D, p[i].key)[p[i].next - 1].key = p[i + 1].key
    BY DEF WalkOK
  <2>3. p[i].next <= Len(Edges(D, p[i].key)) + 1
    BY <2>1 DEF WalkOK
  <2>4. p[i].key \in DOMAIN D /\ p[i].next \in Nat
    BY <1>3, <2>1
  <2>5. p[i].next - 1 \in 1..Len(Edges(D, p[i].key))
    BY <1>4, <2>2, <2>3, <2>4
  <2> QED
    BY <1>4, <2>2, <2>4, <2>5
<1>7. /\ m + 1 \in Nat /\ (m + 1) - 1 = m /\ \A i \in 1..m : i # m + 1 /\ i \in 1..(m + 1)
      /\ m + 1 \in 1..(m + 1) /\ \A i \in 1..(m + 1) : i # m + 1 => i \in 1..m
  BY <1>2
<1>8. x[m + 1] = k /\ \A i \in 1..m : x[i] = p[i].key
  BY <1>7
<1>9. x \in [1..(m + 1) -> DOMAIN D]
  BY <1>3, <1>5, <1>7
<1> HIDE DEF x
<1>10. ASSUME NEW i \in 1..((m + 1) - 1) PROVE x[i + 1] \in TargetsOf(D, x[i])
  <2>1. i \in 1..m /\ (i = m \/ (i \in 1..(m - 1) /\ i + 1 \in 1..m))
    <3> HIDE DEF m
    <3> QED
      BY <1>2
  <2> QED
    BY <1>5, <1>6, <1>8, <2>1
<1>11. \A i \in 1..(m + 1) : \A n \in 0..((m + 1) - i) : x[i + n] \in Away(D, x[i], n)
  <2> HIDE DEF m
  <2> QED
    BY <1>7, <1>9, <1>10, AwayChain, Zenon DEF Graph
<1>12. ASSUME NEW i \in 1..m, NEW n \in 1..(m - i) PROVE p[i + n].key \in Away(D, p[i].key, n)
  <2>1. i \in 1..(m + 1) /\ n \in 0..((m + 1) - i) /\ i + n \in 1..m
    BY <1>2
  <2> QED
    BY <1>8, <1>11, <2>1, Zenon
<1>13. ASSUME NEW i \in 1..m PROVE k \in Away(D, p[i].key, m + 1 - i)
  <2>1. i \in 1..(m + 1) /\ m + 1 - i \in 0..((m + 1) - i) /\ i + (m + 1 - i) = m + 1
    BY <1>2
  <2>2. x[i + (m + 1 - i)] \in Away(D, x[i], m + 1 - i)
    BY <1>11, <2>1
  <2> QED
    BY <1>8, <2>1, <2>2
<1> QED
  BY <1>2, <1>3, <1>5, <1>12, <1>13

\* A dependency with an active call closes a cycle.
LEMMA WalkCycle ==
  ASSUME NEW D, Graph(D), NEW r, NEW v, NEW p, WalkOK(D, r, v, p), p # <<>>,
         Last(p).next <= Len(Edges(D, Last(p).key)),
         NEW k, k = Edges(D, Last(p).key)[Last(p).next].key, k \in {p[i].key : i \in DOMAIN p}
  PROVE  Cyclic(D)
<1> DEFINE m == Len(p)
<1>1. /\ m \in Nat \ {0} /\ DOMAIN p = 1..m /\ \A i \in 1..m : p[i].key \in DOMAIN D
      /\ \A i \in 1..m : k \in Away(D, p[i].key, m + 1 - i)
  BY WalkChain
<1>2. PICK i \in 1..m : p[i].key = k
  BY <1>1
<1>3. m <= Cardinality(DOMAIN D)
  <2> DEFINE f == [j \in 1..m |-> p[j].key]
  <2>1. f \in [1..m -> DOMAIN D]
    BY <1>1
  <2>2. \A a, b \in 1..m : f[a] = f[b] => a = b
    BY DEF WalkOK
  <2>3. f \in Injection(1..m, DOMAIN D)
    <3> HIDE DEF f, m
    <3> QED
      BY <2>1, <2>2 DEF Injection, IsInjective
  <2>4. Cardinality(1..m) <= Cardinality(DOMAIN D)
    <3> HIDE DEF f, m
    <3> QED
      BY <2>3, FS_Injection DEF Graph
  <2>5. Cardinality(1..m) = m
    <3> HIDE DEF m
    <3>1. 1 \in Int /\ m \in Int /\ ~(1 > m) /\ m - 1 + 1 = m
      BY <1>1
    <3> QED
      BY <3>1, FS_Interval
  <2> QED
    BY <2>4, <2>5
<1>4. Cardinality(DOMAIN D) \in Nat
  BY FS_CardinalityType DEF Graph
<1>5. m + 1 - i \in 1..Cardinality(DOMAIN D)
  <2> DEFINE all == Cardinality(DOMAIN D)
  <2> HIDE DEF m, all
  <2>1. m \in Nat /\ all \in Nat /\ m <= all /\ i \in 1..m
    BY <1>1, <1>3, <1>4 DEF all
  <2>2. m + 1 - i \in 1..all
    BY <2>1
  <2> QED
    BY <2>2 DEF all
<1>6. k \in DOMAIN D /\ k \in Away(D, k, m + 1 - i)
  BY <1>1, <1>2
<1> QED
  BY <1>5, <1>6 DEF Cyclic

\* As many active calls as the depth allows, and a dependency more, are a chain that is
\* too long.
LEMMA WalkDeep ==
  ASSUME NEW D, Graph(D), NEW r, NEW v, NEW p, WalkOK(D, r, v, p), p # <<>>,
         Last(p).next <= Len(Edges(D, Last(p).key)), Len(p) > Limits.MaxEvaluationDepth
  PROVE  TooDeep(D)
<1> DEFINE m == Len(p)
           M == Limits.MaxEvaluationDepth
           k == Edges(D, Last(p).key)[Last(p).next].key
<1>1. /\ m \in Nat \ {0} /\ \A i \in 1..m : p[i].key \in DOMAIN D
      /\ \A i \in 1..m : \A n \in 1..(m - i) : p[i + n].key \in Away(D, p[i].key, n)
      /\ \A i \in 1..m : k \in Away(D, p[i].key, m + 1 - i)
  BY WalkChain
<1>2. M \in Nat
  BY DepthAssumption
<1> HIDE DEF M, m, k
<1>3. m > M
  BY DEF M, m
<1>4. 1 \in 1..m /\ m + 1 - 1 = m
  BY <1>1
<1>5. CASE m = M + 1
  <2>1. k \in Away(D, p[1].key, M + 1)
    BY <1>1, <1>4, <1>5
  <2> QED
    BY <1>1, <1>4, <2>1 DEF TooDeep, M
<1>6. CASE m # M + 1
  <2>1. M + 1 \in 1..(m - 1)
    BY <1>1, <1>2, <1>3, <1>6
  <2>2. p[1 + (M + 1)].key \in Away(D, p[1].key, M + 1)
    BY <1>1, <1>4, <2>1
  <2> QED
    BY <1>1, <1>4, <2>2 DEF TooDeep, M
<1> QED
  BY <1>5, <1>6

-----------------------------------------------------------------------------
(* The construction                                                        *)

\* What the checks before the walk establish about its graph.
LEMMA Checked ==
  ASSUME Arguments(source)
  PROVE  /\ IsFiniteSet(Keys) /\ \A k \in Keys : IsDefinition(Definitions[k])
         /\ \A k \in Keys : Definitions[k] \in ToSet(source.features)
         /\ DependencyFaults = {} =>
              /\ Graph(Definitions)
              /\ \A k \in Keys : \A e \in ToSet(Dependencies(k)) :
                   e.key \in Keys /\ e.variant \in DOMAIN Definitions[e.key].variants
<1> DEFINE s == source.features
<1>1. IsList(s) /\ \A d \in ToSet(s) : IsDefinition(d)
  BY DEF Arguments
<1>2. Len(s) \in Nat /\ DOMAIN s = 1..Len(s)
  BY <1>1, ListFacts
<1> HIDE DEF s
<1>3. Keys = {s[i].key : i \in DOMAIN s} /\ Definitions = ByKey(s)
  BY DEF Keys, Definitions, ByKey, s
<1>4. IsFiniteSet(Keys)
  <2> DEFINE f == [i \in 1..Len(s) |-> s[i].key]
  <2>1. IsFiniteSet(1..Len(s))
    BY <1>2, FS_Interval
  <2>2. f \in Surjection(1..Len(s), Keys)
    BY <1>2, <1>3 DEF Surjection
  <2> HIDE DEF f
  <2> QED
    BY <2>1, <2>2, FS_Surjection
<1>5. \A k \in Keys : Definitions[k] \in ToSet(s)
  <2> SUFFICES ASSUME NEW k \in Keys PROVE Definitions[k] \in ToSet(s)
    OBVIOUS
  <2> DEFINE i == CHOOSE i \in DOMAIN s : s[i].key = k
  <2>1. i \in DOMAIN s
    BY <1>3
  <2>2. Definitions[k] = s[i]
    BY <1>3 DEF ByKey
  <2> QED
    BY <2>1, <2>2, Zenon DEF ToSet, Range
<1>6. \A k \in Keys : IsDefinition(Definitions[k])
  BY <1>1, <1>5
<1>7. ASSUME DependencyFaults = {}, NEW k \in Keys, NEW e \in ToSet(Dependencies(k))
      PROVE  e.key \in Keys /\ e.variant \in DOMAIN Definitions[e.key].variants
  BY <1>7 DEF DependencyFaults
<1>8. ASSUME DependencyFaults = {} PROVE Graph(Definitions)
  <2>1. \A k \in Keys : IsList(Definitions[k].dependencies)
    BY <1>6, ListFacts DEF IsDefinition
  <2>2. Closed(Definitions)
    BY <1>7, <1>8 DEF Closed, TargetsOf, ToSet, Range, Keys, Dependencies
  <2> QED
    BY <1>4, <2>1, <2>2 DEF Graph, Keys
<1> QED
  BY <1>4, <1>5, <1>6, <1>7, <1>8 DEF s

\* The predicates of the input depend on nothing else.
LEMMA SameInput ==
  ASSUME source' = source
  PROVE  /\ Definitions' = Definitions /\ Keys' = Keys /\ Groups' = Groups
         /\ ValidFeatures' = ValidFeatures /\ DependencyFaults' = DependencyFaults
         /\ GroupFaults' = GroupFaults
<1>1. Definitions' = Definitions /\ Groups' = Groups
  BY DEF Definitions, Groups
<1>2. Keys' = Keys
  BY <1>1 DEF Keys
<1>3. ValidFeatures' = ValidFeatures
  BY DEF ValidFeatures
<1>4. DependencyFaults' = DependencyFaults
  BY <1>1, <1>2 DEF DependencyFaults, Dependencies
<1>5. ValidGroups' = ValidGroups
  BY DEF ValidGroups
<1>6. validateGroupGraph' = validateGroupGraph
  BY <1>1 DEF validateGroupGraph
<1>7. AttachmentFaults' = AttachmentFaults
  BY <1>1, <1>2 DEF AttachmentFaults
<1> QED
  BY <1>1, <1>2, <1>3, <1>4, <1>5, <1>6, <1>7 DEF GroupFaults

\* What the checks around the walk may report.
LEMMA FaultNames ==
  DependencyFaults \subseteq {"invalid", "not_found"} /\ GroupFaults \subseteq {"invalid", "not_found"}
<1>1. DependencyFaults \subseteq {"invalid", "not_found"}
  BY DEF DependencyFaults
<1>2. AttachmentFaults \subseteq {"invalid", "not_found"}
  BY DEF AttachmentFaults
<1> QED
  BY <1>1, <1>2 DEF GroupFaults

\* The inductive invariant of the construction.
BuildInv ==
  /\ Arguments(source) /\ stage \in Stages /\ cause \in Causes
  /\ ranged \subseteq Keys /\ visited \in Seq(Keys) /\ path \in Seq(Frames(Definitions))
  /\ stage \in {"none", "check"} => cause = "" /\ ranged = {} /\ visited = <<>> /\ path = <<>>
  /\ stage \in {"walk", "accepted"} =>
       /\ cause = "" /\ ValidFeatures /\ DependencyFaults = {}
       /\ WalkOK(Definitions, ranged, visited, path)
  /\ stage = "accepted" => path = <<>> /\ ranged = Keys /\ GroupFaults = {}
  /\ stage = "rejected" => cause # ""
  /\ RefusalHasCause

\* A construction begins.
LEMMA BeginKept ==
  ASSUME NEW c, Arguments(c), Begin(c)
  PROVE  BuildInv'
<1>1. /\ source' = c /\ stage' = "check" /\ cause' = "" /\ ranged' = {} /\ visited' = <<>>
      /\ path' = <<>>
  BY Zenon DEF Begin
<1>2. \A S : <<>> \in Seq(S)
  OBVIOUS
<1> QED
  BY <1>1, <1>2, Zenon DEF BuildInv, Stages, Causes, RefusalHasCause

\* The checks before the walk.
LEMMA CheckKept ==
  ASSUME BuildInv, Check
  PROVE  BuildInv'
<1>1. /\ stage = "check" /\ source' = source /\ ranged' = ranged /\ visited' = visited /\ path' = path
      /\ cause = "" /\ ranged = {} /\ visited = <<>> /\ path = <<>>
  BY Zenon DEF Check, BuildInv
<1>2. /\ Definitions' = Definitions /\ Keys' = Keys
      /\ ValidFeatures' = ValidFeatures /\ DependencyFaults' = DependencyFaults
  BY <1>1, SameInput, Zenon
<1>3. /\ Arguments(source') /\ ranged' \subseteq Keys' /\ visited' \in Seq(Keys')
      /\ path' \in Seq(Frames(Definitions'))
  BY <1>1, <1>2, Zenon DEF BuildInv
<1>4. CASE ValidFeatures /\ DependencyFaults = {} /\ stage' = "walk" /\ cause' = cause
  <2>1. WalkOK(Definitions, {}, <<>>, <<>>)
    <3>1. <<>> \in Seq(DOMAIN Definitions) /\ <<>> \in Seq(Frames(Definitions)) /\ Len(<<>>) = 0
      OBVIOUS
    <3> QED
      BY <3>1 DEF WalkOK, Ordered
  <2>2. WalkOK(Definitions', ranged', visited', path')
    BY <1>1, <1>2, <2>1, Zenon
  <2> QED
    BY <1>1, <1>2, <1>3, <1>4, <2>2, Zenon DEF BuildInv, Stages, Causes, RefusalHasCause
<1>5. CASE stage' = "rejected" /\ cause' \in {"invalid", "not_found"}
  BY <1>3, <1>5, Zenon DEF BuildInv, Stages, Causes, RefusalHasCause
<1> QED
  BY <1>4, <1>5, FaultNames DEF Check, Reject

\* The checks after it.
LEMMA FinishKept ==
  ASSUME BuildInv, Finish
  PROVE  BuildInv'
<1>1. /\ stage = "walk" /\ source' = source /\ ranged' = ranged /\ visited' = visited /\ path' = path
      /\ path = <<>> /\ ranged = Keys /\ cause = ""
  BY Zenon DEF Finish, BuildInv
<1>2. /\ Definitions' = Definitions /\ Keys' = Keys /\ GroupFaults' = GroupFaults
      /\ ValidFeatures' = ValidFeatures /\ DependencyFaults' = DependencyFaults
  BY <1>1, SameInput, Zenon
<1>3. /\ Arguments(source') /\ ranged' \subseteq Keys' /\ visited' \in Seq(Keys')
      /\ path' \in Seq(Frames(Definitions'))
  BY <1>1, <1>2, Zenon DEF BuildInv
<1>4. CASE GroupFaults = {} /\ stage' = "accepted" /\ cause' = cause
  <2>1. WalkOK(Definitions', ranged', visited', path') /\ ValidFeatures' /\ DependencyFaults' = {}
    BY <1>1, <1>2, Zenon DEF BuildInv
  <2> QED
    BY <1>1, <1>2, <1>3, <1>4, <2>1, Zenon DEF BuildInv, Stages, Causes, RefusalHasCause
<1>5. CASE stage' = "rejected" /\ cause' \in {"invalid", "not_found"}
  BY <1>3, <1>5, Zenon DEF BuildInv, Stages, Causes, RefusalHasCause
<1> QED
  BY <1>4, <1>5, FaultNames DEF Finish, Reject

\* A step of the walk that goes on.
LEMMA WalkGoesOn ==
  ASSUME BuildInv, stage = "walk", UNCHANGED <<source, stage, cause>>,
         ranged' \subseteq Keys, WalkOK(Definitions, ranged', visited', path')
  PROVE  BuildInv'
<1>1. /\ Definitions' = Definitions /\ Keys' = Keys
      /\ ValidFeatures' = ValidFeatures /\ DependencyFaults' = DependencyFaults
  BY SameInput
<1>2. visited' \in Seq(Keys) /\ path' \in Seq(Frames(Definitions))
  BY DEF WalkOK, Keys
<1> QED
  BY <1>1, <1>2, Zenon DEF BuildInv, RefusalHasCause

\* A step of the walk that ends it.
LEMMA WalkEnds ==
  ASSUME BuildInv, stage' = "rejected", source' = source, ranged' \subseteq Keys, visited' = visited,
         path' \in Seq(Frames(Definitions)),
         \/ cause' = "cycle" /\ Cyclic(Definitions)
         \/ cause' = "depth" /\ TooDeep(Definitions)
  PROVE  BuildInv'
<1>1. Definitions' = Definitions /\ Keys' = Keys
  BY SameInput
<1> QED
  BY <1>1, Zenon DEF BuildInv, Stages, Causes, RefusalHasCause

\* The loop over the map.
LEMMA RootKept ==
  ASSUME BuildInv, NEW k \in Keys, Root(k)
  PROVE  BuildInv'
<1>1. /\ stage = "walk" /\ path = <<>> /\ source' = source /\ visited' = visited
      /\ ranged' = ranged \cup {k} /\ visit(k, 0, path)
  BY DEF Root
<1>2. /\ WalkOK(Definitions, ranged, visited, <<>>) /\ Graph(Definitions) /\ ranged' \subseteq Keys
  BY <1>1, Checked, Zenon DEF BuildInv
<1>3. ~(0 > Limits.MaxEvaluationDepth) /\ visiting = {}
  BY <1>1, DepthAssumption DEF visiting
<1>4. /\ path' = IF k \in ToSet(visited) THEN <<>> ELSE Append(<<>>, [key |-> k, next |-> 1])
      /\ UNCHANGED <<stage, cause>>
  BY <1>1, <1>3 DEF visit
<1>5. /\ k \in ToSet(visited) => WalkOK(Definitions, ranged \cup {k}, visited, <<>>)
      /\ WalkOK(Definitions, ranged \cup {k}, visited, Append(<<>>, [key |-> k, next |-> 1]))
  BY <1>2, RootWalk DEF Keys
<1>6. WalkOK(Definitions, ranged', visited', path')
  BY <1>1, <1>4, <1>5
<1> QED
  BY <1>1, <1>2, <1>4, <1>6, WalkGoesOn

\* The innermost call returns.
LEMMA LeaveKept ==
  ASSUME BuildInv, Leave
  PROVE  BuildInv'
<1>1. /\ stage = "walk" /\ path # <<>> /\ UNCHANGED <<source, stage, cause, ranged>>
      /\ Last(path).next > Len(Edges(Definitions, Last(path).key))
      /\ visited' = Append(visited, Last(path).key) /\ path' = Front(path)
  BY DEF Leave, Dependencies, Edges
<1>2. /\ WalkOK(Definitions, ranged, visited, path) /\ Graph(Definitions) /\ ranged' \subseteq Keys
  BY <1>1, Checked, Zenon DEF BuildInv
<1>3. WalkOK(Definitions, ranged', visited', path')
  BY <1>1, <1>2, LeaveWalk
<1> QED
  BY <1>1, <1>2, <1>3, WalkGoesOn

\* The innermost call goes on to its next dependency.
LEMMA DescendKept ==
  ASSUME BuildInv, Descend
  PROVE  BuildInv'
<1> DEFINE top == Last(path)
           k == Edges(Definitions, top.key)[top.next].key
<1>1. /\ stage = "walk" /\ path # <<>> /\ UNCHANGED <<source, ranged, visited>>
      /\ top.next <= Len(Edges(Definitions, top.key))
      /\ visit(k, Len(path), Callers(path))
  BY DEF Descend, Dependencies, Edges, Callers
<1>2. /\ WalkOK(Definitions, ranged, visited, path) /\ Graph(Definitions) /\ ranged' \subseteq Keys
  BY <1>1, Checked, Zenon DEF BuildInv
<1>3. path \in Seq(Frames(Definitions)) /\ Callers(path) \in Seq(Frames(Definitions))
  BY <1>1, Advanced, Zenon DEF BuildInv
<1>4. CASE /\ Len(path) > Limits.MaxEvaluationDepth
           /\ Reject("depth") /\ path' = Callers(path)
  <2>1. TooDeep(Definitions)
    BY <1>1, <1>2, <1>4, WalkDeep
  <2> QED
    BY <1>1, <1>2, <1>3, <1>4, <2>1, WalkEnds DEF Reject
<1>5. CASE k \in visiting /\ Reject("cycle") /\ path' = Callers(path)
  <2>1. Cyclic(Definitions)
    BY <1>1, <1>2, <1>5, WalkCycle DEF visiting
  <2> QED
    BY <1>1, <1>2, <1>3, <1>5, <2>1, WalkEnds DEF Reject
<1>6. CASE k \notin visiting /\ k \in ToSet(visited) /\ path' = Callers(path) /\ UNCHANGED <<stage, cause>>
  <2>1. WalkOK(Definitions, ranged, visited, Callers(path))
    BY <1>1, <1>2, <1>6, SkipWalk
  <2> QED
    BY <1>1, <1>2, <1>6, <2>1, WalkGoesOn
<1>7. CASE /\ k \notin visiting /\ path' = Append(Callers(path), [key |-> k, next |-> 1])
           /\ UNCHANGED <<stage, cause>>
  <2>1. WalkOK(Definitions, ranged, visited, Append(Callers(path), [key |-> k, next |-> 1]))
    BY <1>1, <1>2, <1>7, PushWalk DEF visiting
  <2> QED
    BY <1>1, <1>2, <1>7, <2>1, WalkGoesOn
<1> HIDE DEF k
<1> QED
  BY <1>1, <1>4, <1>5, <1>6, <1>7 DEF visit

\* Every step of the construction keeps its invariant.
LEMMA BuildKept ==
  ASSUME BuildInv, BuildStep
  PROVE  BuildInv'
BY CheckKept, RootKept, DescendKept, LeaveKept, FinishKept DEF BuildStep

=============================================================================
