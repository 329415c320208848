--------------------------- MODULE NaturalNumbers ---------------------------
(***************************************************************************)
(* Minimum, induction and iteration over the natural numbers, stated with  *)
(* sets instead of predicates: a proof by induction forms the set of the   *)
(* numbers that have the property, and cites the lemma for that set.  And  *)
(* what follows by it: numbers can be listed along a total preorder, and   *)
(* division leaves one remainder.                                          *)
(***************************************************************************)
EXTENDS Integers, WellFoundedInduction, TLAPS

\* A step that names no prover is tried with the SMT solver, with Zenon, and with the
\* solver for longer.
USE SMTT(10), Zenon, SMTT(30)

\* Some number of a nonempty set is the smallest.
LEMMA Smallest ==
  ASSUME NEW S \in SUBSET Nat, S # {}
  PROVE  \E m \in S : \A n \in S : m <= n
<1> DEFINE Below == {p \in Nat \X Nat : p[1] < p[2]}
<1>1. IsWellFoundedOn(Below, Nat)
  BY NatLessThanWellFounded DEF OpToRel
<1>2. \A m, n \in Nat : <<n, m>> \in Below <=> n < m
  OBVIOUS
<1> HIDE DEF Below
<1>3. PICK m \in S : \A n \in S : ~(<<n, m>> \in Below)
  BY <1>1, WFMin, Zenon
<1>4. ASSUME NEW n \in S PROVE m <= n
  <2>1. m \in Nat /\ n \in Nat /\ ~(n < m)
    BY <1>2, <1>3, Zenon
  <2> QED
    BY <2>1
<1> QED
  BY <1>4

\* A set that holds zero and the successor of each of its members holds every number.
LEMMA Induction ==
  ASSUME NEW S \in SUBSET Nat, 0 \in S, \A n \in S : n + 1 \in S
  PROVE  S = Nat
<1> SUFFICES ASSUME Nat \ S # {} PROVE FALSE
  BY Zenon
<1>1. PICK m \in Nat \ S : \A n \in Nat \ S : m <= n
  <2>1. Nat \ S \in SUBSET Nat
    OBVIOUS
  <2> QED
    BY <2>1, Smallest, Zenon
<1>2. m \in Nat /\ m # 0
  BY <1>1
<1>3. m - 1 \in Nat /\ ~(m <= m - 1)
  BY <1>2
<1>4. m - 1 \in S
  BY <1>1, <1>3
<1>5. (m - 1) + 1 = m
  BY <1>2
<1> QED
  BY <1>1, <1>4, <1>5

\* The values f takes are those of F applied again and again.
Iterates(f, F, x) == f[0] = x /\ \A n \in Nat : f[n + 1] = F[f[n]]

\* A function on a set has iterates: what a definition by recursion over the numbers
\* defines.
LEMMA Iteration ==
  ASSUME NEW X, NEW F \in [X -> X], NEW x \in X
  PROVE  \E f \in [Nat -> X] : Iterates(f, F, x)
<1> DEFINE Walks(f, n) ==
             f \in [0..n -> X] /\ f[0] = x /\ \A m \in Nat : m + 1 <= n => f[m + 1] = F[f[m]]
           S == {n \in Nat : \E f : Walks(f, n)}
<1>1. 0 \in S
  <2>1. Walks([m \in 0..0 |-> x], 0)
    OBVIOUS
  <2> QED
    BY <2>1
<1>2. ASSUME NEW n \in S PROVE n + 1 \in S
  <2>1. PICK f : Walks(f, n)
    BY <1>2
  <2> DEFINE h == [m \in 0..(n + 1) |-> IF m = n + 1 THEN F[f[n]] ELSE f[m]]
  <2>2. n \in Nat /\ n \in 0..n /\ f[n] \in X /\ F[f[n]] \in X
    BY <1>2, <2>1
  <2>3. \A m \in 0..(n + 1) : m # n + 1 => m \in 0..n /\ h[m] = f[m] /\ f[m] \in X
    BY <2>1, <2>2
  <2>4. h[n + 1] = F[f[n]]
    BY <2>2
  <2>5. h \in [0..(n + 1) -> X]
    BY <2>2, <2>3
  <2>6. h[0] = x
    BY <2>1, <2>2, <2>3
  <2>7. ASSUME NEW m \in Nat, m + 1 <= n + 1 PROVE h[m + 1] = F[h[m]]
    <3>1. m \in 0..(n + 1) /\ m # n + 1 /\ m + 1 \in 0..(n + 1)
      BY <2>2, <2>7
    <3>2. h[m] = f[m]
      BY <2>3, <3>1
    <3>3. CASE m = n
      BY <2>4, <3>2, <3>3
    <3>4. CASE m # n
      <4>1. m + 1 # n + 1 /\ m + 1 <= n
        BY <2>2, <2>7, <3>4
      <4>2. h[m + 1] = f[m + 1]
        BY <2>3, <3>1, <4>1
      <4> QED
        BY <2>1, <3>2, <4>1, <4>2
    <3> QED
      BY <3>3, <3>4
  <2>8. Walks(h, n + 1)
    BY <2>5, <2>6, <2>7, Zenon
  <2> HIDE DEF h, Walks
  <2> QED
    BY <2>2, <2>8
<1>3. S \in SUBSET Nat
  OBVIOUS
<1>4. \A n \in Nat : \E f : Walks(f, n)
  <2>1. S = Nat
    <3> HIDE DEF S
    <3> QED
      BY <1>1, <1>2, <1>3, Induction
  <2> QED
    BY <2>1, Zenon
<1>5. ASSUME NEW n \in Nat, NEW k \in Nat, NEW f, NEW g, Walks(f, n), Walks(g, k), n <= k
      PROVE  f[n] = g[n]
  <2> DEFINE T == {m \in Nat : m <= n => f[m] = g[m]}
  <2>1. 0 \in T
    BY <1>5
  <2>2. ASSUME NEW m \in T PROVE m + 1 \in T
    <3>1. m \in Nat /\ (m <= n => f[m] = g[m])
      BY <2>2
    <3>2. CASE m + 1 <= n
      <4>1. m <= n /\ m + 1 <= k
        BY <1>5, <3>1, <3>2
      <4>2. f[m + 1] = F[f[m]] /\ g[m + 1] = F[g[m]]
        BY <1>5, <3>1, <3>2, <4>1
      <4> QED
        BY <3>1, <4>1, <4>2
    <3> QED
      BY <3>1, <3>2
  <2>3. T \in SUBSET Nat
    OBVIOUS
  <2>4. T = Nat
    <3> HIDE DEF T
    <3> QED
      BY <2>1, <2>2, <2>3, Induction
  <2>5. n \in T /\ n <= n
    BY <2>4
  <2> QED
    BY <2>5
<1> DEFINE W(n) == CHOOSE f : Walks(f, n)
           h == [n \in Nat |-> W(n)[n]]
<1>6. \A n \in Nat : Walks(W(n), n)
  <2> HIDE DEF Walks
  <2> QED
    BY <1>4
<1>7. ASSUME NEW n \in Nat PROVE h[n] \in X
  <2>1. W(n) \in [0..n -> X] /\ n \in 0..n
    BY <1>6
  <2>2. W(n)[n] \in X
    <3> HIDE DEF W
    <3> QED
      BY <2>1
  <2> QED
    BY <2>2
<1>8. h[0] = x
  BY <1>6, Zenon
<1>9. ASSUME NEW n \in Nat PROVE h[n + 1] = F[h[n]]
  <2>1. n + 1 \in Nat /\ n <= n + 1 /\ n + 1 <= n + 1
    OBVIOUS
  <2>2. Walks(W(n), n) /\ Walks(W(n + 1), n + 1)
    BY <1>6, <2>1, Zenon
  <2>3. W(n)[n] = W(n + 1)[n]
    <3> HIDE DEF W, Walks
    <3> QED
      BY <1>5, <2>1, <2>2
  <2>4. W(n + 1)[n + 1] = F[W(n + 1)[n]]
    <3> HIDE DEF W
    <3> QED
      BY <2>1, <2>2
  <2>5. h[n + 1] = W(n + 1)[n + 1] /\ h[n] = W(n)[n]
    BY <2>1
  <2> HIDE DEF W, h
  <2> QED
    BY <2>3, <2>4, <2>5
<1>10. h \in [Nat -> X]
  <2>1. h = [n \in Nat |-> h[n]]
    OBVIOUS
  <2> HIDE DEF h
  <2> QED
    BY <1>7, <2>1
<1> HIDE DEF h
<1> QED
  BY <1>8, <1>9, <1>10 DEF Iterates

\* The numbers up to any bound can be listed along a total preorder: the next number
\* is put before the first that does not come before it.
LEMMA Listing ==
  ASSUME NEW n \in Nat, NEW R,
         \A a, b \in 1..n : <<a, b>> \in R \/ <<b, a>> \in R,
         \A a, b, c \in 1..n : <<a, b>> \in R /\ <<b, c>> \in R => <<a, c>> \in R
  PROVE  \E p \in [1..n -> 1..n] :
           \A i, j \in 1..n : i < j => p[i] # p[j] /\ <<p[i], p[j]>> \in R
<1> DEFINE Lists(p, m) == /\ p \in [1..m -> 1..m]
                          /\ \A i, j \in 1..m : i < j => p[i] # p[j] /\ <<p[i], p[j]>> \in R
           S == {m \in Nat : m <= n => \E p : Lists(p, m)}
<1>1. 0 \in S
  <2>1. Lists([i \in 1..0 |-> i], 0)
    OBVIOUS
  <2> QED
    BY <2>1, Zenon
<1>2. ASSUME NEW m \in S PROVE m + 1 \in S
  <2> SUFFICES ASSUME m + 1 <= n PROVE \E p : Lists(p, m + 1)
    <3> HIDE DEF Lists
    <3> QED
      BY <1>2
  <2>1. m \in Nat /\ m <= n
    BY <1>2
  <2>2. PICK p : Lists(p, m)
    BY <1>2, <2>1
  <2> DEFINE C == {c \in Nat : c \in 1..m /\ <<m + 1, p[c]>> \in R} \cup {m + 1}
  <2>3. C \in SUBSET Nat /\ m + 1 \in C
    BY <2>1
  <2>4. PICK c \in C : \A d \in C : c <= d
    <3> HIDE DEF C
    <3> QED
      BY <2>3, Smallest, Zenon
  <2>5. c \in Nat /\ c >= 1 /\ c <= m + 1
    BY <2>1, <2>4
  <2>6. \A i \in 1..m : p[i] \in 1..m /\ p[i] \in 1..n /\ p[i] # m + 1
    <3>1. \A k \in 1..m : k \in 1..n /\ k # m + 1
      BY <2>1
    <3> QED
      BY <2>2, <3>1
  <2>7. m + 1 \in 1..n
    BY <2>1
  <2>8. ASSUME NEW i \in 1..m, i < c PROVE <<p[i], m + 1>> \in R
    <3>1. i \notin C
      BY <2>1, <2>4, <2>5, <2>8
    <3>2. <<m + 1, p[i]>> \notin R
      BY <2>1, <3>1
    <3> HIDE DEF Lists
    <3> QED
      BY <2>6, <2>7, <3>2
  <2>9. ASSUME NEW i \in 1..m, i >= c PROVE <<m + 1, p[i]>> \in R
    <3>1. c \in 1..m /\ <<m + 1, p[c]>> \in R
      BY <2>1, <2>4, <2>5, <2>9
    <3>2. CASE i = c
      BY <3>1, <3>2
    <3>3. CASE i # c
      <4>1. <<p[c], p[i]>> \in R
        BY <2>1, <2>2, <2>5, <2>9, <3>1, <3>3
      <4> HIDE DEF Lists
      <4> QED
        BY <2>6, <2>7, <3>1, <4>1
    <3> QED
      BY <3>2, <3>3
  <2> HIDE DEF C
  <2> DEFINE q == [i \in 1..(m + 1) |-> IF i < c THEN p[i] ELSE IF i = c THEN m + 1 ELSE p[i - 1]]
  <2>10. \A i \in 1..(m + 1) : i < c => i \in 1..m /\ q[i] = p[i]
    BY <2>1, <2>5
  <2>11. \A i \in 1..(m + 1) : i > c => i - 1 \in 1..m /\ i - 1 >= c /\ q[i] = p[i - 1]
    BY <2>1, <2>5
  <2>12. c \in 1..(m + 1) /\ q[c] = m + 1
    BY <2>1, <2>5
  <2>13. \A i, j \in 1..m : i < j => p[i] # p[j] /\ <<p[i], p[j]>> \in R
    BY <2>2
  <2>14. ASSUME NEW i \in 1..(m + 1) PROVE q[i] \in 1..(m + 1)
    <3> HIDE DEF q, Lists
    <3>1. i < c \/ i = c \/ i > c
      BY <2>5
    <3> QED
      BY <2>1, <2>6, <2>10, <2>11, <2>12, <3>1
  <2>15. ASSUME NEW i \in 1..(m + 1), NEW j \in 1..(m + 1), i < j
         PROVE  q[i] # q[j] /\ <<q[i], q[j]>> \in R
    <3> HIDE DEF q, Lists
    <3>1. CASE j < c
      <4>1. i < c
        BY <2>5, <2>15, <3>1
      <4> QED
        BY <2>10, <2>13, <2>15, <3>1, <4>1
    <3>2. CASE j = c
      BY <2>6, <2>8, <2>10, <2>12, <2>15, <3>2
    <3>3. CASE j > c /\ i < c
      <4>1. i \in 1..m /\ j - 1 \in 1..m /\ i < j - 1
        BY <2>5, <2>10, <2>11, <3>3
      <4> QED
        BY <2>10, <2>11, <2>13, <3>3, <4>1
    <3>4. CASE i = c
      <4>1. j > c
        BY <2>15, <3>4
      <4> QED
        BY <2>6, <2>9, <2>11, <2>12, <3>4, <4>1
    <3>5. CASE i > c
      <4>1. j > c /\ i - 1 < j - 1
        BY <2>5, <2>15, <3>5
      <4> QED
        BY <2>11, <2>13, <3>5, <4>1
    <3> QED
      BY <2>5, <3>1, <3>2, <3>3, <3>4, <3>5
  <2>16. q \in [1..(m + 1) -> 1..(m + 1)]
    BY <2>14
  <2>17. Lists(q, m + 1)
    <3> HIDE DEF q
    <3> QED
      BY <2>15, <2>16
  <2> HIDE DEF q, Lists
  <2> QED
    BY <2>17
<1>3. S \in SUBSET Nat
  OBVIOUS
<1>4. S = Nat
  <2> HIDE DEF S
  <2> QED
    BY <1>1, <1>2, <1>3, Induction
<1>5. \E p : Lists(p, n)
  <2>1. n \in S /\ n <= n
    <3> HIDE DEF S
    <3> QED
      BY <1>4
  <2> HIDE DEF Lists
  <2> QED
    BY <2>1
<1> QED
  BY <1>5, Zenon

\* Division with remainder.
LEMMA Division ==
  ASSUME NEW x \in Int, NEW W \in Nat \ {0}
  PROVE  /\ x \div W \in Int /\ x % W \in 0..W - 1
         /\ x = W * (x \div W) + (x % W)
<1>1. x \div W \in Int /\ x % W \in 0..W - 1
  OBVIOUS
<1>2. x = W * (x \div W) + (x % W)
  OBVIOUS
<1> QED
  BY <1>1, <1>2

\* A multiple of W other than 0 is at least W away from it.
LEMMA Multiple ==
  ASSUME NEW W \in Nat \ {0}, NEW k \in Int
  PROVE  /\ k >= 1 => k * W >= W
         /\ k <= -1 => k * W <= -W
OBVIOUS

\* The remainder is determined by any quotient that leaves less than W.
LEMMA Remainder ==
  ASSUME NEW W \in Nat \ {0}, NEW q \in Int, NEW r \in 0..W - 1, NEW x \in Int, x = q * W + r
  PROVE  x % W = r
<1> DEFINE Q == x \div W
           R == x % W
<1>1. Q \in Int /\ R \in 0..W - 1 /\ x = W * Q + R
  BY Division
<1> HIDE DEF Q, R
<1>2. (Q - q) * W = Q * W - q * W
  BY <1>1
<1>3. (Q - q) * W = r - R
  BY <1>1, <1>2
<1>4. Q - q = 0
  <2> DEFINE k == Q - q
  <2>1. k \in Int /\ k * W = r - R
    BY <1>1, <1>3
  <2> HIDE DEF k
  <2>2. k * W \in Int /\ k * W < W /\ k * W > -W
    BY <1>1, <2>1
  <2>3. ~(k >= 1) /\ ~(k <= -1)
    BY <2>1, <2>2, Multiple
  <2>4. k = 0
    BY <2>1, <2>3
  <2> QED
    BY <2>4 DEF k
<1>5. r = R
  BY <1>1, <1>3, <1>4
<1> QED
  BY <1>5 DEF R

=============================================================================
