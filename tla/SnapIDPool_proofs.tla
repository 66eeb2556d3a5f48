-------------------------- MODULE SnapIDPool_proofs --------------------------
(***************************************************************************)
(* Proofs about SnapIDPool, for any number of numbers and any rest.        *)
(***************************************************************************)
EXTENDS SnapIDPool, FiniteSetTheorems, NaturalsInduction, WellFoundedInduction, TLAPS

-----------------------------------------------------------------------------
(* Lists.                                                                  *)

Distinct(q) == \A k, m \in 1 .. Len(q) : q[k] = q[m] => k = m

In(q) == {q[k] : k \in 1 .. Len(q)}

At(q, k) == IF k \in 1 .. Len(q) THEN q[k] ELSE None

\* From a number on, q are the numbers that follow each other in a.
Linked(a, from, q) ==
    /\ q \in Seq(Ids) /\ Distinct(q)
    /\ from = At(q, 1)
    /\ \A k \in 1 .. Len(q) : a[q[k]].next = At(q, k + 1)

\* The least element of a set of numbers, from which inductions start.
LEMMA Least == ASSUME NEW S, S \subseteq Nat, S # {} PROVE \E x \in S : \A y \in S : x <= y
<1>2. \E x \in S : \A y \in S : ~ (<<y, x>> \in OpToRel(<, Nat))
  <2>1. IsWellFoundedOn(OpToRel(<, Nat), Nat)  BY NatLessThanWellFounded
  <2>. QED  BY <2>1, WFMin, Zenon
<1>3. \A x \in Nat, y \in Nat : <<y, x>> \in OpToRel(<, Nat) <=> y < x
  BY Zenon DEF OpToRel
<1>4. PICK x \in S : \A y \in S : ~ (<<y, x>> \in OpToRel(<, Nat))  BY <1>2
<1>5. \A y \in S : ~ (y < x)  BY <1>3, <1>4, Zenon
<1>6. \A y \in S : x <= y
  <2> TAKE y \in S
  <2>1. y \in Nat /\ x \in Nat  OBVIOUS
  <2>. QED  BY <1>5, <2>1
<1>. QED  BY <1>6

LEMMA IdsFinite == IsFiniteSet(Ids) /\ Cardinality(Ids) = MAX_IDS /\ None \notin Ids
<1>1. 0 \in Int /\ MAX_IDS - 1 \in Int /\ MAX_IDS \in Nat \ {0}  BY IdsAssumption
<1>2. IsFiniteSet(0 .. MAX_IDS - 1)
      /\ Cardinality(0 .. MAX_IDS - 1) = IF 0 > MAX_IDS - 1 THEN 0 ELSE (MAX_IDS - 1) - 0 + 1
  BY <1>1, FS_Interval
<1>. QED  BY <1>1, <1>2 DEF Ids, None

\* A list has as many numbers as it is long, and no more than there are.
LEMMA DistinctCounts ==
    ASSUME NEW q \in Seq(Ids), Distinct(q)
    PROVE  IsFiniteSet(In(q)) /\ Cardinality(In(q)) = Len(q) /\ Len(q) <= MAX_IDS
<1>1. Len(q) \in Nat /\ q \in [1 .. Len(q) -> Ids]  OBVIOUS
<1>2. ExistsBijection(1 .. Len(q), In(q))
  <2>1. q \in [1 .. Len(q) -> In(q)]  BY <1>1 DEF In
  <2>2. \A i \in In(q) : \E k \in 1 .. Len(q) : q[k] = i  BY DEF In
  <2>3. \A k, m \in DOMAIN q : q[k] = q[m] => k = m  BY <1>1 DEF Distinct
  <2>. QED
    BY <2>1, <2>2, <2>3 DEF ExistsBijection, Bijection, Injection, Surjection, IsInjective
<1>3. Cardinality(In(q)) = Len(q)  BY <1>1, <1>2, FS_CountingElements
<1>4. In(q) \subseteq Ids  BY <1>1 DEF In
<1>5. IsFiniteSet(In(q)) /\ Cardinality(In(q)) <= Cardinality(Ids)
  BY <1>4, IdsFinite, FS_Subset
<1>. QED  BY <1>3, <1>5, IdsFinite

\* What ListFrom makes of a list are its numbers.
LEMMA ListIs ==
    ASSUME NEW from, NEW q, Linked(ids, from, q)
    PROVE  ListFrom(from) = q
<1>1. q \in Seq(Ids) /\ Len(q) \in Nat /\ Len(q) <= MAX_IDS /\ MAX_IDS \in Nat
  BY DistinctCounts, IdsAssumption DEF Linked
<1> DEFINE N == Len(q)
           X == Ids \cup {None}
           row(f, n) == [i \in X |-> IF i = None \/ n = 0 THEN <<>>
                                     ELSE <<i>> \o f[n - 1][ids[i].next]]
           starts(h, k) == h = [n \in 0 .. k |-> row(h, n)]
           started(k) == \E h : starts(h, k)
           bad == {k \in Nat : ~ started(k)}
<1>0. ASSUME NEW k PROVE started(k) <=> \E h : starts(h, k)
  OBVIOUS
<1> HIDE DEF started
<1>2. bad = {}
  <2> SUFFICES ASSUME bad # {} PROVE FALSE
    OBVIOUS
  <2>1. PICK k \in bad : \A j \in bad : k <= j
    <3>1. bad \subseteq Nat  OBVIOUS
    <3>. QED  BY <3>1, Least
  <2>2. k \in Nat /\ ~ started(k)  BY <2>1
  <2>3. CASE k = 0
    <3> DEFINE h == [n \in 0 .. 0 |-> [i \in X |-> <<>>]]
    <3>1. \A n \in 0 .. 0 : row(h, n) = [i \in X |-> <<>>]  OBVIOUS
    <3>2. starts(h, 0)  BY <3>1
    <3>. QED  BY <1>0, <2>2, <2>3, <3>2
  <2>4. CASE k # 0
    <3>1. k - 1 \in Nat /\ k - 1 \notin bad  BY <2>1, <2>2, <2>4
    <3>2. PICK h : starts(h, k - 1)
      <4>1. started(k - 1)  BY <3>1
      <4>. QED  BY <1>0, <4>1
    <3> DEFINE g == [n \in 0 .. k |-> IF n = k THEN row(h, k) ELSE h[n]]
    <3>3. ASSUME NEW n \in 0 .. k PROVE g[n] = row(g, n)
      <4>1. n # 0 => g[n - 1] = h[n - 1]  BY <2>2
      <4>2. row(g, n) = row(h, n)  BY <4>1
      <4>3. n # k => n \in 0 .. k - 1  BY <2>2
      <4>4. n # k => h[n] = row(h, n)  BY <3>2, <4>3
      <4> HIDE DEF row
      <4>. QED  BY <4>2, <4>4
    <3>4. DOMAIN g = 0 .. k /\ g = [n \in 0 .. k |-> g[n]]  OBVIOUS
    <3> HIDE DEF g, row
    <3>5. starts(g, k)  BY <3>3, <3>4
    <3>. QED  BY <1>0, <2>2, <3>5
  <2>. QED  BY <2>3, <2>4
<1>3. PICK h : starts(h, MAX_IDS)
  <2>1. started(MAX_IDS)  BY <1>1, <1>2
  <2>. QED  BY <1>0, <2>1
<1> DEFINE f == CHOOSE f : f = [n \in 0 .. MAX_IDS |-> row(f, n)]
<1>4. f = [n \in 0 .. MAX_IDS |-> row(f, n)]  BY <1>3
<1>5. ListFrom(from) = f[MAX_IDS][from]  BY DEF ListFrom
<1> HIDE DEF f
<1>6. \A n \in 0 .. MAX_IDS : f[n] = row(f, n)
  <2> HIDE DEF row
  <2>. QED  BY <1>4
<1>7. \A n \in 0 .. MAX_IDS : f[n][None] = <<>>
  BY <1>6
<1>8. \A n \in 1 .. MAX_IDS : \A i \in Ids : f[n][i] = <<i>> \o f[n - 1][ids[i].next]
  <2> SUFFICES ASSUME NEW n \in 1 .. MAX_IDS, NEW i \in Ids
               PROVE  f[n][i] = <<i>> \o f[n - 1][ids[i].next]
    OBVIOUS
  <2>1. n \in 0 .. MAX_IDS /\ n # 0 /\ i # None  BY IdsFinite
  <2>. QED  BY <1>6, <2>1
<1>9. \A k \in 1 .. N : q[k] \in Ids /\ ids[q[k]].next = At(q, k + 1)
  BY <1>1 DEF Linked
\* With n places left, all from the last number but m on are listed.
<1> DEFINE rest(m) == SubSeq(q, N + 1 - m, N)
           right(m) == \A n \in m .. MAX_IDS : f[n][At(q, N + 1 - m)] = rest(m)
           wrong == {m \in 0 .. N : ~ right(m)}
<1>10. ASSUME NEW m PROVE right(m) <=> \A n \in m .. MAX_IDS : f[n][At(q, N + 1 - m)] = rest(m)
  OBVIOUS
<1> HIDE DEF right, row
<1>11. wrong = {}
  <2> SUFFICES ASSUME wrong # {} PROVE FALSE
    OBVIOUS
  <2>1. PICK m \in wrong : \A j \in wrong : m <= j
    <3>1. wrong \subseteq Nat  BY <1>1
    <3>. QED  BY <3>1, Least
  <2>2. m \in 0 .. N /\ ~ right(m)  BY <2>1
  <2>3. CASE m = 0
    <3>1. At(q, N + 1 - m) = None /\ rest(m) = <<>>  BY <1>1, <2>3 DEF At
    <3>. QED  BY <1>1, <1>7, <1>10, <2>2, <2>3, <3>1
  <2>4. CASE m # 0
    <3>1. m - 1 \in 0 .. N /\ m - 1 \notin wrong  BY <1>1, <2>1, <2>2, <2>4
    <3>2. right(m - 1)  BY <3>1
    <3> DEFINE k == N + 1 - m
    <3>3. k \in 1 .. N /\ N + 1 - (m - 1) = k + 1  BY <1>1, <2>2, <2>4
    <3>4. ASSUME NEW n \in m .. MAX_IDS PROVE f[n][At(q, k)] = rest(m)
      <4>1. n \in 1 .. MAX_IDS /\ n - 1 \in m - 1 .. MAX_IDS  BY <1>1, <2>2, <2>4
      <4>2. At(q, k) = q[k]  BY <3>3 DEF At
      <4>3. f[n][q[k]] = <<q[k]>> \o f[n - 1][At(q, k + 1)]  BY <1>8, <1>9, <3>3, <4>1
      <4>4. f[n - 1][At(q, k + 1)] = SubSeq(q, k + 1, N)  BY <1>10, <3>2, <3>3, <4>1
      <4>5. <<q[k]>> \o SubSeq(q, k + 1, N) = SubSeq(q, k, N)  BY <1>1, <3>3
      <4>. QED  BY <4>2, <4>3, <4>4, <4>5
    <3>. QED  BY <1>10, <2>2, <3>4
  <2>. QED  BY <2>3, <2>4
<1>12. right(N)  BY <1>1, <1>11
<1>13. f[MAX_IDS][At(q, 1)] = SubSeq(q, 1, N)
  <2>1. MAX_IDS \in N .. MAX_IDS /\ N + 1 - N = 1  BY <1>1
  <2>. QED  BY <1>10, <1>12, <2>1
<1>. QED  BY <1>1, <1>5, <1>13 DEF Linked

-----------------------------------------------------------------------------
(* What each operation does to the two lists.                              *)

\* The numbers are f, the free ones, t, those that rest, and those in use.
Shared(a, ff, ft, lt, us, iu, f, t) ==
    /\ a \in [Ids -> [next : Ids \cup {None}, state : {"free", "allocated", "timed"},
                      left : Int]]
    /\ Linked(a, ff, f) /\ Linked(a, ft, t)
    /\ lt = At(t, Len(t))
    /\ \A i \in Ids : /\ a[i].state = "free" <=> i \in In(f)
                      /\ a[i].state = "timed" <=> i \in In(t)
    /\ us = MAX_IDS - Len(f) /\ iu = us - Len(t)

\* Released, of any numbers and list
WithReleased(a, ff, t, n) ==
    [i \in Ids |->
        IF \E m \in 1 .. n : t[m] = i
        THEN LET m == CHOOSE m \in 1 .. n : t[m] = i
             IN  [a[i] EXCEPT !.next = IF m = 1 THEN ff ELSE t[m - 1],
                              !.state = "free", !.left = 0]
        ELSE a[i]]

\* The first n that rest are put before the free ones, the last of them first.
LEMMA ReleaseKeeps ==
    ASSUME NEW a, NEW ff, NEW ft, NEW lt, NEW us, NEW iu, NEW f, NEW t,
           Shared(a, ff, ft, lt, us, iu, f, t), NEW n \in 0 .. Len(t), NEW b,
           b = WithReleased(a, ff, t, n)
    PROVE  \E g : /\ Shared(b, IF n = 0 THEN ff ELSE t[n],
                            IF n = Len(t) THEN None ELSE t[n + 1],
                            IF n = Len(t) THEN None ELSE lt, us - n, iu,
                            g, SubSeq(t, n + 1, Len(t)))
                  /\ \A i \in Ids : b[i] = a[i] \/ b[i].state = "free"
<1> DEFINE T == Len(t)
           F == Len(f)
           Field == [next : Ids \cup {None}, state : {"free", "allocated", "timed"}, left : Int]
           g == [k \in 1 .. n + F |-> IF k <= n THEN t[n + 1 - k] ELSE f[k - n]]
           u == SubSeq(t, n + 1, T)
           fg == IF n = 0 THEN ff ELSE t[n]
           fu == IF n = T THEN None ELSE t[n + 1]
           lu == IF n = T THEN None ELSE lt
<1>1. /\ a \in [Ids -> Field] /\ f \in Seq(Ids) /\ t \in Seq(Ids)
      /\ T \in Nat /\ F \in Nat /\ n \in Nat /\ n <= T
      /\ f \in [1 .. F -> Ids] /\ t \in [1 .. T -> Ids]
  BY DEF Shared, Linked
<1>2. /\ \A k, m \in 1 .. T : t[k] = t[m] => k = m
      /\ \A k, m \in 1 .. F : f[k] = f[m] => k = m
  BY DEF Shared, Linked, Distinct
<1>3. /\ \A k \in 1 .. T : a[t[k]].next = At(t, k + 1) /\ a[t[k]].state = "timed"
      /\ \A k \in 1 .. F : a[f[k]].next = At(f, k + 1) /\ a[f[k]].state = "free"
  BY <1>1 DEF Shared, Linked, In
<1>4. ff = At(f, 1) /\ ft = At(t, 1) /\ lt = At(t, T)  BY DEF Shared, Linked
<1>5. us = MAX_IDS - F /\ iu = us - T /\ MAX_IDS \in Nat  BY IdsAssumption DEF Shared
<1>6. \A i \in Ids : /\ a[i].state = "free" <=> \E k \in 1 .. F : f[k] = i
                     /\ a[i].state = "timed" <=> \E k \in 1 .. T : t[k] = i
  BY DEF Shared, In
<1>7. \A k \in 1 .. T, m \in 1 .. F : t[k] # f[m]  BY <1>3
<1> HIDE DEF T, F
<1>8. ASSUME NEW m \in 1 .. n
      PROVE  /\ t[m] \in Ids /\ b[t[m]] \in Field /\ b[t[m]].state = "free"
             /\ b[t[m]].next = IF m = 1 THEN ff ELSE t[m - 1]
  <2>1. m \in 1 .. T /\ \A l \in 1 .. n : l \in 1 .. T  BY <1>1
  <2>2. (CHOOSE l \in 1 .. n : t[l] = t[m]) = m  BY <1>2, <2>1
  <2>3. t[m] \in Ids /\ a[t[m]] \in Field  BY <1>1, <2>1
  <2>4. b[t[m]] = [a[t[m]] EXCEPT !.next = IF m = 1 THEN ff ELSE t[m - 1],
                                  !.state = "free", !.left = 0]
    BY <2>2, <2>3 DEF WithReleased
  <2>5. (IF m = 1 THEN ff ELSE t[m - 1]) \in Ids \cup {None}
    <3>1. m # 1 => m - 1 \in 1 .. T  BY <2>1
    <3>2. ff \in Ids \cup {None}  BY <1>1, <1>4 DEF At
    <3>. QED  BY <1>1, <3>1, <3>2
  <2> DEFINE nx == IF m = 1 THEN ff ELSE t[m - 1]
  <2>6. nx \in Ids \cup {None}  BY <2>5
  <2>7. b[t[m]] = [a[t[m]] EXCEPT !.next = nx, !.state = "free", !.left = 0]  BY <2>4
  <2> HIDE DEF nx
  <2>8. b[t[m]] \in Field /\ b[t[m]].state = "free" /\ b[t[m]].next = nx
    <3>1. ASSUME NEW r \in Field, NEW x \in Ids \cup {None}
          PROVE  LET s == [r EXCEPT !.next = x, !.state = "free", !.left = 0]
                 IN  s \in Field /\ s.state = "free" /\ s.next = x
      <4> DEFINE r1 == [r EXCEPT !.next = x]
                 r2 == [r1 EXCEPT !.state = "free"]
                 r3 == [r2 EXCEPT !.left = 0]
      <4>1. [r EXCEPT !.next = x, !.state = "free", !.left = 0] = r3  OBVIOUS
      <4>2. r1 \in Field /\ r1.next = x  OBVIOUS
      <4> HIDE DEF r1
      <4>3. r2 \in Field /\ r2.next = x /\ r2.state = "free"  BY <4>2
      <4> HIDE DEF r2
      <4>4. r3 \in Field /\ r3.next = x /\ r3.state = "free"  BY <4>3
      <4>. QED  BY <4>1, <4>4
    <3> HIDE DEF Field
    <3>2. a[t[m]] \in Field  BY <2>3
    <3> DEFINE s == [a[t[m]] EXCEPT !.next = nx, !.state = "free", !.left = 0]
    <3>3. s \in Field /\ s.state = "free" /\ s.next = nx  BY <2>6, <3>1, <3>2, Zenon
    <3>4. b[t[m]] = s  BY <2>7
    <3> HIDE DEF s
    <3>. QED  BY <3>3, <3>4
  <2>. QED  BY <2>3, <2>8 DEF nx
<1>9. ASSUME NEW i \in Ids, \A m \in 1 .. n : t[m] # i
      PROVE  b[i] = a[i]
  BY <1>9 DEF WithReleased
<1>10. b \in [Ids -> Field]
  <2>1. \A i \in Ids : b[i] \in Field
    <3> SUFFICES ASSUME NEW i \in Ids PROVE b[i] \in Field
      OBVIOUS
    <3>1. CASE \E m \in 1 .. n : t[m] = i  BY <1>8, <3>1
    <3>2. CASE \A m \in 1 .. n : t[m] # i
      <4>1. b[i] = a[i]  BY <1>9, <3>2
      <4>. QED  BY <1>1, <4>1
    <3>. QED  BY <3>1, <3>2
  <2>2. b = [i \in Ids |-> b[i]]  BY DEF WithReleased
  <2> HIDE DEF Field
  <2>. QED  BY <2>1, <2>2
<1>11. /\ g \in Seq(Ids) /\ Len(g) = n + F
       /\ \A k \in 1 .. n : g[k] = t[n + 1 - k]
       /\ \A k \in 1 .. F : g[n + k] = f[k]
  <2>1. \A k \in 1 .. n + F : (k <= n => n + 1 - k \in 1 .. T) /\ (k > n => k - n \in 1 .. F)
    BY <1>1
  <2>2. \A k \in 1 .. n + F : g[k] \in Ids  BY <1>1, <2>1
  <2>3. n + F \in Nat  BY <1>1
  <2>4. g \in Seq(Ids) /\ Len(g) = n + F  BY <2>2, <2>3
  <2>5. \A k \in 1 .. n : k \in 1 .. n + F /\ k <= n  BY <1>1
  <2>6. \A k \in 1 .. F : n + k \in 1 .. n + F /\ ~ (n + k <= n) /\ (n + k) - n = k  BY <1>1
  <2>. QED  BY <2>4, <2>5, <2>6
<1>12. /\ u \in Seq(Ids) /\ Len(u) = T - n
       /\ \A k \in 1 .. T - n : u[k] = t[n + k]
  BY <1>1
<1> HIDE DEF g, u
<1>13. \A k \in 1 .. n + F : k \in 1 .. n \/ (k - n \in 1 .. F /\ k = n + (k - n))
  BY <1>1
<1>14. Distinct(g)
  <2> SUFFICES ASSUME NEW k \in 1 .. n + F, NEW m \in 1 .. n + F, g[k] = g[m]
               PROVE  k = m
    BY <1>11 DEF Distinct
  <2>1. CASE k \in 1 .. n /\ m \in 1 .. n
    <3>1. n + 1 - k \in 1 .. T /\ n + 1 - m \in 1 .. T  BY <1>1, <2>1
    <3>2. n + 1 - k = n + 1 - m  BY <1>2, <1>11, <2>1, <3>1
    <3>. QED  BY <1>1, <3>2
  <2>2. CASE k \in 1 .. n /\ m - n \in 1 .. F /\ m = n + (m - n)
    <3>1. n + 1 - k \in 1 .. T  BY <1>1, <2>2
    <3>. QED  BY <1>7, <1>11, <2>2, <3>1
  <2>3. CASE m \in 1 .. n /\ k - n \in 1 .. F /\ k = n + (k - n)
    <3>1. n + 1 - m \in 1 .. T  BY <1>1, <2>3
    <3>. QED  BY <1>7, <1>11, <2>3, <3>1
  <2>4. CASE m - n \in 1 .. F /\ m = n + (m - n) /\ k - n \in 1 .. F /\ k = n + (k - n)
    <3>1. k - n = m - n  BY <1>2, <1>11, <2>4
    <3>. QED  BY <1>1, <3>1
  <2>. QED  BY <1>13, <2>1, <2>2, <2>3, <2>4
<1>15. fg = At(g, 1)
  <2>1. CASE n = 0
    <3>1. F > 0 => 1 \in 1 .. F  BY <1>1
    <3>. QED  BY <1>1, <1>4, <1>11, <2>1, <3>1 DEF At, F
  <2>2. CASE n # 0
    <3>1. 1 \in 1 .. n /\ 1 \in 1 .. n + F /\ n + 1 - 1 = n  BY <1>1, <2>2
    <3>. QED  BY <1>11, <2>2, <3>1 DEF At
  <2>. QED  BY <2>1, <2>2
<1>16. \A k \in 1 .. n + F : b[g[k]].next = At(g, k + 1)
  <2> SUFFICES ASSUME NEW k \in 1 .. n + F PROVE b[g[k]].next = At(g, k + 1)
    OBVIOUS
  <2>1. CASE k \in 1 .. n
    <3> DEFINE m == n + 1 - k
    <3>1. m \in 1 .. n /\ (m = 1 <=> k = n) /\ m - 1 = n + 1 - (k + 1)  BY <1>1, <2>1
    <3>2. g[k] = t[m]  BY <1>11, <2>1
    <3> HIDE DEF m
    <3>3. b[g[k]].next = IF m = 1 THEN ff ELSE t[m - 1]  BY <1>8, <3>1, <3>2
    <3>4. CASE m = 1
      <4>1. F > 0 => 1 \in 1 .. F /\ n + 1 \in 1 .. n + F  BY <1>1
      <4>2. ff = At(g, n + 1)  BY <1>1, <1>4, <1>11, <4>1 DEF At, F
      <4>. QED  BY <3>1, <3>3, <3>4, <4>2
    <3>5. CASE m # 1
      <4>1. k + 1 \in 1 .. n /\ k + 1 \in 1 .. n + F  BY <1>1, <2>1, <3>1, <3>5
      <4>2. At(g, k + 1) = t[n + 1 - (k + 1)]  BY <1>11, <4>1 DEF At
      <4>. QED  BY <3>1, <3>3, <3>5, <4>2
    <3>. QED  BY <3>4, <3>5
  <2>2. CASE k - n \in 1 .. F /\ k = n + (k - n)
    <3> DEFINE m == k - n
    <3>1. m \in 1 .. F /\ k = n + m /\ k + 1 = n + (m + 1)  BY <1>1, <2>2
    <3>2. g[k] = f[m]  BY <1>11, <3>1
    <3> HIDE DEF m
    <3>3. b[g[k]] = a[g[k]]
      <4>1. \A l \in 1 .. n : l \in 1 .. T  BY <1>1
      <4>2. f[m] \in Ids  BY <1>1, <3>1
      <4>. QED  BY <1>7, <1>9, <3>1, <3>2, <4>1, <4>2
    <3>4. b[g[k]].next = At(f, m + 1)  BY <1>3, <3>1, <3>2, <3>3
    <3>5. m + 1 \in 1 .. F <=> k + 1 \in 1 .. n + F  BY <1>1, <3>1
    <3>6. At(g, k + 1) = At(f, m + 1)  BY <1>11, <3>1, <3>5 DEF At, F
    <3>. QED  BY <3>4, <3>6
  <2>. QED  BY <1>13, <2>1, <2>2
<1>17. Linked(b, fg, g)  BY <1>11, <1>14, <1>15, <1>16 DEF Linked
<1>18. Linked(b, fu, u) /\ lu = At(u, Len(u))
  <2>1. \A k \in 1 .. T - n : n + k \in 1 .. T  BY <1>1
  <2>2. Distinct(u)
    <3> SUFFICES ASSUME NEW k \in 1 .. T - n, NEW m \in 1 .. T - n, u[k] = u[m]
                 PROVE  k = m
      BY <1>12 DEF Distinct
    <3>1. n + k = n + m  BY <1>2, <1>12, <2>1
    <3>. QED  BY <1>1, <3>1
  <2>3. fu = At(u, 1)
    <3>1. 1 \in 1 .. T - n <=> n # T  BY <1>1
    <3>. QED  BY <1>12, <3>1 DEF At
  <2>4. lu = At(u, T - n)
    <3>1. n # T => T - n \in 1 .. T - n /\ n + (T - n) = T /\ T \in 1 .. T  BY <1>1
    <3>2. n = T => T - n \notin 1 .. T - n  BY <1>1
    <3>. QED  BY <1>4, <1>12, <3>1, <3>2 DEF At, T
  <2>5. ASSUME NEW k \in 1 .. T - n PROVE b[u[k]].next = At(u, k + 1)
    <3>1. n + k \in 1 .. T /\ u[k] = t[n + k] /\ n + k + 1 = n + (k + 1)  BY <1>1, <1>12, <2>1
    <3>2. \A m \in 1 .. n : m \in 1 .. T /\ m # n + k  BY <1>1
    <3>3. b[u[k]] = a[u[k]]
      <4>1. \A m \in 1 .. n : t[m] # t[n + k]  BY <1>2, <3>1, <3>2
      <4>2. t[n + k] \in Ids  BY <1>1, <3>1
      <4>. QED  BY <1>9, <3>1, <4>1, <4>2
    <3>4. b[u[k]].next = At(t, n + (k + 1))  BY <1>3, <3>1, <3>3
    <3>5. n + (k + 1) \in 1 .. T <=> k + 1 \in 1 .. T - n  BY <1>1
    <3>. QED  BY <1>12, <3>4, <3>5 DEF At, T
  <2>. QED  BY <1>12, <2>2, <2>3, <2>4, <2>5 DEF Linked
<1>19. ASSUME NEW i \in Ids
       PROVE  /\ b[i].state = "free" <=> i \in In(g)
              /\ b[i].state = "timed" <=> i \in In(u)
  <2>1. i \in In(g) <=> (\E m \in 1 .. n : t[m] = i) \/ (\E m \in 1 .. F : f[m] = i)
    <3>1. ASSUME NEW m \in 1 .. n PROVE t[m] \in In(g)
      <4>1. n + 1 - m \in 1 .. n /\ n + 1 - m \in 1 .. n + F /\ n + 1 - (n + 1 - m) = m
        BY <1>1
      <4>2. g[n + 1 - m] = t[m]  BY <1>11, <4>1
      <4>. QED  BY <1>11, <4>1, <4>2 DEF In
    <3>2. ASSUME NEW m \in 1 .. F PROVE f[m] \in In(g)
      <4>1. n + m \in 1 .. n + F  BY <1>1
      <4>. QED  BY <1>11, <4>1 DEF In
    <3>3. ASSUME NEW k \in 1 .. n + F
          PROVE  (\E m \in 1 .. n : t[m] = g[k]) \/ (\E m \in 1 .. F : f[m] = g[k])
      <4>1. k \in 1 .. n => n + 1 - k \in 1 .. n  BY <1>1
      <4>. QED  BY <1>11, <1>13, <4>1
    <3>. QED  BY <1>11, <3>1, <3>2, <3>3 DEF In
  <2>2. i \in In(u) <=> (\E m \in 1 .. T : t[m] = i) /\ ~ (\E m \in 1 .. n : t[m] = i)
    <3>1. ASSUME NEW k \in 1 .. T - n
          PROVE  (\E m \in 1 .. T : t[m] = u[k]) /\ ~ (\E m \in 1 .. n : t[m] = u[k])
      <4>1. n + k \in 1 .. T /\ \A m \in 1 .. n : m \in 1 .. T /\ m # n + k  BY <1>1
      <4>. QED  BY <1>2, <1>12, <4>1
    <3>2. ASSUME NEW m \in 1 .. T, \A l \in 1 .. n : t[l] # t[m] PROVE t[m] \in In(u)
      <4>1. m \notin 1 .. n  BY <3>2
      <4>2. m - n \in 1 .. T - n /\ n + (m - n) = m  BY <1>1, <4>1
      <4>. QED  BY <1>12, <4>2 DEF In
    <3>. QED  BY <1>12, <3>1, <3>2 DEF In
  <2>3. CASE \E m \in 1 .. n : t[m] = i
    <3>1. b[i].state = "free"  BY <1>8, <2>3
    <3>. QED  BY <2>1, <2>2, <2>3, <3>1
  <2>4. CASE \A m \in 1 .. n : t[m] # i
    <3>1. b[i] = a[i]  BY <1>9, <2>4
    <3>. QED  BY <1>6, <2>1, <2>2, <2>4, <3>1
  <2>. QED  BY <2>3, <2>4
<1>20. us - n = MAX_IDS - Len(g) /\ iu = (us - n) - Len(u)  BY <1>1, <1>5, <1>11, <1>12
<1>21. \A i \in Ids : b[i] = a[i] \/ b[i].state = "free"  BY <1>8, <1>9
<1>22. Shared(b, fg, fu, lu, us - n, iu, g, u)
  BY <1>10, <1>17, <1>18, <1>19, <1>20 DEF Shared
<1>. QED  BY <1>21, <1>22 DEF T, u

\* The first free number is taken.
LEMMA TakeKeeps ==
    ASSUME NEW a, NEW ff, NEW ft, NEW lt, NEW us, NEW iu, NEW f, NEW t,
           Shared(a, ff, ft, lt, us, iu, f, t), ff # None
    PROVE  /\ Shared([a EXCEPT ![ff].state = "allocated"], a[ff].next, ft, lt, us + 1, iu + 1,
                     Tail(f), t)
           /\ ff \in Ids /\ a[ff].state = "free"
<1> DEFINE F == Len(f)
           Field == [next : Ids \cup {None}, state : {"free", "allocated", "timed"}, left : Int]
           b == [a EXCEPT ![ff].state = "allocated"]
           g == Tail(f)
<1>1. /\ a \in [Ids -> Field] /\ f \in Seq(Ids) /\ t \in Seq(Ids)
      /\ F \in Nat /\ Len(t) \in Nat /\ f \in [1 .. F -> Ids] /\ t \in [1 .. Len(t) -> Ids]
  BY DEF Shared, Linked
<1>2. \A k, m \in 1 .. F : f[k] = f[m] => k = m
  BY DEF Shared, Linked, Distinct
<1>3. /\ \A k \in 1 .. Len(t) : a[t[k]].next = At(t, k + 1) /\ a[t[k]].state = "timed"
      /\ \A k \in 1 .. F : a[f[k]].next = At(f, k + 1) /\ a[f[k]].state = "free"
  BY <1>1 DEF Shared, Linked, In
<1>4. ff = At(f, 1)  BY DEF Shared, Linked
<1>5. 1 \in 1 .. F /\ ff = f[1] /\ ff \in Ids /\ a[ff].state = "free" /\ a[ff].next = At(f, 2)
  BY <1>1, <1>3, <1>4 DEF At
<1>6. /\ g \in Seq(Ids) /\ Len(g) = F - 1
      /\ \A k \in 1 .. F - 1 : g[k] = f[k + 1]
  <2>1. f # <<>>  BY <1>5
  <2>. QED  BY <1>1, <2>1
<1>7. /\ b \in [Ids -> Field]
      /\ b[ff] = [a[ff] EXCEPT !.state = "allocated"]
      /\ \A i \in Ids : i # ff => b[i] = a[i]
  <2>1. a[ff] \in Field  BY <1>1, <1>5
  <2>2. [a[ff] EXCEPT !.state = "allocated"] \in Field  BY <2>1
  <2> HIDE DEF Field
  <2>. QED  BY <1>1, <1>5, <2>2
<1> HIDE DEF g, b, F
<1>8. \A k \in 1 .. F - 1 : k + 1 \in 1 .. F /\ g[k] # ff /\ g[k] \in Ids
  <2>1. \A k \in 1 .. F - 1 : k + 1 \in 1 .. F /\ k + 1 # 1  BY <1>1
  <2>. QED  BY <1>1, <1>2, <1>5, <1>6, <2>1
<1>9. Linked(b, a[ff].next, g)
  <2>1. Distinct(g)
    <3> SUFFICES ASSUME NEW k \in 1 .. F - 1, NEW m \in 1 .. F - 1, g[k] = g[m] PROVE k = m
      BY <1>6 DEF Distinct
    <3>1. k + 1 = m + 1  BY <1>2, <1>6, <1>8
    <3>. QED  BY <1>1, <3>1
  <2>2. a[ff].next = At(g, 1)
    <3>1. 1 \in 1 .. F - 1 <=> 2 \in 1 .. F  BY <1>1
    <3>. QED  BY <1>5, <1>6, <3>1 DEF At, F
  <2>3. ASSUME NEW k \in 1 .. F - 1 PROVE b[g[k]].next = At(g, k + 1)
    <3>1. b[g[k]].next = At(f, (k + 1) + 1)  BY <1>3, <1>6, <1>7, <1>8
    <3>2. (k + 1) + 1 \in 1 .. F <=> k + 1 \in 1 .. F - 1  BY <1>1
    <3>. QED  BY <1>6, <3>1, <3>2 DEF At, F
  <2>. QED  BY <1>6, <2>1, <2>2, <2>3 DEF Linked
<1>10. Linked(b, ft, t)
  <2>1. \A k \in 1 .. Len(t) : b[t[k]] = a[t[k]]  BY <1>1, <1>3, <1>5, <1>7
  <2>. QED  BY <1>3, <2>1 DEF Shared, Linked
<1>11. \A i \in Ids : i \in In(g) <=> i \in In(f) /\ i # ff
  <2>1. \A k \in 1 .. F : k = 1 \/ (k - 1 \in 1 .. F - 1 /\ (k - 1) + 1 = k)  BY <1>1
  <2>2. In(g) = {g[k] : k \in 1 .. F - 1} /\ In(f) = {f[k] : k \in 1 .. F}
    BY <1>6 DEF In, F
  <2>3. \A k \in 1 .. F - 1 : g[k] \in In(f) /\ g[k] # ff  BY <1>6, <1>8, <2>2
  <2>4. ASSUME NEW k \in 1 .. F, f[k] # ff PROVE f[k] \in In(g)
    <3>1. k - 1 \in 1 .. F - 1 /\ (k - 1) + 1 = k  BY <1>5, <2>1, <2>4
    <3>2. g[k - 1] = f[k]  BY <1>6, <3>1
    <3>. QED  BY <2>2, <3>1, <3>2
  <2>. QED  BY <2>2, <2>3, <2>4
<1>12. \A i \in Ids : /\ b[i].state = "free" <=> i \in In(g)
                      /\ b[i].state = "timed" <=> i \in In(t)
  <2>1. \A i \in Ids : /\ a[i].state = "free" <=> i \in In(f)
                       /\ a[i].state = "timed" <=> i \in In(t)
    BY DEF Shared
  <2>2. b[ff].state = "allocated"
    <3>1. a[ff] \in Field  BY <1>1, <1>5
    <3>. QED  BY <1>7, <3>1
  <2>. QED  BY <1>5, <1>7, <1>11, <2>1, <2>2
<1>13. us + 1 = MAX_IDS - Len(g) /\ iu + 1 = (us + 1) - Len(t)
  <2>1. us = MAX_IDS - F /\ iu = us - Len(t) /\ MAX_IDS \in Nat
    BY IdsAssumption DEF Shared, F
  <2>. QED  BY <1>1, <1>6, <2>1
<1>14. lt = At(t, Len(t))  BY DEF Shared
<1>15. Shared(b, a[ff].next, ft, lt, us + 1, iu + 1, g, t)
  BY <1>7, <1>9, <1>10, <1>12, <1>13, <1>14 DEF Shared
<1>. QED  BY <1>5, <1>15 DEF b, g

\* A number that is in use is put behind those that rest.
LEMMA RestKeeps ==
    ASSUME NEW a, NEW ff, NEW ft, NEW lt, NEW us, NEW iu, NEW f, NEW t,
           Shared(a, ff, ft, lt, us, iu, f, t),
           NEW i \in Ids, a[i].state = "allocated", NEW left \in Int, NEW b,
           b = [j \in Ids |->
                  IF j = i THEN [next |-> None, state |-> "timed", left |-> left]
                  ELSE IF j = lt THEN [a[j] EXCEPT !.next = i]
                  ELSE a[j]]
    PROVE  Shared(b, ff, IF lt = None THEN i ELSE ft, i, us, iu - 1, f, Append(t, i))
<1> DEFINE T == Len(t)
           Field == [next : Ids \cup {None}, state : {"free", "allocated", "timed"}, left : Int]
           u == Append(t, i)
           fu == IF lt = None THEN i ELSE ft
<1>1. /\ a \in [Ids -> Field] /\ f \in Seq(Ids) /\ t \in Seq(Ids)
      /\ T \in Nat /\ Len(f) \in Nat /\ f \in [1 .. Len(f) -> Ids] /\ t \in [1 .. T -> Ids]
  BY DEF Shared, Linked
<1>2. \A k, m \in 1 .. T : t[k] = t[m] => k = m
  BY DEF Shared, Linked, Distinct
<1>3. /\ \A k \in 1 .. T : a[t[k]].next = At(t, k + 1) /\ a[t[k]].state = "timed"
      /\ \A k \in 1 .. Len(f) : a[f[k]].next = At(f, k + 1) /\ a[f[k]].state = "free"
  BY <1>1 DEF Shared, Linked, In
<1>4. ft = At(t, 1) /\ lt = At(t, T)  BY DEF Shared, Linked
<1>5. /\ u \in Seq(Ids) /\ Len(u) = T + 1 /\ u[T + 1] = i
      /\ \A k \in 1 .. T : u[k] = t[k]
  BY <1>1
<1>6. /\ \A k \in 1 .. T : t[k] # i
      /\ \A k \in 1 .. Len(f) : f[k] # i /\ f[k] # lt
      /\ None \notin Ids /\ lt # i
  <2>1. T # 0 => T \in 1 .. T  BY <1>1
  <2>. QED  BY <1>1, <1>3, <1>4, <2>1, IdsFinite DEF At
<1>7. /\ b \in [Ids -> Field]
      /\ b[i] = [next |-> None, state |-> "timed", left |-> left]
      /\ lt \in Ids => b[lt].next = i /\ b[lt].state = a[lt].state
      /\ \A j \in Ids : j # i /\ j # lt => b[j] = a[j]
  <2>1. b[i] = [next |-> None, state |-> "timed", left |-> left] /\ b[i] \in Field
    OBVIOUS
  <2>2. ASSUME lt \in Ids
        PROVE  b[lt] \in Field /\ b[lt].next = i /\ b[lt].state = a[lt].state
    <3>1. a[lt] \in Field  BY <1>1, <2>2
    <3>2. b[lt] = [a[lt] EXCEPT !.next = i]  BY <1>6, <2>2
    <3>. QED  BY <3>1, <3>2
  <2>3. \A j \in Ids : j # i /\ j # lt => b[j] = a[j]  OBVIOUS
  <2>4. \A j \in Ids : b[j] \in Field
    <3> HIDE DEF Field
    <3>. QED  BY <1>1, <2>1, <2>2, <2>3
  <2>5. b = [j \in Ids |-> b[j]]  OBVIOUS
  <2> HIDE DEF Field
  <2>. QED  BY <2>1, <2>2, <2>3, <2>4, <2>5
<1> HIDE DEF u, T
<1>8. Linked(b, ff, f)
  <2>1. \A k \in 1 .. Len(f) : b[f[k]] = a[f[k]]  BY <1>1, <1>6, <1>7
  <2>. QED  BY <1>3, <2>1 DEF Shared, Linked
<1>9. \A k \in 1 .. T + 1 : k \in 1 .. T \/ k = T + 1  BY <1>1
<1>10. Linked(b, fu, u)
  <2>1. Distinct(u)  BY <1>2, <1>5, <1>6, <1>9 DEF Distinct
  <2>2. fu = At(u, 1)
    <3>1. CASE T = 0
      <4>1. lt = None  BY <1>4, <3>1 DEF At, T
      <4>. QED  BY <1>5, <3>1, <4>1 DEF At
    <3>2. CASE T # 0
      <4>1. T \in 1 .. T /\ 1 \in 1 .. T /\ 1 \in 1 .. T + 1  BY <1>1, <3>2
      <4>2. lt # None /\ ft = t[1]  BY <1>1, <1>4, <1>6, <4>1 DEF At, T
      <4>. QED  BY <1>5, <4>1, <4>2 DEF At
    <3>. QED  BY <3>1, <3>2
  <2>3. ASSUME NEW k \in 1 .. T + 1 PROVE b[u[k]].next = At(u, k + 1)
    <3>1. CASE k = T + 1
      <4>1. k + 1 \notin 1 .. T + 1  BY <1>1, <3>1
      <4>. QED  BY <1>5, <1>7, <3>1, <4>1 DEF At
    <3>2. CASE k = T /\ k \in 1 .. T
      <4>1. lt = t[k] /\ lt \in Ids  BY <1>1, <1>4, <3>2 DEF At, T
      <4>2. k + 1 \in 1 .. T + 1  BY <1>1, <3>2
      <4>. QED  BY <1>5, <1>7, <3>2, <4>1, <4>2 DEF At
    <3>3. CASE k # T /\ k \in 1 .. T
      <4>1. T \in 1 .. T /\ k + 1 \in 1 .. T /\ k + 1 \in 1 .. T + 1  BY <1>1, <3>3
      <4>2. t[k] \in Ids /\ t[k] # i /\ t[k] # lt
        BY <1>1, <1>2, <1>4, <1>6, <3>3, <4>1 DEF At, T
      <4>3. b[u[k]].next = At(t, k + 1)  BY <1>3, <1>5, <1>7, <3>3, <4>2
      <4>. QED  BY <1>5, <4>1, <4>3 DEF At, T
    <3>. QED  BY <1>9, <3>1, <3>2, <3>3
  <2>. QED  BY <1>5, <2>1, <2>2, <2>3 DEF Linked
<1>11. i = At(u, Len(u))
  <2>1. T + 1 \in 1 .. T + 1  BY <1>1
  <2>. QED  BY <1>5, <2>1 DEF At
<1>12. \A j \in Ids : j \in In(u) <=> j \in In(t) \/ j = i
  <2>1. \A k \in 1 .. T : k \in 1 .. T + 1  BY <1>1
  <2>2. T + 1 \in 1 .. T + 1  BY <1>1
  <2>. QED  BY <1>5, <1>9, <2>1, <2>2 DEF In, T
<1>13. \A j \in Ids : /\ b[j].state = "free" <=> j \in In(f)
                      /\ b[j].state = "timed" <=> j \in In(u)
  <2>1. \A j \in Ids : /\ a[j].state = "free" <=> j \in In(f)
                       /\ a[j].state = "timed" <=> j \in In(t)
    BY DEF Shared
  <2>2. b[i].state = "timed"  BY <1>7
  <2>. QED  BY <1>7, <1>12, <2>1, <2>2
<1>14. us = MAX_IDS - Len(f) /\ iu - 1 = us - Len(u)
  <2>1. us = MAX_IDS - Len(f) /\ iu = us - T /\ MAX_IDS \in Nat
    BY IdsAssumption DEF Shared, T
  <2>. QED  BY <1>1, <1>5, <2>1
<1>15. Shared(b, ff, fu, i, us, iu - 1, f, u)
  BY <1>7, <1>8, <1>10, <1>11, <1>13, <1>14 DEF Shared
<1>. QED  BY <1>15 DEF u

-----------------------------------------------------------------------------
(* The invariant.                                                          *)

IdsInv == \E f, t : Shared(ids, firstFree, firstTimed, lastTimed, usage, inUsage, f, t)

LEMMA TimedIs ==
    ASSUME NEW f, NEW t, Shared(ids, firstFree, firstTimed, lastTimed, usage, inUsage, f, t)
    PROVE  /\ ListFrom(firstFree) = f /\ Timed = t
           /\ t \in Seq(Ids) /\ Len(t) \in Nat /\ \A k \in 1 .. Len(t) : t[k] \in Ids
           /\ \A n : Released(n) = WithReleased(ids, firstFree, t, n)
<1>1. ListFrom(firstFree) = f /\ ListFrom(firstTimed) = t  BY ListIs DEF Shared
<1>2. Timed = t  BY <1>1 DEF Timed
<1>3. \A n : Released(n) = WithReleased(ids, firstFree, Timed, n)
  BY Zenon DEF Released, WithReleased
<1>4. t \in Seq(Ids)  BY DEF Shared, Linked
<1>. QED  BY <1>1, <1>2, <1>3, <1>4

\* The loop of NewID stops.
LEMMA ExpiredIs ==
    ASSUME NEW f, NEW t, Shared(ids, firstFree, firstTimed, lastTimed, usage, inUsage, f, t)
    PROVE  /\ Expired \in 0 .. Len(t)
           /\ \A m \in 1 .. Expired : ids[t[m]].left < 0
<1>1. /\ Timed = t /\ Len(t) \in Nat /\ \A k \in 1 .. Len(t) : t[k] \in Ids
  BY TimedIs
<1>2. \A k \in 1 .. Len(t) : ids[t[k]].left \in Int  BY <1>1 DEF Shared
<1> DEFINE T == Len(t)
           stops(n) == n < T => ids[t[n + 1]].left >= 0
           S == {n \in 0 .. T : stops(n)}
<1>3. PICK n \in S : \A k \in S : n <= k
  <2>1. S \subseteq Nat /\ T \in S  BY <1>1
  <2>. QED  BY <2>1, Least
<1>4. \A m \in 1 .. n : ids[t[m]].left < 0
  <2> SUFFICES ASSUME NEW m \in 1 .. n PROVE ids[t[m]].left < 0
    OBVIOUS
  <2>1. m - 1 \in 0 .. T /\ ~ (n <= m - 1) /\ m - 1 < T /\ (m - 1) + 1 = m /\ m \in 1 .. T
    BY <1>1, <1>3
  <2>2. ~ stops(m - 1)  BY <1>3, <2>1
  <2>. QED  BY <1>2, <2>1, <2>2
<1>5. Expired \in 0 .. Len(Timed) /\ \A m \in 1 .. Expired : ids[Timed[m]].left < 0
  <2>1. \E k \in 0 .. Len(Timed) :
           /\ \A m \in 1 .. k : ids[Timed[m]].left < 0
           /\ k < Len(Timed) => ids[Timed[k + 1]].left >= 0
    BY <1>1, <1>3, <1>4
  <2>. QED  BY <2>1 DEF Expired
<1>. QED  BY <1>1, <1>5

LEMMA InitStep == IdsInit => IdsInv
<1> SUFFICES ASSUME IdsInit PROVE IdsInv
  OBVIOUS
<1> DEFINE f == [k \in 1 .. MAX_IDS |-> k - 1]
           t == <<>>
<1>1. /\ ids = [i \in Ids |-> [next |-> IF i = MAX_IDS - 1 THEN None ELSE i + 1,
                             state |-> "free", left |-> 0]]
      /\ firstFree = 0 /\ firstTimed = None /\ lastTimed = None
      /\ usage = 0 /\ inUsage = 0
  BY DEF IdsInit
<1>2. MAX_IDS \in Nat \ {0} /\ Ids = 0 .. MAX_IDS - 1  BY IdsAssumption DEF Ids
<1>3. \A k \in 1 .. MAX_IDS : k - 1 \in Ids  BY <1>2
<1>4. f \in Seq(Ids) /\ Len(f) = MAX_IDS /\ \A k \in 1 .. MAX_IDS : f[k] = k - 1
  BY <1>2, <1>3
<1>5. t \in Seq(Ids) /\ Len(t) = 0  OBVIOUS
<1> HIDE DEF f, t
<1>6. Linked(ids, firstFree, f)
  <2>1. Distinct(f)  BY <1>2, <1>4 DEF Distinct
  <2>2. firstFree = At(f, 1)
    <3>1. 1 \in 1 .. MAX_IDS  BY <1>2
    <3>. QED  BY <1>1, <1>4, <3>1 DEF At
  <2>3. ASSUME NEW k \in 1 .. MAX_IDS PROVE ids[f[k]].next = At(f, k + 1)
    <3>1. ids[k - 1].next = IF k - 1 = MAX_IDS - 1 THEN None ELSE (k - 1) + 1  BY <1>1, <1>3
    <3>2. k - 1 = MAX_IDS - 1 <=> k + 1 \notin 1 .. MAX_IDS  BY <1>2
    <3>3. k + 1 \in 1 .. MAX_IDS => f[k + 1] = (k - 1) + 1  BY <1>4
    <3>. QED  BY <1>4, <3>1, <3>2, <3>3 DEF At
  <2>. QED  BY <1>4, <2>1, <2>2, <2>3 DEF Linked
<1>7. Linked(ids, firstTimed, t) /\ lastTimed = At(t, Len(t))
  BY <1>1, <1>5 DEF Linked, Distinct, At
<1>8. ids \in [Ids -> [next : Ids \cup {None}, state : {"free", "allocated", "timed"},
                       left : Int]]
  <2>1. \A i \in Ids : (IF i = MAX_IDS - 1 THEN None ELSE i + 1) \in Ids \cup {None}
    BY <1>2
  <2>. QED  BY <1>1, <2>1
<1>9. \A i \in Ids : ids[i].state = "free" /\ i \in In(f) /\ i \notin In(t)
  <2>1. \A i \in Ids : i + 1 \in 1 .. MAX_IDS /\ (i + 1) - 1 = i  BY <1>2
  <2>2. \A i \in Ids : i \in In(f)
    <3> TAKE i \in Ids
    <3>1. f[i + 1] = i /\ i + 1 \in 1 .. Len(f)  BY <1>4, <2>1
    <3>. QED  BY <3>1 DEF In
  <2>. QED  BY <1>1, <1>5, <2>2 DEF In
<1>10. usage = MAX_IDS - Len(f) /\ inUsage = usage - Len(t)  BY <1>1, <1>2, <1>4, <1>5
<1>. QED  BY <1>6, <1>7, <1>8, <1>9, <1>10 DEF IdsInv, Shared

LEMMA NewIDStep ==
    ASSUME IdsInv, NewID
    PROVE  /\ IdsInv'
           /\ \A i \in Ids : ids[i].state = "timed" /\ ids'[i].state = "allocated"
                                => ids[i].left < 0
<1>1. PICK f, t : Shared(ids, firstFree, firstTimed, lastTimed, usage, inUsage, f, t)
  BY DEF IdsInv
<1> DEFINE n == Expired
           b == Released(n)
           id == FreeAfter(n)
           T == Len(t)
<1>2. /\ id # None /\ ids' = [b EXCEPT ![id].state = "allocated"]
      /\ firstFree' = b[id].next /\ firstTimed' = TimedAfter(n)
      /\ lastTimed' = (IF TimedAfter(n) = None THEN None ELSE lastTimed)
      /\ usage' = usage - n + 1 /\ inUsage' = inUsage + 1
  BY DEF NewID
<1>3. /\ Timed = t /\ T \in Nat /\ n \in 0 .. T /\ \A k \in 1 .. T : t[k] \in Ids
      /\ \A m \in 1 .. n : ids[t[m]].left < 0
      /\ b = WithReleased(ids, firstFree, t, n)
  BY <1>1, TimedIs, ExpiredIs
<1>4. /\ id = (IF n = 0 THEN firstFree ELSE t[n])
      /\ TimedAfter(n) = (IF n = T THEN None ELSE t[n + 1])
  BY <1>3 DEF FreeAfter, TimedAfter
<1>5. lastTimed' = IF n = T THEN None ELSE lastTimed
  <2>1. n # T => n + 1 \in 1 .. T  BY <1>3
  <2>. QED  BY <1>2, <1>3, <1>4, <2>1, IdsFinite
<1> HIDE DEF n, b, id
<1>6. usage \in Int /\ inUsage \in Int
  <2>1. Len(f) \in Nat /\ Len(t) \in Nat /\ usage = MAX_IDS - Len(f) /\ inUsage = usage - Len(t)
    BY <1>1 DEF Shared, Linked
  <2>. QED  BY <2>1, IdsAssumption
<1>7. PICK g : /\ Shared(b, IF n = 0 THEN firstFree ELSE t[n],
                         IF n = T THEN None ELSE t[n + 1],
                         IF n = T THEN None ELSE lastTimed, usage - n, inUsage,
                         g, SubSeq(t, n + 1, T))
               /\ \A i \in Ids : b[i] = ids[i] \/ b[i].state = "free"
  BY <1>1, <1>3, ReleaseKeeps
<1>8. Shared(b, id, firstTimed', lastTimed', usage - n, inUsage, g, SubSeq(t, n + 1, T))
  BY <1>2, <1>4, <1>5, <1>7
<1>9. /\ Shared([b EXCEPT ![id].state = "allocated"], b[id].next, firstTimed', lastTimed',
                (usage - n) + 1, inUsage + 1, Tail(g), SubSeq(t, n + 1, T))
      /\ id \in Ids
  BY <1>2, <1>8, TakeKeeps
<1>10. IdsInv'  BY <1>2, <1>9 DEF IdsInv
<1>11. ASSUME NEW i \in Ids, ids[i].state = "timed", ids'[i].state = "allocated"
       PROVE  ids[i].left < 0
  <2>1. CASE i # id
    <3>1. ids'[i] = b[i]
      <4>1. b \in [Ids -> [next : Ids \cup {None}, state : {"free", "allocated", "timed"},
                           left : Int]]
        BY <1>8 DEF Shared
      <4>. QED  BY <1>2, <1>9, <2>1, <4>1
    <3>. QED  BY <1>7, <1>11, <3>1
  <2>2. CASE i = id
    <3>1. n # 0
      <4> SUFFICES ASSUME n = 0 PROVE FALSE
        OBVIOUS
      <4>1. id = At(f, 1) /\ id \in Ids  BY <1>1, <1>4, <1>9 DEF Shared, Linked
      <4>2. id \in In(f)  BY <1>2, <4>1 DEF At, In
      <4>3. ids[id].state = "free"  BY <1>1, <4>1, <4>2 DEF Shared
      <4>. QED  BY <1>11, <2>2, <4>3
    <3>2. n \in 1 .. n /\ id = t[n]  BY <1>3, <1>4, <3>1
    <3>. QED  BY <1>3, <2>2, <3>2
  <2>. QED  BY <2>1, <2>2
<1>. QED  BY <1>10, <1>11

LEMMA TimeoutIDsStep ==
    ASSUME IdsInv, TimeoutIDs
    PROVE  /\ IdsInv'
           /\ \A i \in Ids : ids'[i] = ids[i] \/ ids'[i].state = "free"
<1>1. PICK f, t : Shared(ids, firstFree, firstTimed, lastTimed, usage, inUsage, f, t)
  BY DEF IdsInv
<1> DEFINE n == Len(t)
           b == Released(n)
<1>2. /\ Timed = t /\ n \in Nat /\ n \in 0 .. n /\ b = WithReleased(ids, firstFree, t, n)
  BY <1>1, TimedIs
<1>3. /\ ids' = b /\ firstFree' = (IF n = 0 THEN firstFree ELSE t[n]) /\ firstTimed' = None
      /\ lastTimed' = (IF n = 0 THEN lastTimed ELSE None)
      /\ usage' = usage - n /\ inUsage' = inUsage
  BY <1>2 DEF TimeoutIDs, FreeAfter
<1>4. lastTimed' = None
  <2>1. lastTimed = At(t, n)  BY <1>1 DEF Shared
  <2>. QED  BY <1>2, <1>3, <2>1 DEF At
<1> HIDE DEF b
<1>5. PICK g : /\ Shared(b, IF n = 0 THEN firstFree ELSE t[n],
                         IF n = Len(t) THEN None ELSE t[n + 1],
                         IF n = Len(t) THEN None ELSE lastTimed, usage - n, inUsage,
                         g, SubSeq(t, n + 1, Len(t)))
               /\ \A i \in Ids : b[i] = ids[i] \/ b[i].state = "free"
  <2> HIDE DEF n
  <2>1. n \in 0 .. Len(t)  BY <1>2 DEF n
  <2>. QED  BY <1>1, <1>2, <2>1, ReleaseKeeps
<1>. QED  BY <1>3, <1>4, <1>5 DEF IdsInv

LEMMA FreeIDStep ==
    ASSUME IdsInv, NEW i \in Ids, FreeID(i)
    PROVE  IdsInv'
<1>1. PICK f, t : Shared(ids, firstFree, firstTimed, lastTimed, usage, inUsage, f, t)
  BY DEF IdsInv
<1>2. /\ ids[i].state = "allocated" /\ inUsage' = inUsage - 1
      /\ ids' = [j \in Ids |->
                 IF j = i THEN [next |-> None, state |-> "timed", left |-> RestSeconds]
                 ELSE IF j = lastTimed THEN [ids[j] EXCEPT !.next = i]
                 ELSE ids[j]]
      /\ firstTimed' = (IF lastTimed = None THEN i ELSE firstTimed)
      /\ lastTimed' = i /\ firstFree' = firstFree /\ usage' = usage
  BY DEF FreeID
<1>3. RestSeconds \in Int  BY IdsAssumption
<1>4. Shared(ids', firstFree, IF lastTimed = None THEN i ELSE firstTimed, i, usage,
             inUsage - 1, f, Append(t, i))
  BY <1>1, <1>2, <1>3, RestKeeps
<1>. QED  BY <1>2, <1>4 DEF IdsInv

LEMMA SecondStep ==
    ASSUME IdsInv, Second
    PROVE  IdsInv' /\ \A i \in Ids : ids'[i].state = ids[i].state
<1>1. PICK f, t : Shared(ids, firstFree, firstTimed, lastTimed, usage, inUsage, f, t)
  BY DEF IdsInv
<1> DEFINE Field == [next : Ids \cup {None}, state : {"free", "allocated", "timed"}, left : Int]
<1>2. ids \in [Ids -> Field]  BY <1>1 DEF Shared
<1>3. /\ ids' = [i \in Ids |-> IF ids[i].state = "timed" /\ ids[i].left >= 0
                               THEN [ids[i] EXCEPT !.left = @ - 1] ELSE ids[i]]
      /\ UNCHANGED <<firstFree, firstTimed, lastTimed, usage, inUsage>>
  BY DEF Second
<1>4. ASSUME NEW i \in Ids
      PROVE  ids'[i] \in Field /\ ids'[i].next = ids[i].next /\ ids'[i].state = ids[i].state
  <2>1. ids[i] \in Field  BY <1>2
  <2>2. ASSUME NEW r \in Field
        PROVE  LET s == [r EXCEPT !.left = @ - 1]
               IN  s \in Field /\ s.next = r.next /\ s.state = r.state
    OBVIOUS
  <2>3. ids'[i] = [ids[i] EXCEPT !.left = @ - 1] \/ ids'[i] = ids[i]  BY <1>3
  <2> HIDE DEF Field
  <2>. QED  BY <2>1, <2>2, <2>3, Zenon
<1>5. ids' \in [Ids -> Field]
  <2>1. ids' = [i \in Ids |-> ids'[i]]  BY <1>3
  <2> HIDE DEF Field
  <2>. QED  BY <1>4, <2>1
<1>6. ASSUME NEW from, NEW q, Linked(ids, from, q) PROVE Linked(ids', from, q)
  <2>1. \A k \in 1 .. Len(q) : q[k] \in Ids  BY <1>6 DEF Linked
  <2>. QED  BY <1>4, <1>6, <2>1 DEF Linked
<1>7. Shared(ids', firstFree, firstTimed, lastTimed, usage, inUsage, f, t)
  BY <1>1, <1>4, <1>5, <1>6 DEF Shared
<1>. QED  BY <1>3, <1>4, <1>7 DEF IdsInv

LEMMA NextStep == ASSUME IdsInv, [IdsNext]_idVars PROVE IdsInv'
<1>1. CASE NewID  BY <1>1, NewIDStep
<1>2. CASE \E i \in Ids : FreeID(i)  BY <1>2, FreeIDStep
<1>3. CASE TimeoutIDs  BY <1>3, TimeoutIDsStep
<1>4. CASE Second  BY <1>4, SecondStep
<1>5. CASE UNCHANGED idVars  BY <1>5 DEF IdsInv, idVars
<1>. QED  BY <1>1, <1>2, <1>3, <1>4, <1>5 DEF IdsNext

LEMMA Invariant == IdsSpec => []IdsInv
  BY InitStep, NextStep, PTL DEF IdsSpec

-----------------------------------------------------------------------------
(* The theorems.                                                           *)

\* Whatever the order in which numbers are taken (NewID), given back (FreeID) and
\* released (RemoveFirstTimeout, TimeoutIDs), each of them is in one of the two lists
\* or in use, and m_Usage and m_InUsage count them.
THEOREM NumbersAreShared == IdsSpec => []IdsAreShared
<1>1. IdsInv => IdsAreShared
  <2> SUFFICES ASSUME NEW f, NEW t,
                      Shared(ids, firstFree, firstTimed, lastTimed, usage, inUsage, f, t)
               PROVE  IdsAreShared
    BY DEF IdsInv
  <2> DEFINE free == {i \in Ids : ids[i].state = "free"}
             timed == {i \in Ids : ids[i].state = "timed"}
             allocated == {i \in Ids : ids[i].state = "allocated"}
  <2>1. /\ f \in Seq(Ids) /\ t \in Seq(Ids) /\ Distinct(f) /\ Distinct(t)
        /\ usage = MAX_IDS - Len(f) /\ inUsage = usage - Len(t) /\ MAX_IDS \in Nat
        /\ ListFrom(firstFree) = f /\ Timed = t
    BY TimedIs, IdsAssumption DEF Shared, Linked
  <2>2. free = In(f) /\ timed = In(t)
    <3>1. In(f) \subseteq Ids /\ In(t) \subseteq Ids  BY <2>1 DEF In
    <3>. QED  BY <3>1 DEF Shared
  <2>3. /\ IsFiniteSet(free) /\ Cardinality(free) = Len(f)
        /\ IsFiniteSet(timed) /\ Cardinality(timed) = Len(t)
    BY <2>1, <2>2, DistinctCounts
  <2>4. free \cap timed = {} /\ allocated \cap timed = {} /\ allocated \cap free = {}
    OBVIOUS
  <2>5. Ids = free \cup (allocated \cup timed)
    <3>1. \A i \in Ids : ids[i].state \in {"free", "allocated", "timed"}  BY DEF Shared
    <3>. QED  BY <3>1
  <2> HIDE DEF free, timed, allocated
  <2>6. IsFiniteSet(allocated) /\ IsFiniteSet(allocated \cup timed)
    <3>1. allocated \subseteq Ids /\ allocated \cup timed \subseteq Ids  BY <2>5
    <3>. QED  BY <3>1, IdsFinite, FS_Subset
  <2> DEFINE both == allocated \cup timed
             A == Cardinality(allocated)
             B == Cardinality(both)
  <2> HIDE DEF both, A, B
  <2>7. A \in Nat /\ B \in Nat /\ Len(f) \in Nat /\ Len(t) \in Nat
    BY <2>1, <2>6, FS_CardinalityType DEF A, B, both
  <2>8. Cardinality({}) = 0  BY FS_EmptySet
  <2>9. B = A + Len(t)
    <3>1. B = A + Cardinality(timed) - Cardinality(allocated \cap timed)
      BY <2>3, <2>6, FS_Union DEF A, B, both
    <3>2. Cardinality(allocated \cap timed) = 0  BY <2>4, <2>8
    <3>. QED  BY <2>3, <2>7, <3>1, <3>2
  <2>10. MAX_IDS = Len(f) + B
    <3>1. free \cap both = {} /\ Ids = free \cup both  BY <2>4, <2>5 DEF both
    <3>2. Cardinality(free \cup both) = Cardinality(free) + B - Cardinality(free \cap both)
      BY <2>3, <2>6, FS_Union DEF B, both
    <3>3. Cardinality(free \cap both) = 0  BY <2>8, <3>1
    <3>4. Cardinality(free \cup both) = MAX_IDS  BY <3>1, IdsFinite
    <3>. QED  BY <2>3, <2>7, <3>2, <3>3, <3>4
  <2>11. usage = B /\ inUsage = A  BY <2>1, <2>7, <2>9, <2>10
  <2>12. In(f) = {f[k] : k \in DOMAIN f} /\ In(t) = {t[k] : k \in DOMAIN t}
    <3>1. DOMAIN f = 1 .. Len(f) /\ DOMAIN t = 1 .. Len(t)  BY <2>1
    <3>. QED  BY <3>1 DEF In
  <2>13. /\ {f[k] : k \in DOMAIN f} = {i \in Ids : ids[i].state = "free"}
         /\ {t[k] : k \in DOMAIN t} = {i \in Ids : ids[i].state = "timed"}
    BY <2>2, <2>12 DEF free, timed
  <2>14. /\ Len(f) = Cardinality({i \in Ids : ids[i].state = "free"})
         /\ Len(t) = Cardinality({i \in Ids : ids[i].state = "timed"})
    BY <2>3 DEF free, timed
  <2>15. /\ usage = Cardinality({i \in Ids : ids[i].state = "allocated"}
                                \cup {i \in Ids : ids[i].state = "timed"})
         /\ inUsage = Cardinality({i \in Ids : ids[i].state = "allocated"})
    BY <2>11 DEF A, B, both, allocated, timed
  <2>16. ListFrom(firstFree) = f /\ Timed = t  BY <2>1
  <2>. QED  BY <2>13, <2>14, <2>15, <2>16, Zenon DEF IdsAreShared
<1>. QED  BY <1>1, Invariant, PTL

\* NewID never hands out a number that was given back before its time is over
\* (m_Timeout), whatever else was given back and taken meanwhile.
THEOREM NumbersRest == IdsSpec => IdsRest
<1>1. ASSUME IdsInv, [IdsNext]_idVars
      PROVE  [\A i \in Ids : ids[i].state = "timed" /\ ids'[i].state = "allocated"
                                => ids[i].left < 0]_idVars
  <2>1. CASE NewID  BY <1>1, <2>1, NewIDStep
  <2>2. CASE \E i \in Ids : FreeID(i)
    <3>1. PICK k \in Ids : FreeID(k)  BY <2>2
    <3>2. \A i \in Ids : ids'[i].state = "allocated" => ids[i].state = "allocated"
      <4>1. ids \in [Ids -> [next : Ids \cup {None}, state : {"free", "allocated", "timed"},
                             left : Int]]
        BY <1>1 DEF IdsInv, Shared
      <4> TAKE i \in Ids
      <4>2. CASE i = k  BY <3>1, <4>2 DEF FreeID
      <4>3. CASE i # k
        <5>1. ids'[i] = [ids[i] EXCEPT !.next = k] \/ ids'[i] = ids[i]
          BY <3>1, <4>3 DEF FreeID
        <5>2. ids[i] \in [next : Ids \cup {None}, state : {"free", "allocated", "timed"},
                          left : Int]
          BY <4>1
        <5>3. [ids[i] EXCEPT !.next = k].state = ids[i].state  BY <5>2
        <5>. QED  BY <5>1, <5>3
      <4>. QED  BY <4>2, <4>3
    <3>. QED  BY <3>2
  <2>3. CASE TimeoutIDs
    <3>1. \A i \in Ids : ids'[i] = ids[i] \/ ids'[i].state = "free"
      BY <1>1, <2>3, TimeoutIDsStep
    <3>. QED  BY <3>1
  <2>4. CASE Second
    <3>1. \A i \in Ids : ids'[i].state = ids[i].state  BY <1>1, <2>4, SecondStep
    <3>. QED  BY <3>1
  <2>5. CASE UNCHANGED idVars  BY <2>5
  <2>. QED  BY <1>1, <2>1, <2>2, <2>3, <2>4, <2>5 DEF IdsNext
<1>. QED  BY <1>1, Invariant, PTL DEF IdsSpec, IdsRest
=============================================================================
