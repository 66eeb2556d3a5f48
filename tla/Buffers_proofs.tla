---------------------------- MODULE Buffers_proofs ----------------------------
(***************************************************************************)
(* Proofs about AsyncWriter and RingBuffer, for any sizes of buffers, of   *)
(* lines and of items.                                                     *)
(***************************************************************************)
EXTENDS AsyncWriter, RingBuffer, NaturalsInduction, WellFoundedInduction, SequenceTheorems, TLAPS

-----------------------------------------------------------------------------
(* Numbers.                                                                *)

\* The least element of a set of numbers, from which inductions start.
LEMMA Least == ASSUME NEW S, S \subseteq Nat, S # {} PROVE \E x \in S : \A y \in S : x <= y
<1>2. \E x \in S : \A y \in S : ~ (<<y, x>> \in OpToRel(<, Nat))
  <2>1. IsWellFoundedOn(OpToRel(<, Nat), Nat)  BY NatLessThanWellFounded
  <2>. QED  BY <2>1, WFMin, Zenon
<1>3. \A x \in Nat, y \in Nat : <<y, x>> \in OpToRel(<, Nat) <=> y < x
  BY Zenon DEF OpToRel
<1>4. PICK x \in S : \A y \in S : ~ (<<y, x>> \in OpToRel(<, Nat))  BY <1>2
<1>5. \A y \in S : ~ (y < x)  BY <1>3, <1>4, Zenon
<1>6. \A y \in S : x <= y
  <2> TAKE y \in S
  <2>1. y \in Nat /\ x \in Nat  OBVIOUS
  <2>. QED  BY <1>5, <2>1
<1>. QED  BY <1>6

\* Positions in a ring go once around at most.
LEMMA Around ==
    ASSUME NEW s \in Nat \ {0}, NEW x \in Nat, x < 2 * s
    PROVE  x % s = IF x < s THEN x ELSE x - s
<1>1. x = s * (x \div s) + (x % s) /\ x % s \in 0 .. s - 1 /\ x \div s \in Int
  OBVIOUS
<1>. QED  BY <1>1

\* The size that is doubled until it is large enough.
LEMMA SizeGrows ==
    ASSUME NEW cur \in Nat \ {0}, NEW need \in Nat
    PROVE  NextBufferSize(cur, need) \in Nat /\ NextBufferSize(cur, need) >= need
<1> DEFINE value(f, n) == IF n >= need THEN n ELSE f[2 * n]
           from(d) == {n \in Nat \ {0} : n + d >= need}
           starts(h, d) == h = [n \in from(d) |-> value(h, n)]
           started(d) == \E h : starts(h, d)
           bad == {d \in Nat : ~ started(d)}
<1>0. ASSUME NEW d PROVE started(d) <=> \E h : starts(h, d)
  OBVIOUS
<1> HIDE DEF started
<1>1. bad = {}
  <2> SUFFICES ASSUME bad # {} PROVE FALSE
    OBVIOUS
  <2>1. PICK d \in bad : \A e \in bad : d <= e
    <3>1. bad \subseteq Nat  OBVIOUS
    <3>. QED  BY <3>1, Least
  <2>2. d \in Nat /\ ~ started(d)  BY <2>1
  <2>3. CASE d = 0
    <3> DEFINE h == [n \in from(0) |-> n]
    <3>1. \A n \in from(0) : value(h, n) = n  OBVIOUS
    <3>2. starts(h, 0)  BY <3>1
    <3>. QED  BY <1>0, <2>2, <2>3, <3>2
  <2>4. CASE d # 0
    <3>1. d - 1 \in Nat /\ d - 1 \notin bad  BY <2>1, <2>2, <2>4
    <3>2. PICK h : starts(h, d - 1)
      <4>1. started(d - 1)  BY <3>1
      <4>. QED  BY <1>0, <4>1
    <3> DEFINE g == [n \in from(d) |-> value(h, n)]
    <3>3. ASSUME NEW n \in from(d) PROVE g[n] = value(g, n)
      <4>1. CASE n >= need  BY <4>1
      <4>2. CASE ~ (n >= need)
        <5>1. n \in Nat \ {0} /\ 2 * n \in from(d - 1) /\ 2 * n \in from(d)  BY <2>2, <4>2
        <5>2. g[n] = h[2 * n]  BY <4>2
        <5>3. h[2 * n] = value(h, 2 * n)  BY <3>2, <5>1
        <5>4. g[2 * n] = value(h, 2 * n)  BY <5>1
        <5>. QED  BY <4>2, <5>2, <5>3, <5>4
      <4>. QED  BY <4>1, <4>2
    <3>4. DOMAIN g = from(d) /\ g = [n \in from(d) |-> g[n]]  OBVIOUS
    <3> HIDE DEF g, from
    <3>5. starts(g, d)  BY <3>3, <3>4
    <3>. QED  BY <1>0, <2>2, <3>5
  <2>. QED  BY <2>3, <2>4
<1>2. PICK h : starts(h, need)
  <2>1. started(need)  BY <1>1
  <2>. QED  BY <1>0, <2>1
<1>3. \E f : f = [n \in Nat |-> value(f, n)]
  <2> DEFINE g == [n \in Nat |-> IF n = 0 THEN 0 ELSE h[n]]
  <2>1. ASSUME NEW n \in Nat PROVE g[n] = value(g, n)
    <3>1. CASE n = 0  BY <3>1
    <3>2. CASE n # 0
      <4>1. n \in from(need) /\ 2 * n \in Nat \ {0}  BY <3>2
      <4>2. h[n] = value(h, n)  BY <1>2, <4>1
      <4>. QED  BY <3>2, <4>1, <4>2
    <3>. QED  BY <3>1, <3>2
  <2>2. DOMAIN g = Nat /\ g = [n \in Nat |-> g[n]]  OBVIOUS
  <2> HIDE DEF g
  <2>3. g = [n \in Nat |-> value(g, n)]  BY <2>1, <2>2
  <2>. QED  BY <2>3
<1> DEFINE f == CHOOSE f : f = [n \in Nat |-> value(f, n)]
<1>4. f = [n \in Nat |-> value(f, n)]  BY <1>3
<1>5. NextBufferSize(cur, need) = f[cur]  BY DEF NextBufferSize
<1> HIDE DEF f
<1>6. \A n \in Nat : f[n] = value(f, n)  BY <1>4
<1> DEFINE small == {d \in Nat : \E n \in Nat \ {0} :
                        n + d >= need /\ ~ (f[n] \in Nat /\ f[n] >= need)}
<1>7. small = {}
  <2> SUFFICES ASSUME small # {} PROVE FALSE
    OBVIOUS
  <2>1. PICK d \in small : \A e \in small : d <= e
    <3>1. small \subseteq Nat  OBVIOUS
    <3>. QED  BY <3>1, Least
  <2>2. PICK n \in Nat \ {0} : n + d >= need /\ ~ (f[n] \in Nat /\ f[n] >= need)
    BY <2>1
  <2>3. ~ (n >= need) /\ f[n] = f[2 * n]  BY <1>6, <2>2
  <2>4. d - 1 \in Nat /\ 2 * n \in Nat \ {0} /\ 2 * n + (d - 1) >= need  BY <2>1, <2>2, <2>3
  <2>5. d - 1 \in small  BY <2>2, <2>3, <2>4
  <2>. QED  BY <2>1, <2>4, <2>5
<1>8. need \notin small /\ cur + need >= need  BY <1>7
<1>. QED  BY <1>5, <1>8

-----------------------------------------------------------------------------
(* The ring of bytes.                                                      *)

RingOf(b, m, s, r, w) ==
    /\ b = [mem |-> m, size |-> s, read |-> r, write |-> w]
    /\ s \in Nat \ {0} /\ m \in [0 .. s - 1 -> Nat]
    /\ r \in 0 .. s - 1 /\ w \in 0 .. s - 1

IsRing(b) == \E m, s, r, w : RingOf(b, m, s, r, w)

\* The place of the i-th byte from a place on
Place(s, from, i) == IF from + i - 1 < s THEN from + i - 1 ELSE from + i - 1 - s

LEMMA PlaceIs ==
    ASSUME NEW s \in Nat \ {0}, NEW from \in 0 .. s - 1, NEW i \in 1 .. s
    PROVE  (from + i - 1) % s = Place(s, from, i) /\ Place(s, from, i) \in 0 .. s - 1
<1>1. from + i - 1 \in Nat /\ from + i - 1 < 2 * s  OBVIOUS
<1>2. (from + i - 1) % s = IF from + i - 1 < s THEN from + i - 1 ELSE (from + i - 1) - s
  BY <1>1, Around
<1>. QED  BY <1>2 DEF Place

Held(s, r, w) == IF w >= r THEN w - r ELSE s + w - r

Holds(b, m, s, r, w) ==
    /\ BufferLen(b) = Held(s, r, w) /\ Held(s, r, w) \in 0 .. s - 1
    /\ Contents(b) \in Seq(Nat) /\ Len(Contents(b)) = Held(s, r, w)
    /\ \A i \in 1 .. Held(s, r, w) : Contents(b)[i] = m[Place(s, r, i)]

LEMMA ContentsAre ==
    ASSUME NEW b, NEW m, NEW s, NEW r, NEW w, RingOf(b, m, s, r, w)
    PROVE  Holds(b, m, s, r, w)
<1> DEFINE n == Held(s, r, w)
<1>1. /\ b.mem = m /\ b.size = s /\ b.read = r /\ b.write = w
      /\ s \in Nat \ {0} /\ m \in [0 .. s - 1 -> Nat]
      /\ r \in 0 .. s - 1 /\ w \in 0 .. s - 1
  BY DEF RingOf
<1>2. BufferLen(b) = n /\ n \in 0 .. s - 1  BY <1>1 DEF BufferLen, Held
<1> HIDE DEF n
<1>3. Contents(b) = [i \in 1 .. n |-> m[(r + i - 1) % s]]  BY <1>1, <1>2 DEF Contents
<1>4. ASSUME NEW i \in 1 .. n
      PROVE  (r + i - 1) % s = Place(s, r, i) /\ Place(s, r, i) \in 0 .. s - 1
  <2>1. i \in 1 .. s  BY <1>1, <1>2
  <2>. QED  BY <1>1, <2>1, PlaceIs, Zenon
<1>5. Contents(b) = [i \in 1 .. n |-> m[Place(s, r, i)]]  BY <1>3, <1>4
<1>6. \A i \in 1 .. n : m[Place(s, r, i)] \in Nat  BY <1>1, <1>4
<1>. QED  BY <1>2, <1>5, <1>6 DEF Holds, n

\* Two sequences of the same length and elements
LEMMA SameSeq ==
    ASSUME NEW S, NEW p \in Seq(S), NEW q \in Seq(S), Len(p) = Len(q),
           \A i \in 1 .. Len(p) : p[i] = q[i]
    PROVE  p = q
  OBVIOUS

IsJoin(joined, S, p, q, m, n) ==
    /\ joined \in Seq(S) /\ Len(joined) = m + n
    /\ \A i \in 1 .. m : joined[i] = p[i]
    /\ \A i \in 1 .. n : joined[m + i] = q[i]

LEMMA Joined ==
    ASSUME NEW S, NEW p \in Seq(S), NEW q \in Seq(S)
    PROVE  IsJoin(p \o q, S, p, q, Len(p), Len(q))
  BY DEF IsJoin

\* Bytes that fit are put behind the others.
LEMMA PutFits ==
    ASSUME NEW b, NEW m, NEW s, NEW r, NEW w, RingOf(b, m, s, r, w),
           NEW bytes \in Seq(Nat), Len(bytes) < s - Held(s, r, w)
    PROVE  IsRing(Put(b, bytes)) /\ Contents(Put(b, bytes)) = Contents(b) \o bytes
<1> DEFINE n == Held(s, r, w)
           size == Len(bytes)
           at(i) == (w + i - 1) % s
           mem == [k \in 0 .. s - 1 |-> IF \E i \in 1 .. size : at(i) = k
                                        THEN bytes[CHOOSE i \in 1 .. size : at(i) = k]
                                        ELSE m[k]]
           v == IF w + size < s THEN w + size ELSE w + size - s
           c == [mem |-> mem, size |-> s, read |-> r, write |-> v]
<1>1. /\ s \in Nat \ {0} /\ m \in [0 .. s - 1 -> Nat] /\ DOMAIN m = 0 .. s - 1
      /\ r \in 0 .. s - 1 /\ w \in 0 .. s - 1
      /\ b = [mem |-> m, size |-> s, read |-> r, write |-> w]
  BY DEF RingOf
<1>2. BufferLen(b) = n /\ n \in 0 .. s - 1 /\ size \in Nat /\ n + size < s /\ size < s - n
  <2>1. BufferLen(b) = Held(s, r, w) /\ Held(s, r, w) \in 0 .. s - 1  BY ContentsAre DEF Holds
  <2>2. Len(bytes) \in Nat /\ Len(bytes) < s - Held(s, r, w)  OBVIOUS
  <2>. QED  BY <1>1, <2>1, <2>2
<1>3. n = IF w >= r THEN w - r ELSE s + w - r  BY DEF Held
<1>4. \A i \in 1 .. size : bytes[i] \in Nat  OBVIOUS
<1> HIDE DEF n, size
<1>5. (w + size) % s = v
  <2>1. w + size \in Nat /\ w + size < 2 * s  BY <1>1, <1>2
  <2>2. (w + size) % s = IF w + size < s THEN w + size ELSE (w + size) - s
    BY <1>1, <2>1, Around, Zenon
  <2>3. w + size - s = (w + size) - s  BY <1>1, <1>2
  <2>. QED  BY <2>2, <2>3, Zenon
<1>6. Put(b, bytes) = c
  <2>1. b.mem = m /\ b.size = s /\ b.read = r /\ b.write = w  BY <1>1
  <2>2. size < b.size - BufferLen(b)  BY <1>2, <2>1
  <2>3. Put(b, bytes) = [b EXCEPT !.mem = mem, !.write = (w + size) % s]
    BY <1>1, <2>1, <2>2, Zenon DEF Put, size
  <2> HIDE DEF mem
  <2>. QED  BY <1>1, <1>5, <2>3
<1>7. ASSUME NEW i \in 1 .. size
      PROVE  at(i) = Place(s, w, i) /\ Place(s, w, i) \in 0 .. s - 1
  <2>1. i \in 1 .. s  BY <1>1, <1>2
  <2>. QED  BY <1>1, <2>1, PlaceIs, Zenon
<1> HIDE DEF at
<1>8. ASSUME NEW i \in 1 .. size, NEW j \in 1 .. size, Place(s, w, i) = Place(s, w, j)
      PROVE  i = j
  <2>1. i \in Int /\ j \in Int /\ 1 <= i /\ i <= s /\ 1 <= j /\ j <= s  BY <1>1, <1>2
  <2>2. w \in Int /\ 0 <= w /\ w < s /\ s \in Int  BY <1>1
  <2>. QED  BY <1>8, <2>1, <2>2 DEF Place
<1>9. \A i \in 1 .. size : mem[Place(s, w, i)] = bytes[i]
  <2> TAKE i \in 1 .. size
  <2>1. at(i) = Place(s, w, i) /\ Place(s, w, i) \in 0 .. s - 1  BY <1>7
  <2>2. (CHOOSE j \in 1 .. size : at(j) = Place(s, w, i)) = i
    <3>1. \A j \in 1 .. size : at(j) = Place(s, w, i) => j = i  BY <1>7, <1>8
    <3>. QED  BY <2>1, <3>1
  <2>. QED  BY <2>1, <2>2
<1>10. \A k \in 0 .. s - 1 : (\A i \in 1 .. size : Place(s, w, i) # k) => mem[k] = m[k]
  BY <1>7
<1>11. mem \in [0 .. s - 1 -> Nat]
  <2>1. \A k \in 0 .. s - 1 : mem[k] \in Nat
    <3> TAKE k \in 0 .. s - 1
    <3>1. CASE \E i \in 1 .. size : Place(s, w, i) = k
      <4>1. PICK i \in 1 .. size : Place(s, w, i) = k  BY <3>1
      <4> HIDE DEF mem
      <4>. QED  BY <1>4, <1>9, <4>1
    <3>2. CASE \A i \in 1 .. size : Place(s, w, i) # k
      <4> HIDE DEF mem
      <4>. QED  BY <1>1, <1>10, <3>2
    <3>. QED  BY <3>1, <3>2
  <2>2. mem = [k \in 0 .. s - 1 |-> mem[k]]  OBVIOUS
  <2> HIDE DEF mem
  <2>. QED  BY <2>1, <2>2
<1> HIDE DEF mem
<1>12. RingOf(c, mem, s, r, v)
  <2>1. v \in 0 .. s - 1  BY <1>1, <1>2
  <2> HIDE DEF v
  <2>. QED  BY <1>1, <1>11, <2>1 DEF RingOf
<1>13. Held(s, r, v) = n + size  BY <1>1, <1>2, <1>3 DEF Held
<1>14. /\ Contents(c) \in Seq(Nat) /\ Len(Contents(c)) = n + size
       /\ \A i \in 1 .. n + size : Contents(c)[i] = mem[Place(s, r, i)]
  <2> HIDE DEF c
  <2>1. /\ Contents(c) \in Seq(Nat) /\ Len(Contents(c)) = Held(s, r, v)
        /\ \A i \in 1 .. Held(s, r, v) : Contents(c)[i] = mem[Place(s, r, i)]
    BY <1>12, ContentsAre DEF Holds
  <2>. QED  BY <1>13, <2>1
<1>15. /\ Contents(b) \in Seq(Nat) /\ Len(Contents(b)) = n
       /\ \A i \in 1 .. n : Contents(b)[i] = m[Place(s, r, i)]
  BY ContentsAre DEF Holds, n
<1> HIDE DEF c
<1>16. \A i \in 1 .. n : mem[Place(s, r, i)] = m[Place(s, r, i)]
  <2> TAKE i \in 1 .. n
  <2>1. Place(s, r, i) \in 0 .. s - 1 /\ \A j \in 1 .. size : Place(s, w, j) # Place(s, r, i)
    BY <1>1, <1>2, <1>3 DEF Place
  <2>. QED  BY <1>10, <2>1
<1>17. \A i \in 1 .. size : Place(s, r, n + i) = Place(s, w, i)
  BY <1>1, <1>2, <1>3 DEF Place
<1>18. Contents(c) = Contents(b) \o bytes
  <2>1. /\ Contents(b) \o bytes \in Seq(Nat) /\ Len(Contents(b) \o bytes) = n + size
        /\ \A i \in 1 .. n : (Contents(b) \o bytes)[i] = Contents(b)[i]
        /\ \A i \in 1 .. size : (Contents(b) \o bytes)[n + i] = bytes[i]
    <3>1. IsJoin(Contents(b) \o bytes, Nat, Contents(b), bytes, n, size)
      BY <1>15, Joined DEF size
    <3>. QED  BY <3>1 DEF IsJoin
  <2>2. ASSUME NEW i \in 1 .. n + size PROVE Contents(c)[i] = (Contents(b) \o bytes)[i]
    <3>1. CASE i \in 1 .. n  BY <1>14, <1>15, <1>16, <2>1, <3>1
    <3>2. CASE i \notin 1 .. n
      <4>1. i - n \in 1 .. size /\ n + (i - n) = i  BY <1>2, <3>2
      <4>2. Contents(c)[i] = mem[Place(s, r, n + (i - n))]  BY <1>14, <4>1
      <4>3. Contents(c)[i] = bytes[i - n]  BY <1>9, <1>17, <4>1, <4>2
      <4>4. (Contents(b) \o bytes)[n + (i - n)] = bytes[i - n]  BY <2>1, <4>1
      <4>. QED  BY <4>1, <4>3, <4>4
    <3>. QED  BY <3>1, <3>2
  <2>. QED  BY <1>14, <2>1, <2>2, SameSeq
<1>. QED  BY <1>6, <1>12, <1>18 DEF IsRing

\* Bytes that do not fit are put into a new ring with the others.
LEMMA PutGrows ==
    ASSUME NEW b, NEW m, NEW s, NEW r, NEW w, RingOf(b, m, s, r, w),
           NEW bytes \in Seq(Nat), ~ (Len(bytes) < s - Held(s, r, w))
    PROVE  IsRing(Put(b, bytes)) /\ Contents(Put(b, bytes)) = Contents(b) \o bytes
<1> DEFINE n == BufferLen(b)
           size == Len(bytes)
           next == NextBufferSize(b.size, n + size + 1)
           all == Contents(b) \o bytes
           mem == [k \in 0 .. next - 1 |-> IF k < Len(all) THEN all[k + 1] ELSE 0]
           c == [mem |-> mem, size |-> next, read |-> 0, write |-> Len(all)]
<1>1. b.size = s /\ s \in Nat \ {0} /\ n \in 0 .. s - 1 /\ size \in Nat
      /\ ~ (size < b.size - n)
  <2>1. b.size = s /\ s \in Nat \ {0}  BY DEF RingOf
  <2>2. BufferLen(b) = Held(s, r, w) /\ Held(s, r, w) \in 0 .. s - 1  BY ContentsAre DEF Holds
  <2>3. Len(bytes) \in Nat /\ ~ (Len(bytes) < s - Held(s, r, w))  OBVIOUS
  <2>. QED  BY <2>1, <2>2, <2>3
<1>2. all \in Seq(Nat) /\ Len(all) = n + size /\ \A i \in 1 .. n + size : all[i] \in Nat
  <2>1. Contents(b) \in Seq(Nat) /\ Len(Contents(b)) = n  BY ContentsAre DEF Holds
  <2>2. all \in Seq(Nat) /\ Len(all) = Len(Contents(b)) + Len(bytes)
    BY <2>1, Joined DEF IsJoin
  <2> HIDE DEF all
  <2>. QED  BY <2>1, <2>2
<1>3. Put(b, bytes) = c  BY <1>1, Zenon DEF Put
<1> HIDE DEF n, size, all
<1>4. next \in Nat \ {0} /\ n + size + 1 <= next
  <2>1. n + size + 1 \in Nat  BY <1>1
  <2>2. next \in Nat /\ next >= n + size + 1  BY <1>1, <2>1, SizeGrows
  <2> HIDE DEF next
  <2>. QED  BY <1>1, <2>2
<1> HIDE DEF next
<1>5. mem \in [0 .. next - 1 -> Nat] /\ \A k \in 0 .. n + size - 1 : mem[k] = all[k + 1]
  <2>1. \A k \in 0 .. next - 1 : (IF k < Len(all) THEN all[k + 1] ELSE 0) \in Nat
    <3> TAKE k \in 0 .. next - 1
    <3>1. k < Len(all) => k + 1 \in 1 .. n + size  BY <1>1, <1>2, <1>4
    <3>. QED  BY <1>2, <3>1
  <2>2. \A k \in 0 .. n + size - 1 : k \in 0 .. next - 1 /\ k < Len(all)  BY <1>1, <1>2, <1>4
  <2>. QED  BY <2>1, <2>2
<1> HIDE DEF mem
<1>6. RingOf(c, mem, next, 0, n + size)
  <2>1. n + size \in 0 .. next - 1 /\ 0 \in 0 .. next - 1  BY <1>1, <1>4
  <2>2. c = [mem |-> mem, size |-> next, read |-> 0, write |-> n + size]  BY <1>2
  <2> HIDE DEF c
  <2>. QED  BY <1>4, <1>5, <2>1, <2>2 DEF RingOf
<1> HIDE DEF c
<1>7. Held(next, 0, n + size) = n + size  BY <1>1 DEF Held
<1>8. /\ Contents(c) \in Seq(Nat) /\ Len(Contents(c)) = n + size
      /\ \A i \in 1 .. n + size : Contents(c)[i] = mem[Place(next, 0, i)]
  BY <1>6, <1>7, ContentsAre DEF Holds
<1>9. \A i \in 1 .. n + size : mem[Place(next, 0, i)] = all[i]
  <2> TAKE i \in 1 .. n + size
  <2>1. Place(next, 0, i) = i - 1 /\ i - 1 \in 0 .. n + size - 1 /\ (i - 1) + 1 = i
    BY <1>1, <1>4 DEF Place
  <2>. QED  BY <1>5, <2>1
<1>10. Contents(c) = all  BY <1>2, <1>8, <1>9, SameSeq
<1>. QED  BY <1>3, <1>6, <1>10 DEF IsRing, all

LEMMA PutKeeps ==
    ASSUME NEW b, IsRing(b), NEW bytes \in Seq(Nat)
    PROVE  IsRing(Put(b, bytes)) /\ Contents(Put(b, bytes)) = Contents(b) \o bytes
  BY PutFits, PutGrows DEF IsRing

\* The first k bytes are taken.
LEMMA ReadKeeps ==
    ASSUME NEW b, IsRing(b), NEW k \in 0 .. BufferLen(b)
    PROVE  LET c == [b EXCEPT !.read = (b.read + k) % b.size]
           IN  /\ IsRing(c)
               /\ SubSeq(Contents(b), 1, k) \o Contents(c) = Contents(b)
               /\ SubSeq(Contents(b), 1, k) \in Seq(Nat) /\ Contents(b) \in Seq(Nat)
<1>1. PICK m, s, r, w : RingOf(b, m, s, r, w)  BY DEF IsRing
<1> DEFINE n == Held(s, r, w)
           q == IF r + k < s THEN r + k ELSE r + k - s
           c == [b EXCEPT !.read = (b.read + k) % b.size]
           taken == SubSeq(Contents(b), 1, k)
<1>2. /\ s \in Nat \ {0} /\ m \in [0 .. s - 1 -> Nat]
      /\ r \in 0 .. s - 1 /\ w \in 0 .. s - 1
      /\ b = [mem |-> m, size |-> s, read |-> r, write |-> w]
  BY <1>1 DEF RingOf
<1>3. /\ BufferLen(b) = n /\ n \in 0 .. s - 1 /\ k \in 0 .. n
      /\ Contents(b) \in Seq(Nat) /\ Len(Contents(b)) = n
      /\ \A i \in 1 .. n : Contents(b)[i] = m[Place(s, r, i)]
  BY <1>1, ContentsAre DEF Holds
<1>4. n = IF w >= r THEN w - r ELSE s + w - r  BY DEF Held
<1> HIDE DEF n
<1>5. (b.read + k) % b.size = q
  <2>1. b.read = r /\ b.size = s /\ r + k \in Nat /\ r + k < 2 * s  BY <1>2, <1>3
  <2>2. (r + k) % s = IF r + k < s THEN r + k ELSE (r + k) - s
    BY <1>2, <2>1, Around, Zenon
  <2>3. r + k - s = (r + k) - s  BY <1>2, <1>3
  <2>. QED  BY <2>1, <2>2, <2>3, Zenon
<1>6. c = [mem |-> m, size |-> s, read |-> q, write |-> w]  BY <1>2, <1>5
<1>7. q \in 0 .. s - 1 /\ Held(s, q, w) = n - k  BY <1>2, <1>3, <1>4 DEF Held
<1>8. ASSUME NEW i \in 1 .. n - k
      PROVE  Place(s, q, i) = Place(s, r, k + i) /\ k + i \in 1 .. n
  <2>1. i \in Int /\ 1 <= i /\ k + i <= n /\ n < s /\ k \in Int /\ 0 <= k /\ n \in Int
    BY <1>2, <1>3
  <2>2. r \in Int /\ 0 <= r /\ r < s /\ s \in Int  BY <1>2
  <2>. QED  BY <2>1, <2>2 DEF Place
<1> HIDE DEF q, c
<1>9. RingOf(c, m, s, q, w)  BY <1>2, <1>6, <1>7 DEF RingOf
<1>10. /\ Contents(c) \in Seq(Nat) /\ Len(Contents(c)) = n - k
       /\ \A i \in 1 .. n - k : Contents(c)[i] = m[Place(s, q, i)]
  BY <1>7, <1>9, ContentsAre DEF Holds
<1>11. /\ taken \in Seq(Nat) /\ Len(taken) = k
       /\ \A i \in 1 .. k : taken[i] = Contents(b)[i]
  BY <1>3
<1> HIDE DEF taken
<1>12. taken \o Contents(c) = Contents(b)
  <2>1. /\ taken \o Contents(c) \in Seq(Nat) /\ Len(taken \o Contents(c)) = n
        /\ \A i \in 1 .. k : (taken \o Contents(c))[i] = taken[i]
        /\ \A i \in 1 .. n - k : (taken \o Contents(c))[k + i] = Contents(c)[i]
    <3>1. IsJoin(taken \o Contents(c), Nat, taken, Contents(c), k, n - k)
      BY <1>10, <1>11, Joined
    <3>2. k + (n - k) = n  BY <1>2, <1>3
    <3>. QED  BY <3>1, <3>2 DEF IsJoin
  <2>2. ASSUME NEW i \in 1 .. n PROVE (taken \o Contents(c))[i] = Contents(b)[i]
    <3>1. CASE i \in 1 .. k  BY <1>11, <2>1, <3>1
    <3>2. CASE i \notin 1 .. k
      <4>1. i - k \in 1 .. n - k /\ k + (i - k) = i  BY <1>3, <3>2
      <4>2. (taken \o Contents(c))[k + (i - k)] = Contents(c)[i - k]  BY <2>1, <4>1
      <4>3. Contents(c)[i - k] = m[Place(s, r, k + (i - k))]  BY <1>8, <1>10, <4>1
      <4>. QED  BY <1>3, <4>1, <4>2, <4>3
    <3>. QED  BY <3>1, <3>2
  <2>. QED  BY <1>3, <2>1, <2>2, SameSeq
<1>. QED  BY <1>3, <1>9, <1>11, <1>12 DEF IsRing, c, taken

-----------------------------------------------------------------------------
(* The writer.                                                             *)

Logged(n) == [i \in 1 .. n |-> i]

Bytes(from, n) == [i \in 1 .. n |-> from + i]

LEMMA JoinIsOne ==
    ASSUME NEW p \in Seq(Nat), NEW q \in Seq(Nat), NEW r \in Seq(Nat)
    PROVE  (p \o q) \o r = p \o (q \o r)
  OBVIOUS

LEMMA LoggedGrows ==
    ASSUME NEW from \in Nat, NEW n \in Nat
    PROVE  /\ Logged(from) \in Seq(Nat) /\ Bytes(from, n) \in Seq(Nat)
           /\ Logged(from) \o Bytes(from, n) = Logged(from + n)
<1>1. /\ Logged(from) \in Seq(Nat) /\ Len(Logged(from)) = from
      /\ \A i \in 1 .. from : Logged(from)[i] = i
  BY DEF Logged
<1>2. /\ Bytes(from, n) \in Seq(Nat) /\ Len(Bytes(from, n)) = n
      /\ \A i \in 1 .. n : Bytes(from, n)[i] = from + i
  BY DEF Bytes
<1>3. /\ Logged(from + n) \in Seq(Nat) /\ Len(Logged(from + n)) = from + n
      /\ \A i \in 1 .. from + n : Logged(from + n)[i] = i
  BY DEF Logged
<1> DEFINE both == Logged(from) \o Bytes(from, n)
<1>4. IsJoin(both, Nat, Logged(from), Bytes(from, n), from, n)  BY <1>1, <1>2, Joined
<1> HIDE DEF both
<1>5. both \in Seq(Nat) /\ Len(both) = from + n  BY <1>4 DEF IsJoin
<1>6. ASSUME NEW i \in 1 .. from + n PROVE both[i] = i
  <2>1. CASE i \in 1 .. from  BY <1>1, <1>4, <2>1 DEF IsJoin
  <2>2. CASE i \notin 1 .. from
    <3>1. i - from \in 1 .. n /\ from + (i - from) = i  BY <2>2
    <3>2. both[from + (i - from)] = Bytes(from, n)[i - from]  BY <1>4, <3>1 DEF IsJoin
    <3>. QED  BY <1>2, <3>1, <3>2
  <2>. QED  BY <2>1, <2>2
<1>7. both = Logged(from + n)  BY <1>3, <1>5, <1>6, SameSeq
<1>. QED  BY <1>1, <1>2, <1>7 DEF both

\* What the thread has taken it has not put aside, but writes at once.
AioInv ==
    /\ IsRing(buf) /\ written \in Nat
    /\ file \in Seq(Nat) /\ localBuf \in Seq(Nat)
    /\ thread # "writing" => localBuf = <<>>
    /\ (file \o localBuf) \o Contents(buf) = Logged(written)

LEMMA AioInitStep == AioInit => AioInv
<1> SUFFICES ASSUME AioInit PROVE AioInv
  OBVIOUS
<1>1. /\ buf = [mem |-> NewMemory(AsyncBufSize), size |-> AsyncBufSize, read |-> 0, write |-> 0]
      /\ file = <<>> /\ localBuf = <<>> /\ written = 0 /\ thread = "locking"
  BY DEF AioInit
<1>2. RingOf(buf, NewMemory(AsyncBufSize), AsyncBufSize, 0, 0)
  BY <1>1, AioAssumption DEF RingOf, NewMemory
<1>3. Contents(buf) \in Seq(Nat) /\ Len(Contents(buf)) = 0
  BY <1>2, ContentsAre DEF Holds, Held
<1>4. Contents(buf) = <<>>  BY <1>3
<1>5. Logged(0) = <<>>  BY DEF Logged
<1>. QED  BY <1>1, <1>2, <1>4, <1>5 DEF AioInv, IsRing

LEMMA AioWriteStep ==
    ASSUME AioInv, NEW line \in Nat, AioWrite(line)
    PROVE  AioInv'
<1> DEFINE b1 == Bytes(written, line)
           b2 == Bytes(written + line, 1)
           mid == Put(buf, b1)
           had == file \o localBuf
<1>1. /\ buf' = Put(mid, b2)
      /\ written' = written + line + 1
      /\ UNCHANGED <<thread, localBuf, file>>
  BY Zenon DEF AioWrite, Bytes
<1>2. /\ IsRing(buf) /\ written \in Nat /\ had \in Seq(Nat)
      /\ had \o Contents(buf) = Logged(written)
  BY DEF AioInv
<1>3. /\ b1 \in Seq(Nat) /\ Logged(written) \o b1 = Logged(written + line)
      /\ b2 \in Seq(Nat) /\ Logged(written + line) \o b2 = Logged((written + line) + 1)
  <2>1. written + line \in Nat  BY <1>2
  <2>. QED  BY <1>2, <2>1, LoggedGrows
<1> HIDE DEF b1, b2, mid, had
<1>4. /\ IsRing(mid) /\ Contents(mid) = Contents(buf) \o b1
      /\ IsRing(buf') /\ Contents(buf') = Contents(mid) \o b2
  <2>1. IsRing(mid) /\ Contents(mid) = Contents(buf) \o b1  BY <1>2, <1>3, PutKeeps DEF mid
  <2>2. IsRing(Put(mid, b2)) /\ Contents(Put(mid, b2)) = Contents(mid) \o b2
    BY <1>3, <2>1, PutKeeps
  <2>. QED  BY <1>1, <2>1, <2>2
<1>5. Contents(buf) \in Seq(Nat) /\ Contents(mid) \in Seq(Nat)
  BY <1>2, <1>4, ContentsAre DEF IsRing, Holds
<1>6. had \o Contents(buf') = Logged(written')
  <2>1. had \o Contents(mid) = Logged(written + line)
    <3>1. (had \o Contents(buf)) \o b1 = had \o (Contents(buf) \o b1)
      BY <1>2, <1>3, <1>5, JoinIsOne
    <3>. QED  BY <1>2, <1>3, <1>4, <3>1, Zenon
  <2>2. had \o Contents(buf') = (had \o Contents(mid)) \o b2
    <3>1. (had \o Contents(mid)) \o b2 = had \o (Contents(mid) \o b2)
      BY <1>2, <1>3, <1>5, JoinIsOne
    <3>. QED  BY <1>4, <3>1, Zenon
  <2>3. (written + line) + 1 = written'  BY <1>1, <1>2
  <2>. QED  BY <1>3, <2>1, <2>2, <2>3
<1>7. written' \in Nat  BY <1>1, <1>2
<1>8. (file \o localBuf)' = had  BY <1>1 DEF had
<1>9. (Contents(buf))' = Contents(buf')  BY DEF Contents, BufferLen
<1>10. IsRing(buf)'  BY <1>4 DEF IsRing, RingOf
<1>. QED  BY <1>1, <1>6, <1>7, <1>8, <1>9, <1>10 DEF AioInv, Logged

LEMMA TakesStep ==
    ASSUME AioInv, ThreadTakes
    PROVE  AioInv'
<1> DEFINE n == BufferLen(buf)
           k == IF n > AsyncLocalBufSize THEN AsyncLocalBufSize ELSE n
           taken == SubSeq(Contents(buf), 1, k)
           c == [buf EXCEPT !.read = (buf.read + k) % buf.size]
<1>1. /\ n > 0 /\ localBuf' = taken /\ buf' = c /\ thread' = "writing" /\ thread = "locking"
      /\ UNCHANGED <<file, written>>
  BY DEF ThreadTakes
<1>2. /\ IsRing(buf) /\ written \in Nat /\ file \in Seq(Nat) /\ localBuf = <<>>
      /\ (file \o localBuf) \o Contents(buf) = Logged(written)
  BY <1>1 DEF AioInv
<1>3. k \in 0 .. n
  <2>1. n \in Nat  BY <1>2, ContentsAre DEF IsRing, Holds
  <2>. QED  BY <2>1, AioAssumption
<1> HIDE DEF k, n
<1>4. /\ IsRing(c) /\ taken \o Contents(c) = Contents(buf)
      /\ taken \in Seq(Nat) /\ Contents(buf) \in Seq(Nat)
  BY <1>2, <1>3, ReadKeeps DEF n
<1>5. Contents(c) \in Seq(Nat)  BY <1>4, ContentsAre DEF IsRing, Holds
<1> HIDE DEF c, taken
<1>6. (file \o taken) \o Contents(c) = Logged(written)
  <2>1. file \o <<>> = file  BY <1>2
  <2>2. (file \o taken) \o Contents(c) = file \o (taken \o Contents(c))
    BY <1>2, <1>4, <1>5, JoinIsOne
  <2>. QED  BY <1>2, <1>4, <2>1, <2>2
<1>7. /\ (file \o localBuf)' = file \o taken /\ (Contents(buf))' = Contents(c)
      /\ Logged(written)' = Logged(written)
  BY <1>1 DEF Contents, BufferLen, Logged
<1>8. IsRing(buf)'  BY <1>1, <1>4 DEF IsRing, RingOf
<1>. QED  BY <1>1, <1>2, <1>4, <1>6, <1>7, <1>8 DEF AioInv

LEMMA WritesStep ==
    ASSUME AioInv, ThreadWrites
    PROVE  AioInv'
<1>1. /\ file' = file \o localBuf /\ localBuf' = <<>> /\ thread' = "locking"
      /\ UNCHANGED <<buf, written>>
  BY DEF ThreadWrites
<1>2. /\ IsRing(buf) /\ written \in Nat /\ file \in Seq(Nat) /\ localBuf \in Seq(Nat)
      /\ (file \o localBuf) \o Contents(buf) = Logged(written)
  BY DEF AioInv
<1>3. file' \in Seq(Nat) /\ file' \o localBuf' = file \o localBuf
  <2>1. file \o localBuf \in Seq(Nat)  BY <1>2
  <2>2. \A p \in Seq(Nat) : p \o <<>> = p  OBVIOUS
  <2>. QED  BY <1>1, <2>1, <2>2
<1>4. (Contents(buf))' = Contents(buf) /\ Logged(written)' = Logged(written)
  BY <1>1 DEF Contents, BufferLen, Logged
<1>5. IsRing(buf)'  BY <1>1, <1>2 DEF IsRing, RingOf
<1>6. (localBuf \in Seq(Nat))'  BY <1>1
<1>. QED  BY <1>1, <1>2, <1>3, <1>4, <1>5, <1>6 DEF AioInv

LEMMA AioNextStep ==
    ASSUME AioInv, [AioUser \/ AioThread]_aioVars
    PROVE  AioInv'
<1>1. CASE \E line \in 1 .. MaxLine : AioWrite(line)
  <2>1. PICK line \in 1 .. MaxLine : AioWrite(line)  BY <1>1
  <2>. QED  BY <2>1, AioWriteStep
<1>2. CASE ThreadTakes  BY <1>2, TakesStep
<1>3. CASE ThreadWrites  BY <1>3, WritesStep
<1>4. CASE \/ AioSignal \/ AioClose \/ AioWait \/ AioFree \/ UNCHANGED aioVars
           \/ ThreadEnds \/ ThreadFindsNothing \/ ThreadWakes
  <2>1. /\ UNCHANGED <<buf, written, file, localBuf>>
        /\ thread' = thread \/ (thread # "writing" /\ thread' # "writing")
    BY <1>4 DEF AioSignal, AioClose, AioWait, AioFree, aioVars, ThreadEnds,
                ThreadFindsNothing, ThreadWakes
  <2>. QED  BY <2>1 DEF AioInv, Contents, BufferLen, Logged, IsRing, RingOf
<1>. QED  BY <1>1, <1>2, <1>3, <1>4 DEF AioUser, AioThread

\* Whatever the sizes of the ring, of the thread's buffer and of the lines, and however
\* aio_write and aio_thread take turns while the ring wraps around and grows: what is
\* in the file, in the thread's hands and in the ring is what was logged, in order,
\* with nothing lost and nothing twice.
THEOREM WriterKeepsAll == AioSpec => []AioKeepsAll
<1>1. AioInv => AioKeepsAll  BY DEF AioInv, AioKeepsAll, Logged
<1>. QED  BY <1>1, AioInitStep, AioNextStep, PTL DEF AioSpec

-----------------------------------------------------------------------------
(* The layout of a ring (RingBuffer).                                      *)

Block == [size : Nat, item : Nat]

Ring == [blocks : Seq(Block), produce : Nat, consume : Nat]

\* The blocks lie behind each other and are all of the memory: block k begins at s[k].
Addresses(s, r, n) ==
    /\ s[1] = 0 /\ s[n + 1] = RingSize
    /\ \A k \in 1 .. n + 1 : s[k] \in Nat
    /\ \A k \in 1 .. n : s[k + 1] = s[k] + r.blocks[k].size

\* A ring of n blocks with given places
Is(r, n, p, c) ==
    /\ r \in Ring /\ Len(r.blocks) = n /\ r.produce = p /\ r.consume = c
    /\ \E s : Addresses(s, r, n)

\* Items that have wrapped around, free memory, items, free memory
ItemAt(a, m, b, i) ==
    IF i <= a THEN b + i ELSE IF a + m < i /\ i <= a + m + b THEN i - a - m ELSE NoItem

Items(r, a, m, b) ==
    \A i \in 1 .. Len(r.blocks) : r.blocks[i].item = ItemAt(a, m, b, i)

Ends(a, m, b, t) == IF a = 0 /\ t = 1 THEN m + b + 1 ELSE a + 1

Laid(r, a, m, b, t) ==
    /\ a \in Nat /\ m \in {0, 1} /\ b \in Nat /\ t \in {0, 1}
    /\ b = 0 => a = 0 /\ m = 0 /\ t = 1
    /\ Is(r, a + m + b + t, Ends(a, m, b, t), a + m + 1)
    /\ Items(r, a, m, b)

LEMMA RingFacts ==
    ASSUME NEW r \in Ring
    PROVE  /\ r.blocks \in Seq(Block) /\ Len(r.blocks) \in Nat
           /\ r.produce \in Nat /\ r.consume \in Nat
           /\ \A i \in 1 .. Len(r.blocks) :
                 /\ r.blocks[i] \in Block /\ r.blocks[i].size \in Nat
                 /\ r.blocks[i].item \in Nat
<1>1. r.blocks \in Seq(Block) /\ r.produce \in Nat /\ r.consume \in Nat  BY DEF Ring
<1>2. ASSUME NEW i \in 1 .. Len(r.blocks)
      PROVE  r.blocks[i] \in Block /\ r.blocks[i].size \in Nat /\ r.blocks[i].item \in Nat
  <2>1. r.blocks[i] \in Block  BY <1>1
  <2>. QED  BY <2>1 DEF Block
<1>. QED  BY <1>1, <1>2

\* A sequence that is written as a function
LEMMA AsSequence ==
    ASSUME NEW S, NEW n \in Nat, NEW f, f = [k \in 1 .. n |-> f[k]], \A k \in 1 .. n : f[k] \in S
    PROVE  f \in Seq(S) /\ Len(f) = n
<1>1. f \in [1 .. n -> S]  BY Zenon
<1>. QED  BY <1>1

-----------------------------------------------------------------------------
(* Blocks that are merged.                                                 *)

LEMMA Unmerged == ASSUME NEW r, NEW i, ~MayMerge(r, i) PROVE MergeBack(r, i) = r
  BY DEF MergeBack

LEMMA Merged ==
    ASSUME NEW r, NEW n \in Nat, NEW p \in Nat, NEW c \in Nat, Is(r, n, p, c),
           NEW i \in 1 .. n, MayMerge(r, i)
    PROVE  /\ Is(MergeBack(r, i), n - 1, Shifted(i, p), Shifted(i, c))
           /\ \A k \in 1 .. n - 1 :
                 MergeBack(r, i).blocks[k].item =
                    IF k < i THEN r.blocks[k].item ELSE r.blocks[k + 1].item
<1> DEFINE block(k) == IF k = i - 1
                       THEN [r.blocks[k] EXCEPT !.size = @ + r.blocks[i].size]
                       ELSE IF k < i THEN r.blocks[k] ELSE r.blocks[k + 1]
           blocks == [k \in 1 .. n - 1 |-> block(k)]
<1>1. r \in Ring /\ Len(r.blocks) = n /\ r.produce = p /\ r.consume = c /\ i > 1
  BY DEF Is, MayMerge
<1>2. MergeBack(r, i) =
        [blocks |-> blocks, produce |-> Shifted(i, p), consume |-> Shifted(i, c)]
  BY <1>1 DEF MergeBack
<1>3. ASSUME NEW k \in 1 .. n - 1
      PROVE  /\ block(k) \in Block
             /\ block(k).item = IF k < i THEN r.blocks[k].item ELSE r.blocks[k + 1].item
             /\ block(k).size = IF k = i - 1 THEN r.blocks[k].size + r.blocks[i].size
                                ELSE IF k < i THEN r.blocks[k].size ELSE r.blocks[k + 1].size
  <2>1. i \in 1 .. n /\ k \in 1 .. n /\ k + 1 \in 1 .. n  OBVIOUS
  <2>2. /\ r.blocks[i] \in Block /\ r.blocks[k] \in Block /\ r.blocks[k + 1] \in Block
        /\ r.blocks[i].size \in Nat /\ r.blocks[k].size \in Nat
    BY <1>1, <2>1, RingFacts
  <2>3. r.blocks[k].size + r.blocks[i].size \in Nat  BY <2>2
  <2>4. CASE k = i - 1
    <3>1. block(k) = [r.blocks[k] EXCEPT !.size = r.blocks[k].size + r.blocks[i].size]
      BY <2>4
    <3>. QED  BY <2>2, <2>3, <2>4, <3>1 DEF Block
  <2>5. CASE k # i - 1  BY <2>2, <2>5
  <2>. QED  BY <2>4, <2>5
<1> HIDE DEF block
<1>4. blocks \in Seq(Block) /\ Len(blocks) = n - 1
  <2>1. n - 1 \in Nat /\ blocks = [k \in 1 .. n - 1 |-> blocks[k]]  BY <1>1
  <2>2. \A k \in 1 .. n - 1 : blocks[k] \in Block  BY <1>3
  <2> HIDE DEF blocks
  <2>. QED  BY <2>1, <2>2, AsSequence
<1>5. \A k \in 1 .. n - 1 :
         /\ blocks[k].item = IF k < i THEN r.blocks[k].item ELSE r.blocks[k + 1].item
         /\ blocks[k].size = IF k = i - 1 THEN r.blocks[k].size + r.blocks[i].size
                             ELSE IF k < i THEN r.blocks[k].size ELSE r.blocks[k + 1].size
  BY <1>3
<1> HIDE DEF blocks
<1>6. Shifted(i, p) \in Nat /\ Shifted(i, c) \in Nat  BY <1>1 DEF Shifted
<1> DEFINE q == MergeBack(r, i)
<1>7. q \in Ring /\ q.blocks = blocks /\ q.produce = Shifted(i, p)
      /\ q.consume = Shifted(i, c)
  BY <1>2, <1>4, <1>6 DEF Ring
<1> HIDE DEF q
<1>8. \E s : Addresses(s, q, n - 1)
  <2>1. PICK s : Addresses(s, r, n)  BY DEF Is
  <2> DEFINE at(k) == IF k < i THEN s[k] ELSE s[k + 1]
             f == [k \in 1 .. n |-> at(k)]
  <2>2. \A k \in 1 .. n - 1 + 1 : f[k] = at(k) /\ at(k) \in Nat  BY <1>1, <2>1 DEF Addresses
  <2>3. at(1) = 0 /\ at(n - 1 + 1) = RingSize  BY <1>1, <2>1 DEF Addresses
  <2>4. ASSUME NEW k \in 1 .. n - 1 PROVE at(k + 1) = at(k) + blocks[k].size
    <3>1. k \in 1 .. n /\ k + 1 \in 1 .. n /\ i \in 1 .. n  BY <1>1
    <3>2. /\ s[k + 1] = s[k] + r.blocks[k].size
          /\ s[k + 1 + 1] = s[k + 1] + r.blocks[k + 1].size
          /\ s[k] \in Nat /\ r.blocks[k].size \in Nat /\ r.blocks[k + 1].size \in Nat
      <4>1. r.blocks[k].size \in Nat /\ r.blocks[k + 1].size \in Nat  BY <1>1, <3>1, RingFacts
      <4>2. s[k] \in Nat /\ s[k + 1] = s[k] + r.blocks[k].size  BY <2>1, <3>1 DEF Addresses
      <4> DEFINE l == k + 1
      <4>3. l \in 1 .. n  BY <3>1
      <4> HIDE DEF l
      <4>4. s[l + 1] = s[l] + r.blocks[l].size  BY <2>1, <4>3 DEF Addresses
      <4>. QED  BY <4>1, <4>2, <4>4 DEF l
    <3>3. CASE k = i - 1
      <4>1. k + 1 = i  BY <1>1, <3>3
      <4>. QED  BY <1>1, <1>5, <3>2, <3>3, <4>1
    <3>4. CASE k # i - 1  BY <1>1, <1>5, <3>1, <3>2, <3>4
    <3>. QED  BY <3>3, <3>4
  <2>5. ASSUME NEW k \in 1 .. n - 1 PROVE f[k + 1] = f[k] + blocks[k].size
    BY <1>1, <2>2, <2>4
  <2>6. f[1] = 0 /\ f[n - 1 + 1] = RingSize  BY <1>1, <2>2, <2>3
  <2> HIDE DEF f
  <2>7. Addresses(f, q, n - 1)  BY <1>7, <2>2, <2>5, <2>6 DEF Addresses
  <2>. QED  BY <2>7
<1>9. Is(q, n - 1, Shifted(i, p), Shifted(i, c))  BY <1>4, <1>7, <1>8 DEF Is
<1>. QED  BY <1>5, <1>7, <1>9 DEF q

\* Two free blocks in sequence become one; a block that follows an item stays.
LEMMA MayMergeItems ==
    ASSUME NEW r, NEW a \in Nat, NEW m \in Nat, NEW b \in Nat, Items(r, a, m, b),
           Len(r.blocks) \in Nat, NEW i \in 1 .. Len(r.blocks)
    PROVE  MayMerge(r, i) <=> /\ i > 1 /\ ItemAt(a, m, b, i) = 0
                              /\ ItemAt(a, m, b, i - 1) = 0
<1>1. i > 1 => i - 1 \in 1 .. Len(r.blocks)  OBVIOUS
<1>. QED  BY <1>1 DEF MayMerge, Free, NoItem, Items

LEMMA Unfreed ==
    ASSUME NEW r, NEW a \in Nat, NEW m \in Nat, NEW b \in Nat, Items(r, a, m, b),
           Len(r.blocks) \in Nat, NEW i \in 1 .. Len(r.blocks)
    PROVE  Free(r, i) <=> ItemAt(a, m, b, i) = 0
  BY DEF Free, NoItem, Items

-----------------------------------------------------------------------------
(* A pop.                                                                  *)

\* The first item is free, and those behind it move up.
Freed(r) == [r EXCEPT !.blocks = [k \in DOMAIN r.blocks |->
                IF Free(r, k) THEN r.blocks[k] ELSE [r.blocks[k] EXCEPT !.item = @ - 1]]]

LEMMA FreedItems ==
    ASSUME NEW r, NEW n \in Nat, NEW p \in Nat, NEW c \in Nat, Is(r, n, p, c)
    PROVE  /\ Is(Freed(r), n, p, c)
           /\ \A k \in 1 .. n : Freed(r).blocks[k].item =
                 IF r.blocks[k].item = 0 THEN 0 ELSE r.blocks[k].item - 1
<1> DEFINE block(k) ==
        IF Free(r, k) THEN r.blocks[k] ELSE [r.blocks[k] EXCEPT !.item = @ - 1]
           blocks == [k \in 1 .. n |-> block(k)]
<1>1. r \in Ring /\ Len(r.blocks) = n /\ r.produce = p /\ r.consume = c
  BY DEF Is
<1>2. DOMAIN r.blocks = 1 .. n  BY <1>1, RingFacts
<1>3. Freed(r) = [blocks |-> blocks, produce |-> p, consume |-> c]
  BY <1>1, <1>2 DEF Freed, Ring
<1>4. ASSUME NEW k \in 1 .. n
      PROVE  /\ block(k) \in Block
             /\ block(k).item = IF r.blocks[k].item = 0 THEN 0 ELSE r.blocks[k].item - 1
             /\ block(k).size = r.blocks[k].size
  <2>1. r.blocks[k] \in Block /\ r.blocks[k].item \in Nat  BY <1>1, RingFacts
  <2>2. CASE Free(r, k)  BY <2>1, <2>2 DEF Free, NoItem
  <2>3. CASE ~Free(r, k)
    <3>1. r.blocks[k].item - 1 \in Nat /\ r.blocks[k].item # 0
      BY <2>1, <2>3 DEF Free, NoItem
    <3>2. block(k) = [r.blocks[k] EXCEPT !.item = r.blocks[k].item - 1]  BY <2>3
    <3>3. block(k) \in Block  BY <2>1, <3>1, <3>2 DEF Block
    <3>4. block(k).item = r.blocks[k].item - 1 /\ block(k).size = r.blocks[k].size
      BY <2>1, <3>2 DEF Block
    <3>. QED  BY <3>1, <3>3, <3>4
  <2>. QED  BY <2>2, <2>3
<1> HIDE DEF block
<1>5. blocks \in Seq(Block) /\ Len(blocks) = n
  <2>1. blocks = [k \in 1 .. n |-> blocks[k]] /\ \A k \in 1 .. n : blocks[k] \in Block
    BY <1>4
  <2> HIDE DEF blocks
  <2>. QED  BY <2>1, AsSequence
<1>6. \A k \in 1 .. n :
        /\ blocks[k].item = IF r.blocks[k].item = 0 THEN 0 ELSE r.blocks[k].item - 1
        /\ blocks[k].size = r.blocks[k].size
  BY <1>4
<1> HIDE DEF blocks
<1> DEFINE f == Freed(r)
<1>7. f \in Ring /\ f.blocks = blocks /\ f.produce = p /\ f.consume = c
  BY <1>3, <1>5 DEF Ring
<1> HIDE DEF f
<1>8. \E s : Addresses(s, f, n)
  <2>1. PICK s : Addresses(s, r, n)  BY DEF Is
  <2>2. Addresses(s, f, n)  BY <1>6, <1>7, <2>1 DEF Addresses
  <2>. QED  BY <2>2
<1>9. Is(f, n, p, c)  BY <1>5, <1>7, <1>8 DEF Is
<1>. QED  BY <1>6, <1>7, <1>9 DEF f

\* The memory of the first item is joined with what is free before it.
LEMMA FreedMerges ==
    ASSUME NEW r, NEW a, NEW m, NEW b, NEW t, Laid(r, a, m, b, t), b > 0
    PROVE  LET q == MergeBack(Freed(r), Freed(r).consume)
           IN  /\ Is(q, a + b + t, IF a = 0 /\ t = 1 THEN b + 1 ELSE a + 1, a + 1)
               /\ Items(q, a, 1, b - 1)
<1> DEFINE f == Freed(r)
           q == MergeBack(f, f.consume)
           n == a + m + b + t
           p == Ends(a, m, b, t)
           c == a + m + 1
<1>1. a \in Nat /\ m \in {0, 1} /\ b \in Nat /\ t \in {0, 1} /\ Is(r, n, p, c)
      /\ n \in Nat /\ p \in Nat /\ c \in Nat /\ c \in 1 .. n
  BY DEF Laid, Ends
<1>2. \A k \in 1 .. n : r.blocks[k].item = ItemAt(a, m, b, k)
  BY <1>1 DEF Laid, Items, Is
<1> HIDE DEF n, p, c
<1>3. Is(f, n, p, c) /\ \A k \in 1 .. n : f.blocks[k].item =
                 IF r.blocks[k].item = 0 THEN 0 ELSE r.blocks[k].item - 1
  BY <1>1, FreedItems
<1> HIDE DEF f
<1>4. ASSUME NEW k \in 1 .. n
      PROVE  f.blocks[k].item = IF k <= a THEN b + k - 1
                                ELSE IF a + m < k /\ k <= a + m + b THEN k - a - m - 1 ELSE 0
  BY <1>1, <1>2, <1>3 DEF ItemAt, NoItem
<1>5. f.consume = c /\ Len(f.blocks) = n  BY <1>3 DEF Is
<1> DEFINE goal == /\ Is(q, a + b + t, IF a = 0 /\ t = 1 THEN b + 1 ELSE a + 1, a + 1)
                   /\ Items(q, a, 1, b - 1)
<1>6. ASSUME m = 1 PROVE goal
  <2>1. c > 1 /\ c - 1 \in 1 .. n /\ f.blocks[c].item = 0 /\ f.blocks[c - 1].item = 0
    BY <1>1, <1>4, <1>6 DEF c
  <2>2. MayMerge(f, c)  BY <2>1 DEF MayMerge, Free, NoItem
  <2>6. q = MergeBack(f, c)  BY <1>5
  <2> HIDE DEF q
  <2>3. /\ Is(q, n - 1, Shifted(c, p), Shifted(c, c))
        /\ \A k \in 1 .. n - 1 :
              q.blocks[k].item =
                 IF k < c THEN f.blocks[k].item ELSE f.blocks[k + 1].item
    BY <1>1, <1>3, <2>2, <2>6, Merged
  <2>4. n - 1 = a + b + t /\ Shifted(c, c) = a + 1
        /\ Shifted(c, p) = IF a = 0 /\ t = 1 THEN b + 1 ELSE a + 1
    BY <1>1, <1>6 DEF Shifted, n, c, p, Ends
  <2>5. ASSUME NEW k \in 1 .. n - 1 PROVE q.blocks[k].item = ItemAt(a, 1, b - 1, k)
    <3>1. CASE k < c
      <4>1. q.blocks[k].item = f.blocks[k].item /\ k \in 1 .. n  BY <1>1, <2>3, <3>1
      <4>. QED  BY <1>1, <1>4, <1>6, <3>1, <4>1 DEF ItemAt, NoItem, c
    <3>2. CASE ~(k < c)
      <4>1. q.blocks[k].item = f.blocks[k + 1].item /\ k + 1 \in 1 .. n
        BY <1>1, <2>3, <3>2
      <4>. QED  BY <1>1, <1>4, <1>6, <3>2, <4>1 DEF ItemAt, NoItem, c
    <3>. QED  BY <3>1, <3>2
  <2>7. Items(q, a, 1, b - 1)  BY <2>3, <2>5 DEF Is, Items
  <2>. QED  BY <2>3, <2>4, <2>7
<1>7. ASSUME m = 0 PROVE goal
  <2>1. c > 1 => c - 1 \in 1 .. n /\ f.blocks[c - 1].item # 0
    BY <1>1, <1>4, <1>7 DEF c
  <2>2. ~MayMerge(f, c)  BY <2>1 DEF MayMerge, Free, NoItem
  <2>3. q = f  BY <1>5, <2>2, Unmerged
  <2>4. n = a + b + t /\ c = a + 1 /\ p = IF a = 0 /\ t = 1 THEN b + 1 ELSE a + 1
    BY <1>1, <1>7 DEF n, c, p, Ends
  <2>5. ASSUME NEW k \in 1 .. n PROVE f.blocks[k].item = ItemAt(a, 1, b - 1, k)
    BY <1>1, <1>4, <1>7 DEF ItemAt, NoItem
  <2> HIDE DEF q
  <2>6. Items(q, a, 1, b - 1)  BY <1>5, <2>3, <2>5 DEF Items
  <2>. QED  BY <1>3, <2>3, <2>4, <2>6
<1>8. goal  BY <1>1, <1>6, <1>7
<1>. QED  BY <1>8 DEF f

\* m_pConsume is moved on, past the free memory behind it.
Steps(f, r) ==
    f = [k \in 1 .. Len(r.blocks) + 1 |->
            LET p == IF k = 1 THEN Freed(r) ELSE f[k - 1]
            IN  IF k = 1 \/ (Free(p, p.consume) /\ p.consume # p.produce)
                THEN Advance(p) ELSE p]

Once(p) == IF Free(p, p.consume) /\ p.consume # p.produce THEN Advance(p) ELSE p

LEMMA PoppedIs ==
    ASSUME NEW r, Len(r.blocks) \in Nat \ {0},
           NEW h, h = Once(Advance(Freed(r))), Once(h) = h
    PROVE  Popped(r) = MergeBack(h, h.consume)
<1> DEFINE n == Len(r.blocks)
           body(f, k) == LET p == IF k = 1 THEN Freed(r) ELSE f[k - 1]
                         IN  IF k = 1 \/ (Free(p, p.consume) /\ p.consume # p.produce)
                             THEN Advance(p) ELSE p
           g == [k \in 1 .. n + 1 |-> IF k = 1 THEN Advance(Freed(r)) ELSE h]
           f == CHOOSE f : Steps(f, r)
<1>1. ASSUME NEW k \in 1 .. n + 1 PROVE g[k] = body(g, k)
  <2>1. CASE k = 1  BY <2>1
  <2>2. CASE k # 1
    <3>1. k - 1 \in 1 .. n + 1 /\ g[k] = h  BY <2>2
    <3>2. body(g, k) = Once(g[k - 1])  BY <2>2 DEF Once
    <3>3. g[k - 1] = Advance(Freed(r)) \/ g[k - 1] = h  BY <3>1
    <3>. QED  BY <3>1, <3>2, <3>3
  <2>. QED  BY <2>1, <2>2
<1>2. g = [k \in 1 .. n + 1 |-> body(g, k)]
  <2>1. g = [k \in 1 .. n + 1 |-> g[k]]  OBVIOUS
  <2> HIDE DEF g, body
  <2>. QED  BY <1>1, <2>1
<1>3. Steps(g, r)
  <2> HIDE DEF g
  <2>. QED  BY <1>2 DEF Steps
<1>4. Steps(f, r)  BY <1>3
<1>5. Popped(r) = MergeBack(f[n + 1], f[n + 1].consume)
  BY DEF Popped, Freed, Steps
<1> HIDE DEF f, g
<1>6. ASSUME NEW k \in 1 .. n + 1 PROVE f[k] = body(f, k)
  BY <1>4 DEF Steps
<1>7. f[1] = Advance(Freed(r))  BY <1>6
<1>8. ASSUME NEW k \in 2 .. n + 1 PROVE f[k] = Once(f[k - 1])
  BY <1>6 DEF Once
<1> HIDE DEF body
<1> DEFINE wrong == {k \in 2 .. n + 1 : f[k] # h}
<1>9. wrong = {}
  <2> SUFFICES ASSUME wrong # {} PROVE FALSE
    OBVIOUS
  <2>1. PICK k \in wrong : \A j \in wrong : k <= j
    <3>1. wrong \subseteq Nat  OBVIOUS
    <3>. QED  BY <3>1, Least
  <2>2. k \in 2 .. n + 1 /\ f[k] # h /\ f[k] = Once(f[k - 1])  BY <1>8, <2>1
  <2>3. CASE k = 2  BY <1>7, <2>2, <2>3
  <2>4. CASE k # 2
    <3>1. k - 1 \in 2 .. n + 1 /\ k - 1 \notin wrong  BY <2>1, <2>2, <2>4
    <3>2. f[k - 1] = h  BY <3>1
    <3>. QED  BY <2>2, <3>2
  <2>. QED  BY <2>3, <2>4
<1>10. n + 1 \in 2 .. n + 1  OBVIOUS
<1>11. f[n + 1] = h  BY <1>9, <1>10
<1>. QED  BY <1>5, <1>11

LEMMA AdvanceIs ==
    ASSUME NEW r, NEW q, q = MergeBack(r, r.consume),
           NEW n \in Nat, NEW p \in Nat, NEW c \in Nat, Is(q, n, p, c)
    PROVE  /\ Is(Advance(r), n, p, IF c < n THEN c + 1 ELSE 1)
           /\ Advance(r).blocks = q.blocks
<1>1. q \in Ring /\ Len(q.blocks) = n /\ q.produce = p /\ q.consume = c  BY DEF Is
<1>2. Advance(r) = [q EXCEPT !.consume = IF c < n THEN c + 1 ELSE 1]
  BY <1>1 DEF Advance, NextBlock
<1> DEFINE new == Advance(r)
<1>3. /\ new \in Ring /\ new.blocks = q.blocks /\ new.produce = p
      /\ new.consume = IF c < n THEN c + 1 ELSE 1
  BY <1>1, <1>2 DEF Ring
<1> HIDE DEF new
<1>4. \E s : Addresses(s, new, n)  BY <1>3 DEF Is, Addresses
<1>5. Is(new, n, p, IF c < n THEN c + 1 ELSE 1)  BY <1>1, <1>3, <1>4 DEF Is
<1>. QED  BY <1>3, <1>5 DEF new

\* A pop leaves one item less, in the order they were.
LEMMA PoppedLaid ==
    ASSUME NEW r, NEW a, NEW m, NEW b, NEW t, Laid(r, a, m, b, t), b > 0
    PROVE  IF b > 1 THEN Laid(Popped(r), a, 1, b - 1, t) ELSE Laid(Popped(r), 0, 0, a, 1)
<1> DEFINE q == MergeBack(Freed(r), Freed(r).consume)
           n == a + b + t
           p == IF a = 0 /\ t = 1 THEN b + 1 ELSE a + 1
           s == Advance(Freed(r))
           h == Once(s)
           goal(x) == IF b > 1 THEN Laid(x, a, 1, b - 1, t) ELSE Laid(x, 0, 0, a, 1)
<1>1. a \in Nat /\ m \in {0, 1} /\ b \in Nat /\ t \in {0, 1}
      /\ n \in Nat /\ p \in Nat /\ a + 1 \in Nat /\ Len(r.blocks) \in Nat \ {0}
  BY DEF Laid, Is
<1>2. Is(q, n, p, a + 1) /\ Items(q, a, 1, b - 1)  BY FreedMerges
<1>3. Is(s, n, p, IF a + 1 < n THEN a + 2 ELSE 1) /\ s.blocks = q.blocks
  <2> HIDE DEF n, p
  <2>1. Is(s, n, p, IF a + 1 < n THEN (a + 1) + 1 ELSE 1) /\ s.blocks = q.blocks
    <3>1. q = MergeBack(Freed(r), Freed(r).consume)  OBVIOUS
    <3> HIDE DEF q
    <3>. QED  BY <1>1, <1>2, <3>1, AdvanceIs
  <2>2. (a + 1) + 1 = a + 2  BY <1>1
  <2>. QED  BY <2>1, <2>2
<1>4. Items(s, a, 1, b - 1)  BY <1>2, <1>3 DEF Items
<1> HIDE DEF q, n, p, s
<1>5. s.produce = p /\ s.consume = (IF a + 1 < n THEN a + 2 ELSE 1) /\ Len(s.blocks) = n
  BY <1>3 DEF Is
<1>6. ASSUME NEW i \in 1 .. n PROVE Free(s, i) <=> ItemAt(a, 1, b - 1, i) = 0
  BY <1>1, <1>4, <1>5, <1>6, Unfreed
<1>7. ASSUME NEW i \in 1 .. n
      PROVE  MayMerge(s, i) <=> /\ i > 1 /\ ItemAt(a, 1, b - 1, i) = 0
                                /\ ItemAt(a, 1, b - 1, i - 1) = 0
  BY <1>1, <1>4, <1>5, <1>7, MayMergeItems
<1>8. ASSUME h = s, Once(h) = h PROVE Popped(r) = MergeBack(s, s.consume)
  <2>1. s = Advance(Freed(r))  BY DEF s
  <2>. QED  BY <1>1, <1>8, <2>1, PoppedIs
<1>9. ASSUME b > 1 PROVE goal(Popped(r))
  <2>1. s.consume = a + 2 /\ a + 2 \in 1 .. n  BY <1>1, <1>5, <1>9 DEF n
  <2>2. ~Free(s, a + 2) /\ ~MayMerge(s, a + 2)
    BY <1>1, <1>6, <1>7, <1>9, <2>1 DEF ItemAt, NoItem
  <2>3. h = s /\ Once(h) = h  BY <2>1, <2>2 DEF Once
  <2>4. Popped(r) = s  BY <1>8, <2>1, <2>2, <2>3, Unmerged
  <2>5. n = a + 1 + (b - 1) + t /\ p = Ends(a, 1, b - 1, t) /\ a + 2 = a + 1 + 1
    BY <1>1, <1>9 DEF n, p, Ends
  <2>6. Is(s, n, p, a + 2)  BY <1>3, <1>5, <2>1
  <2>. QED  BY <1>1, <1>4, <1>9, <2>4, <2>5, <2>6 DEF Laid
<1>10. ASSUME ~(b > 1) PROVE goal(Popped(r))
  <2>1. b = 1  BY <1>1, <1>10
  <2>2. ASSUME NEW x, Is(x, a + 1, a + 1, 1), Items(x, a, 1, 0) PROVE goal(x)
    <3>1. ASSUME NEW i \in 1 .. a + 1 PROVE ItemAt(a, 1, 0, i) = ItemAt(0, 0, a, i)
      BY <1>1 DEF ItemAt, NoItem
    <3>2. Items(x, 0, 0, a)  BY <2>2, <3>1 DEF Items, Is
    <3>3. a + 1 = 0 + 0 + a + 1 /\ a + 1 = Ends(0, 0, a, 1) /\ 1 = 0 + 0 + 1
      BY <1>1 DEF Ends
    <3>4. Laid(x, 0, 0, a, 1)  BY <1>1, <2>2, <3>2, <3>3 DEF Laid
    <3>. QED  BY <1>10, <3>4
  <2>3. CASE t = 0
    <3>1. n = a + 1 /\ p = a + 1 /\ s.consume = 1 /\ 1 \in 1 .. n
      BY <1>1, <1>5, <2>1, <2>3 DEF n, p
    <3>2. ~MayMerge(s, 1)  BY <3>1, <1>7
    <3>3. Free(s, 1) => a = 0
      BY <1>1, <1>6, <2>1, <3>1 DEF ItemAt
    <3>4. h = s /\ Once(h) = h  BY <1>5, <3>1, <3>3 DEF Once
    <3>5. Popped(r) = s  BY <1>8, <3>1, <3>2, <3>4, Unmerged
    <3>6. Is(s, a + 1, a + 1, 1) /\ Items(s, a, 1, 0)  BY <1>3, <1>4, <1>5, <2>1, <3>1
    <3>. QED  BY <2>2, <3>5, <3>6
  <2>4. CASE t = 1
    <3> DEFINE u == MergeBack(s, a + 2)
    <3>1. n = a + 2 /\ s.consume = a + 2 /\ a + 2 \in 1 .. n
          /\ p = IF a = 0 THEN 2 ELSE a + 1
      BY <1>1, <1>5, <2>1, <2>4 DEF n, p
    <3>2. Free(s, a + 2) /\ MayMerge(s, a + 2)
      BY <1>1, <1>6, <1>7, <2>1, <3>1 DEF ItemAt, NoItem
    <3>3. Is(s, a + 2, p, a + 2) /\ p \in Nat  BY <1>1, <1>3, <1>5, <3>1
    <3> DEFINE z == a + 2
    <3>4. z \in Nat /\ z \in 1 .. z /\ MayMerge(s, z) /\ Is(s, z, p, z) /\ u = MergeBack(s, z)
      BY <1>1, <3>2, <3>3
    <3>5. z - 1 = a + 1 /\ Shifted(z, p) = a + 1 /\ Shifted(z, z) = a + 1
      BY <1>1, <3>1 DEF Shifted
    <3>11. a + 1 < z  BY <1>1
    <3> HIDE DEF z, u
    <3>12. /\ Is(u, z - 1, Shifted(z, p), Shifted(z, z))
           /\ \A k \in 1 .. z - 1 :
                 u.blocks[k].item = IF k < z THEN s.blocks[k].item ELSE s.blocks[k + 1].item
      BY <3>3, <3>4, Merged
    <3>6. Is(u, a + 1, a + 1, a + 1)  BY <3>5, <3>12
    <3>7. ASSUME NEW k \in 1 .. a + 1 PROVE u.blocks[k].item = ItemAt(a, 1, 0, k)
      <4>1. k < z /\ k \in 1 .. z - 1 /\ k \in 1 .. n  BY <1>1, <3>1 DEF z
      <4>2. u.blocks[k].item = s.blocks[k].item  BY <3>12, <4>1
      <4>. QED  BY <1>4, <1>5, <2>1, <4>1, <4>2 DEF Items
    <3>8. Items(u, a, 1, 0)  BY <3>6, <3>7 DEF Items, Is
    <3>9. CASE a = 0
      <4>1. h = s /\ Once(h) = h  BY <1>5, <3>1, <3>9 DEF Once
      <4>2. Popped(r) = u  BY <1>8, <3>1, <4>1 DEF u
      <4>3. Is(u, a + 1, a + 1, 1)  BY <3>6, <3>9
      <4>. QED  BY <2>2, <3>8, <4>2, <4>3
    <3>10. CASE a # 0
      <4> DEFINE w == Advance(s)
      <4>1. s.consume # s.produce  BY <1>1, <1>5, <3>1, <3>10
      <4>2. h = w  BY <3>1, <3>2, <4>1 DEF Once
      <4>3. Is(w, a + 1, a + 1, IF a + 1 < a + 1 THEN (a + 1) + 1 ELSE 1) /\ w.blocks = u.blocks
        <5>1. u = MergeBack(s, s.consume)  BY <3>1 DEF u
        <5>. QED  BY <1>1, <3>6, <5>1, AdvanceIs
      <4>4. Is(w, a + 1, a + 1, 1)  BY <1>1, <4>3
      <4> HIDE DEF w
      <4>5. Items(w, a, 1, 0)  BY <3>8, <4>3 DEF Items
      <4>6. w.consume = 1 /\ 1 \in 1 .. a + 1 /\ ~Free(w, 1)
        <5>1. w.consume = 1 /\ Len(w.blocks) = a + 1 /\ 1 \in 1 .. a + 1
          BY <1>1, <4>4 DEF Is
        <5>2. ItemAt(a, 1, 0, 1) # 0  BY <1>1, <3>10 DEF ItemAt
        <5>. QED  BY <1>1, <4>5, <5>1, <5>2, Unfreed
      <4>7. Once(w) = w /\ ~MayMerge(w, 1)  BY <4>6 DEF Once, MayMerge
      <4>8. Popped(r) = MergeBack(w, w.consume)
        <5>1. w = Once(Advance(Freed(r)))  BY <4>2 DEF s
        <5>. QED  BY <1>1, <4>7, <5>1, PoppedIs
      <4>9. Popped(r) = w  BY <4>6, <4>7, <4>8, Unmerged
      <4>. QED  BY <2>2, <4>4, <4>5, <4>9
    <3>. QED  BY <3>9, <3>10
  <2>. QED  BY <1>1, <2>3, <2>4
<1>. QED  BY <1>9, <1>10

-----------------------------------------------------------------------------
(* An allocation.                                                          *)

\* The sequence in which element i gives way to x, or to x and y.
Spliced(s, i, x, rest) == SubSeq(s, 1, i - 1) \o <<x>> \o rest \o SubSeq(s, i + 1, Len(s))

Splices(new, s, i, x, rest, d) ==
    /\ Len(new) = Len(s) + d
    /\ \A k \in 1 .. Len(s) + d :
          new[k] = IF k < i THEN s[k] ELSE IF k = i THEN x
                   ELSE IF k <= i + d THEN rest[k - i] ELSE s[k - d]

LEMMA Replaced ==
    ASSUME NEW S, NEW s \in Seq(S), NEW i \in 1 .. Len(s), NEW rest \in Seq(S), NEW x \in S,
           NEW d, d = Len(rest),
           NEW new, new = Spliced(s, i, x, rest)
    PROVE  new \in Seq(S) /\ Splices(new, s, i, x, rest, d)
<1> DEFINE A == SubSeq(s, 1, i - 1)
           B == <<x>>
           D == SubSeq(s, i + 1, Len(s))
           n == Len(s)
<1>1. n \in Nat /\ d \in Nat /\ i \in 1 .. n  OBVIOUS
<1>2. A \in Seq(S) /\ Len(A) = i - 1 /\ \A k \in 1 .. i - 1 : A[k] = s[k]
  <2>1. 1 \in 1 .. n + 1 /\ i - 1 \in 0 .. n  BY <1>1
  <2>. QED  BY <1>1, <2>1
<1>3. B \in Seq(S) /\ Len(B) = 1 /\ B[1] = x  OBVIOUS
<1>4. D \in Seq(S) /\ Len(D) = n - i /\ \A k \in 1 .. n - i : D[k] = s[i + k]
  <2>1. i + 1 \in 1 .. n + 1 /\ n \in 0 .. n  BY <1>1
  <2>. QED  BY <1>1, <2>1
<1>10. new = A \o B \o rest \o D  BY DEF Spliced
<1> HIDE DEF A, B, D
<1> DEFINE AB == A \o B
           ABC == AB \o rest
<1>5. AB \in Seq(S) /\ Len(AB) = i
      /\ \A k \in 1 .. i : AB[k] = IF k < i THEN s[k] ELSE x
  <2>1. AB \in Seq(S) /\ Len(AB) = i
    <3>1. AB \in Seq(S) /\ Len(AB) = Len(A) + Len(B)  BY <1>2, <1>3, ConcatProperties
    <3>. QED  BY <1>1, <1>2, <1>3, <3>1
  <2>2. ASSUME NEW k \in 1 .. i PROVE AB[k] = IF k < i THEN s[k] ELSE x
    <3>1. AB[k] = IF k <= Len(A) THEN A[k] ELSE B[k - Len(A)]
      <4>1. k \in 1 .. Len(A) + Len(B)  BY <1>1, <1>2, <1>3
      <4>. QED  BY <1>2, <1>3, <4>1, ConcatProperties
    <3>. QED  BY <1>1, <1>2, <1>3, <3>1
  <2>. QED  BY <2>1, <2>2
<1> HIDE DEF AB
<1>6. ABC \in Seq(S) /\ Len(ABC) = i + d
      /\ \A k \in 1 .. i + d : ABC[k] = IF k < i THEN s[k] ELSE IF k = i THEN x ELSE rest[k - i]
  <2>1. ABC \in Seq(S) /\ Len(ABC) = i + d
    <3>1. ABC \in Seq(S) /\ Len(ABC) = Len(AB) + Len(rest)  BY <1>5, ConcatProperties
    <3>. QED  BY <1>1, <1>5, <3>1
  <2>2. ASSUME NEW k \in 1 .. i + d
        PROVE  ABC[k] = IF k < i THEN s[k] ELSE IF k = i THEN x ELSE rest[k - i]
    <3>1. ABC[k] = IF k <= Len(AB) THEN AB[k] ELSE rest[k - Len(AB)]
      <4>1. k \in 1 .. Len(AB) + Len(rest)  BY <1>1, <1>5
      <4>. QED  BY <1>5, <4>1, ConcatProperties
    <3>. QED  BY <1>1, <1>5, <3>1
  <2>. QED  BY <2>1, <2>2
<1>11. new = ABC \o D  BY <1>10 DEF AB, ABC
<1> HIDE DEF ABC
<1>7. new \in Seq(S) /\ Len(new) = n + d
  <2>1. new \in Seq(S) /\ Len(new) = Len(ABC) + Len(D)  BY <1>4, <1>6, <1>11, ConcatProperties
  <2>. QED  BY <1>1, <1>4, <1>6, <2>1
<1>8. ASSUME NEW k \in 1 .. n + d
      PROVE  new[k] = IF k < i THEN s[k] ELSE IF k = i THEN x
                      ELSE IF k <= i + d THEN rest[k - i] ELSE s[k - d]
  <2>1. new[k] = IF k <= Len(ABC) THEN ABC[k] ELSE D[k - Len(ABC)]
    <3>1. k \in 1 .. Len(ABC) + Len(D)  BY <1>1, <1>4, <1>6
    <3>. QED  BY <1>4, <1>6, <1>11, <3>1, ConcatProperties
  <2>2. CASE k <= i + d  BY <1>1, <1>6, <2>1, <2>2
  <2>3. CASE ~(k <= i + d)
    <3>1. k - (i + d) \in 1 .. n - i /\ i + (k - (i + d)) = k - d  BY <1>1, <2>3
    <3>2. new[k] = s[i + (k - (i + d))]  BY <1>4, <1>6, <2>1, <2>3, <3>1
    <3>. QED  BY <1>1, <2>3, <3>1, <3>2
  <2>. QED  BY <2>2, <2>3
<1>. QED  BY <1>7, <1>8 DEF Splices

\* What Allocate makes of block i of n: an item, and a free block behind it if d = 1
Grown(new, r, n, c, i, item, d) ==
    /\ Is(new, n + d, IF i < n + d THEN i + 1 ELSE 1, IF d = 1 /\ c > i THEN c + 1 ELSE c)
    /\ \A k \in 1 .. n + d :
          new.blocks[k].item = IF k < i THEN r.blocks[k].item ELSE IF k = i THEN item
                               ELSE IF k <= i + d THEN 0 ELSE r.blocks[k - d].item

LEMMA TakenIs ==
    ASSUME NEW r, NEW n \in Nat, NEW p \in Nat, NEW c \in Nat, Is(r, n, p, c),
           NEW i \in 1 .. n, NEW size \in Nat, NEW item \in Nat
    PROVE  \E d \in {0, 1} : Grown(Taken(r, i, size, item), r, n, c, i, item, d)
<1> DEFINE block == r.blocks[i]
           split == block.size > size + 1
           x == [size |-> IF split THEN size ELSE block.size, item |-> item]
           y == [size |-> block.size - size, item |-> NoItem]
           rest == IF split THEN << y >> ELSE <<>>
           d == IF split THEN 1 ELSE 0
           blocks == SubSeq(r.blocks, 1, i - 1) \o <<x>> \o rest
                     \o SubSeq(r.blocks, i + 1, Len(r.blocks))
           consume == IF split /\ c > i THEN c + 1 ELSE c
           new == [r EXCEPT !.blocks = blocks, !.consume = consume]
           taken == Taken(r, i, size, item)
<1>1. r \in Ring /\ Len(r.blocks) = n /\ r.produce = p /\ r.consume = c  BY DEF Is
<1>2. r.blocks \in Seq(Block) /\ block \in Block /\ block.size \in Nat  BY <1>1, RingFacts
<1>3. x \in Block  BY <1>2 DEF Block
<1>4. /\ rest \in Seq(Block) /\ Len(rest) = d
      /\ d = 1 => rest[1].item = 0 /\ rest[1].size = block.size - size
  <2>1. split => y \in Block  BY <1>2 DEF Block, NoItem
  <2>2. y.item = 0 /\ y.size = block.size - size  BY DEF NoItem
  <2> HIDE DEF y, split
  <2>. QED  BY <2>1, <2>2
<1>5. taken = [new EXCEPT !.produce = NextBlock(new, i)]
  BY <1>1 DEF Taken
<1>6. d \in {0, 1} /\ (split <=> d = 1)  OBVIOUS
<1>7. /\ x.item = item /\ x.size = IF d = 1 THEN size ELSE block.size
      /\ d = 1 => size < block.size
  BY <1>2
<1> HIDE DEF x, rest, d, split, block
<1>8. /\ blocks \in Seq(Block) /\ Len(blocks) = n + d
      /\ \A k \in 1 .. n + d :
            blocks[k] = IF k < i THEN r.blocks[k] ELSE IF k = i THEN x
                        ELSE IF k <= i + d THEN rest[k - i] ELSE r.blocks[k - d]
  <2>1. r.blocks \in Seq(Block) /\ i \in 1 .. Len(r.blocks) /\ n = Len(r.blocks)
        /\ d = Len(rest)
    BY <1>1, <1>2, <1>4
  <2>2. blocks = Spliced(r.blocks, i, x, rest)  BY DEF Spliced
  <2> HIDE DEF block, blocks
  <2>3. blocks \in Seq(Block) /\ Splices(blocks, r.blocks, i, x, rest, d)
    BY <1>3, <1>4, <2>1, <2>2, Replaced
  <2>. QED  BY <2>1, <2>3 DEF Splices
<1> HIDE DEF blocks
<1>9. consume \in Nat /\ consume = IF d = 1 /\ c > i THEN c + 1 ELSE c  BY <1>6
<1> HIDE DEF consume
<1>10. /\ new \in Ring
       /\ new.blocks = blocks /\ new.produce = p /\ new.consume = consume
  BY <1>1, <1>8, <1>9 DEF Ring
<1> HIDE DEF new
<1>11. NextBlock(new, i) = IF i < n + d THEN i + 1 ELSE 1
  BY <1>8, <1>10 DEF NextBlock
<1>12. /\ taken \in Ring /\ taken.blocks = blocks /\ taken.consume = consume
       /\ taken.produce = IF i < n + d THEN i + 1 ELSE 1
  BY <1>5, <1>10, <1>11 DEF Ring
<1> HIDE DEF taken
<1>16. \E s : Addresses(s, taken, n + d)
  <2>1. PICK s : Addresses(s, r, n)  BY DEF Is
  <2>2. \A k \in 1 .. n : r.blocks[k].size \in Nat  BY <1>1, RingFacts
  <2>3. CASE d = 0
    <3>1. ASSUME NEW k \in 1 .. n PROVE blocks[k].size = r.blocks[k].size
      <4>1. blocks[k] = IF k < i THEN r.blocks[k] ELSE IF k = i THEN x ELSE r.blocks[k]
        BY <1>8, <2>3
      <4>. QED  BY <1>7, <2>3, <4>1 DEF block
    <3>2. n + d = n  BY <2>3
    <3>. QED  BY <1>12, <2>1, <3>1, <3>2 DEF Addresses
  <2>4. CASE d = 1
    <3> DEFINE at(k) == IF k <= i THEN s[k] ELSE IF k = i + 1 THEN s[i] + size ELSE s[k - 1]
               f == [k \in 1 .. n + 2 |-> at(k)]
    <3>1. n + d + 1 = n + 2 /\ n + d = n + 1 /\ n + 2 - 1 = n + 1  BY <2>4
    <3>2. ASSUME NEW k \in 1 .. n + 2 PROVE f[k] = at(k) /\ at(k) \in Nat
      <4>1. s[i] \in Nat  BY <2>1 DEF Addresses
      <4>2. k <= i => s[k] \in Nat  BY <2>1 DEF Addresses
      <4>3. k > i + 1 => s[k - 1] \in Nat  BY <2>1 DEF Addresses
      <4>. QED  BY <4>1, <4>2, <4>3
    <3>3. at(1) = 0 /\ at(n + 2) = RingSize  BY <2>1, <3>1 DEF Addresses
    <3>4. ASSUME NEW k \in 1 .. n + 1 PROVE at(k + 1) = at(k) + blocks[k].size
      <4>1. CASE k < i
        <5>1. k \in 1 .. n /\ blocks[k].size = r.blocks[k].size  BY <1>8, <3>1, <4>1
        <5>. QED  BY <2>1, <4>1, <5>1 DEF Addresses
      <4>2. CASE k = i
        <5>1. blocks[k].size = size  BY <1>7, <1>8, <2>4, <3>1, <4>2
        <5>. QED  BY <4>2, <5>1
      <4>3. CASE k = i + 1
        <5>1. blocks[k].size = block.size - size
          <6>1. blocks[k] = rest[1]  BY <1>8, <2>4, <3>1, <4>3
          <6>. QED  BY <1>4, <2>4, <6>1
        <5>2. s[i + 1] = s[i] + block.size /\ s[i] \in Nat  BY <2>1 DEF Addresses, block
        <5>3. at(k + 1) = s[i + 1] /\ at(k) = s[i] + size  BY <4>3
        <5>. QED  BY <1>2, <5>1, <5>2, <5>3
      <4>4. CASE k > i + 1
        <5>1. k - 1 \in 1 .. n /\ blocks[k].size = r.blocks[k - 1].size
          BY <1>8, <2>4, <3>1, <4>4
        <5>2. s[k - 1 + 1] = s[k - 1] + r.blocks[k - 1].size  BY <2>1, <5>1 DEF Addresses
        <5>3. at(k + 1) = s[k] /\ at(k) = s[k - 1] /\ k - 1 + 1 = k  BY <4>4
        <5>. QED  BY <5>1, <5>2, <5>3
      <4>. QED  BY <4>1, <4>2, <4>3, <4>4
    <3>5. ASSUME NEW k \in 1 .. n + 1 PROVE f[k + 1] = f[k] + blocks[k].size
      <4>1. k \in 1 .. n + 2 /\ k + 1 \in 1 .. n + 2  OBVIOUS
      <4> HIDE DEF f, at
      <4>. QED  BY <3>2, <3>4, <4>1
    <3>6. f[1] = 0 /\ f[n + 2] = RingSize
      <4>1. 1 \in 1 .. n + 2 /\ n + 2 \in 1 .. n + 2  OBVIOUS
      <4> HIDE DEF f, at
      <4>. QED  BY <3>2, <3>3, <4>1
    <3>7. \A k \in 1 .. n + 2 : f[k] \in Nat
      <4> HIDE DEF f, at
      <4>. QED  BY <3>2
    <3> HIDE DEF f
    <3>8. Addresses(f, taken, n + d)  BY <1>12, <3>1, <3>5, <3>6, <3>7 DEF Addresses
    <3>. QED  BY <3>8
  <2>. QED  BY <1>6, <2>3, <2>4
<1>13. Is(taken, n + d, IF i < n + d THEN i + 1 ELSE 1, IF d = 1 /\ c > i THEN c + 1 ELSE c)
  BY <1>8, <1>9, <1>12, <1>16 DEF Is
<1>14. ASSUME NEW k \in 1 .. n + d
       PROVE  taken.blocks[k].item =
                 IF k < i THEN r.blocks[k].item ELSE IF k = i THEN item
                 ELSE IF k <= i + d THEN 0 ELSE r.blocks[k - d].item
  <2>1. taken.blocks[k] = blocks[k]  BY <1>12
  <2>2. k > i /\ k <= i + d => d = 1 /\ k - i = 1  BY <1>6
  <2>. QED  BY <1>4, <1>7, <1>8, <2>1, <2>2
<1>. QED  BY <1>6, <1>13, <1>14 DEF taken, Grown

\* What Allocate finds is the free memory behind the last item, or before the first.
IsFound(i, a, m, b, t) ==
    \/ a = 0 /\ t = 1 /\ i = m + b + 1
    \/ m = 1 /\ i = a + 1

LEMMA FoundLaid ==
    ASSUME NEW r, NEW a, NEW m, NEW b, NEW t, Laid(r, a, m, b, t), NEW size,
           Found(r, size) # 0
    PROVE  IsFound(Found(r, size), a, m, b, t)
<1> DEFINE n == a + m + b + t
           p == Ends(a, m, b, t)
<1>1. /\ a \in Nat /\ m \in {0, 1} /\ b \in Nat /\ t \in {0, 1} /\ n \in Nat
      /\ b = 0 => a = 0 /\ m = 0 /\ t = 1
      /\ Items(r, a, m, b) /\ Len(r.blocks) = n /\ r.produce = p
  BY DEF Laid, Is
<1>2. p \in 1 .. n /\ 1 \in 1 .. n  BY <1>1 DEF Ends
<1>3. Free(r, p) => ItemAt(a, m, b, p) = 0  BY <1>1, <1>2, Unfreed
<1>4. Free(r, 1) => ItemAt(a, m, b, 1) = 0  BY <1>1, <1>2, Unfreed
<1>5. \/ Free(r, p) /\ Found(r, size) = p
      \/ Free(r, 1) /\ Found(r, size) = 1
  BY <1>1 DEF Found
<1>6. CASE Free(r, p) /\ Found(r, size) = p
  BY <1>1, <1>3, <1>6 DEF ItemAt, Ends, NoItem, IsFound
<1>7. CASE Free(r, 1) /\ Found(r, size) = 1
  BY <1>1, <1>4, <1>7 DEF ItemAt, NoItem, IsFound
<1>. QED  BY <1>5, <1>6, <1>7

\* The item that is allocated follows all others.
LEMMA TakenLaid ==
    ASSUME NEW r, NEW a, NEW m, NEW b, NEW t, Laid(r, a, m, b, t), NEW size \in Nat,
           Found(r, size) # 0
    PROVE  \E e, f, g, h : /\ Laid(Taken(r, Found(r, size), size, a + b + 1), e, f, g, h)
                           /\ e + g = a + b + 1
<1> DEFINE n == a + m + b + t
           p == Ends(a, m, b, t)
           c == a + m + 1
           i == Found(r, size)
           new == Taken(r, i, size, a + b + 1)
<1>1. /\ a \in Nat /\ m \in {0, 1} /\ b \in Nat /\ t \in {0, 1}
      /\ n \in Nat /\ p \in Nat /\ c \in Nat /\ a + b + 1 \in Nat
      /\ b = 0 => a = 0 /\ m = 0 /\ t = 1
      /\ Items(r, a, m, b) /\ Len(r.blocks) = n /\ Is(r, n, p, c)
  BY DEF Laid, Is, Ends
<1>2. IsFound(i, a, m, b, t)  BY FoundLaid
<1> HIDE DEF i
<1>3. i \in 1 .. n  BY <1>1, <1>2 DEF IsFound
<1>4. \A k \in 1 .. n : r.blocks[k].item = ItemAt(a, m, b, k)  BY <1>1 DEF Items
<1> HIDE DEF n, p, c
<1>5. PICK d \in {0, 1} : Grown(new, r, n, c, i, a + b + 1, d)
  <2> DEFINE item == a + b + 1
  <2>1. item \in Nat /\ new = Taken(r, i, size, item)  BY <1>1
  <2> HIDE DEF new, item
  <2>2. \E d \in {0, 1} : Grown(new, r, n, c, i, item, d)  BY <1>1, <1>3, <2>1, TakenIs
  <2>. QED  BY <2>2 DEF item
<1> HIDE DEF new
<1>6. ASSUME NEW k \in 1 .. n + d
      PROVE  new.blocks[k].item =
                IF k < i THEN ItemAt(a, m, b, k) ELSE IF k = i THEN a + b + 1
                ELSE IF k <= i + d THEN 0 ELSE ItemAt(a, m, b, k - d)
  <2>1. k < i => k \in 1 .. n  BY <1>1, <1>3
  <2>2. k > i + d => k - d \in 1 .. n  BY <1>1, <1>3
  <2>. QED  BY <1>3, <1>4, <1>5, <2>1, <2>2 DEF Grown
<1>7. CASE a = 0 /\ t = 1 /\ i = m + b + 1
  <2>1. ASSUME NEW k \in 1 .. n + d PROVE new.blocks[k].item = ItemAt(0, m, b + 1, k)
    BY <1>1, <1>6, <1>7, <2>1 DEF ItemAt, NoItem, n
  <2>2. Items(new, 0, m, b + 1)  BY <1>5, <2>1 DEF Items, Is, Grown
  <2>3. n + d = 0 + m + (b + 1) + d /\ b + 1 \in Nat
        /\ (IF i < n + d THEN i + 1 ELSE 1) = Ends(0, m, b + 1, d)
        /\ (IF d = 1 /\ c > i THEN c + 1 ELSE c) = 0 + m + 1
    BY <1>1, <1>7 DEF n, c, Ends
  <2>4. Laid(new, 0, m, b + 1, d)
    <3>1. Is(new, 0 + m + (b + 1) + d, Ends(0, m, b + 1, d), 0 + m + 1)
      BY <1>5, <2>3 DEF Grown
    <3>. QED  BY <1>1, <2>2, <2>3, <3>1 DEF Laid
  <2>5. 0 + (b + 1) = a + b + 1  BY <1>1, <1>7
  <2>. QED  BY <2>4, <2>5 DEF new, i
<1>8. CASE m = 1 /\ i = a + 1
  <2>1. ASSUME NEW k \in 1 .. n + d PROVE new.blocks[k].item = ItemAt(a + 1, d, b, k)
    <3>1. d \in Nat /\ k \in Nat /\ k - d \in Int /\ k <= a + 1 + d + b + t
      BY <1>1, <1>8 DEF n
    <3>2. CASE k <= a + 1
      <4>1. new.blocks[k].item = IF k < a + 1 THEN ItemAt(a, m, b, k) ELSE a + b + 1
        BY <1>1, <1>6, <1>8, <3>1, <3>2
      <4>2. ItemAt(a + 1, d, b, k) = b + k  BY <1>1, <3>1, <3>2 DEF ItemAt
      <4>3. ASSUME k < a + 1 PROVE ItemAt(a, m, b, k) = b + k
        <5>1. k <= a  BY <1>1, <3>1, <4>3
        <5>. QED  BY <5>1 DEF ItemAt
      <4>4. ~(k < a + 1) => b + k = a + b + 1  BY <1>1, <3>1, <3>2
      <4>. QED  BY <4>1, <4>2, <4>3, <4>4
    <3>3. CASE ~(k <= a + 1) /\ k <= a + 1 + d
      <4>1. ~(k < i) /\ k # i /\ k <= i + d  BY <1>1, <1>8, <3>1, <3>3
      <4>2. new.blocks[k].item = 0  BY <1>6, <4>1
      <4>3. ~(k <= a + 1) /\ ~(a + 1 + d < k)  BY <1>1, <3>1, <3>3
      <4>. QED  BY <4>2, <4>3 DEF ItemAt, NoItem
    <3>4. CASE ~(k <= a + 1 + d)
      <4>1. ~(k < i) /\ k # i /\ ~(k <= i + d)  BY <1>1, <1>8, <3>1, <3>4
      <4>2. new.blocks[k].item = ItemAt(a, 1, b, k - d)  BY <1>6, <1>8, <4>1
      <4>3. /\ ~(k - d <= a) /\ a + 1 < k - d /\ ~(k <= a + 1) /\ a + 1 + d < k
            /\ (k - d <= a + 1 + b <=> k <= a + 1 + d + b)
            /\ k - d - a - 1 = k - (a + 1) - d
        BY <1>1, <3>1, <3>4
      <4>. QED  BY <4>2, <4>3 DEF ItemAt, NoItem
    <3>. QED  BY <1>1, <3>1, <3>2, <3>3, <3>4
  <2>2. Items(new, a + 1, d, b)  BY <1>5, <2>1 DEF Items, Is, Grown
  <2>3. n + d = a + 1 + d + b + t /\ a + 1 \in Nat
        /\ (IF i < n + d THEN i + 1 ELSE 1) = Ends(a + 1, d, b, t)
        /\ (IF d = 1 /\ c > i THEN c + 1 ELSE c) = a + 1 + d + 1
    BY <1>1, <1>8 DEF n, c, Ends
  <2>4. Laid(new, a + 1, d, b, t)
    <3>1. Is(new, a + 1 + d + b + t, Ends(a + 1, d, b, t), a + 1 + d + 1)
      BY <1>5, <2>3 DEF Grown
    <3>2. b # 0  BY <1>1, <1>8
    <3>. QED  BY <1>1, <2>2, <2>3, <3>1, <3>2 DEF Laid
  <2>5. a + 1 + b = a + b + 1  BY <1>1
  <2>. QED  BY <2>4, <2>5 DEF new, i
<1>. QED  BY <1>2, <1>7, <1>8 DEF IsFound

\* The memory is laid out somehow, and holds n items.
Stores(r, n) == \E a, m, b, t : Laid(r, a, m, b, t) /\ n = a + b

LEMMA StoresFacts ==
    ASSUME NEW r, NEW n, Stores(r, n)
    PROVE  /\ n \in Nat /\ Len(r.blocks) \in Nat \ {0} /\ n <= Len(r.blocks)
           /\ Free(r, r.consume) <=> n = 0
           /\ n > 0 => Stores(Popped(r), n - 1)
           /\ \A size \in Nat : Found(r, size) # 0
                 => Stores(Taken(r, Found(r, size), size, n + 1), n + 1)
<1>1. PICK a, m, b, t : Laid(r, a, m, b, t) /\ n = a + b  BY DEF Stores
<1>2. /\ a \in Nat /\ m \in {0, 1} /\ b \in Nat /\ t \in {0, 1}
      /\ Len(r.blocks) = a + m + b + t /\ r.consume = a + m + 1
      /\ b = 0 => a = 0 /\ m = 0 /\ t = 1
      /\ Items(r, a, m, b)
  BY <1>1 DEF Laid, Is
<1>3. Free(r, r.consume) <=> n = 0
  <2>1. a + m + 1 \in 1 .. Len(r.blocks) /\ Len(r.blocks) \in Nat  BY <1>2
  <2>2. Free(r, a + m + 1) <=> ItemAt(a, m, b, a + m + 1) = 0  BY <1>2, <2>1, Unfreed
  <2>. QED  BY <1>1, <1>2, <2>2 DEF ItemAt, NoItem
<1>4. ASSUME n > 0 PROVE Stores(Popped(r), n - 1)
  <2>1. b > 0  BY <1>1, <1>2, <1>4
  <2>2. IF b > 1 THEN Laid(Popped(r), a, 1, b - 1, t) ELSE Laid(Popped(r), 0, 0, a, 1)
    BY <1>1, <2>1, PoppedLaid
  <2>3. n - 1 = a + (b - 1) /\ (~(b > 1) => n - 1 = 0 + a)  BY <1>1, <1>2, <2>1
  <2>. QED  BY <2>2, <2>3 DEF Stores
<1>5. ASSUME NEW size \in Nat, Found(r, size) # 0
      PROVE  Stores(Taken(r, Found(r, size), size, n + 1), n + 1)
  <2>1. PICK e, f, g, h : /\ Laid(Taken(r, Found(r, size), size, a + b + 1), e, f, g, h)
                          /\ e + g = a + b + 1
    BY <1>1, <1>5, TakenLaid
  <2>. QED  BY <1>1, <2>1 DEF Stores
<1>. QED  BY <1>1, <1>2, <1>3, <1>4, <1>5

\* A ring without items is one free block.
LEMMA EmptyIsWhole ==
    ASSUME NEW r, Stores(r, 0)
    PROVE  r.blocks = << [size |-> RingSize, item |-> NoItem] >>
<1>1. PICK a, m, b, t : Laid(r, a, m, b, t) /\ 0 = a + b  BY DEF Stores
<1>2. a = 0 /\ m = 0 /\ b = 0 /\ t = 1  BY <1>1 DEF Laid
<1>3. Is(r, 1, Ends(a, m, b, t), a + m + 1) /\ Items(r, 0, 0, 0)  BY <1>1, <1>2 DEF Laid
<1>4. r.blocks \in Seq(Block) /\ Len(r.blocks) = 1 /\ r.blocks[1] \in Block
  BY <1>3, RingFacts DEF Is
<1>5. r.blocks[1].item = 0  BY <1>3, <1>4 DEF Items, ItemAt, NoItem
<1>6. PICK s : Addresses(s, r, 1)  BY <1>3 DEF Is
<1>7. s[1] = 0 /\ s[1 + 1] = RingSize /\ s[1 + 1] = s[1] + r.blocks[1].size
  BY <1>6 DEF Addresses
<1>8. r.blocks[1].size = RingSize  BY <1>4, <1>7 DEF Block
<1>9. r.blocks[1] = [size |-> RingSize, item |-> NoItem]
  BY <1>4, <1>5, <1>8 DEF Block, NoItem
<1>10. r.blocks = << r.blocks[1] >>  BY <1>4
<1>. QED  BY <1>9, <1>10

\* A ring that recycles: items are popped until there is room.
Pops(f, r, size, n) ==
    f = [k \in 0 .. n |->
            IF k = 0 THEN r
            ELSE LET p == f[k - 1]
                 IN  IF Found(p, size) # 0 \/ Free(p, p.consume) THEN p ELSE Popped(p)]

LEMMA PopsExist == ASSUME NEW r, NEW size, NEW n \in Nat PROVE \E f : Pops(f, r, size, n)
<1> DEFINE started(k) == \E f : Pops(f, r, size, k)
           bad == {k \in Nat : ~ started(k)}
<1>1. ASSUME NEW k PROVE started(k) <=> \E f : Pops(f, r, size, k)  OBVIOUS
<1> HIDE DEF started
<1>2. bad = {}
  <2> SUFFICES ASSUME bad # {} PROVE FALSE
    OBVIOUS
  <2>1. PICK k \in bad : \A j \in bad : k <= j
    <3>1. bad \subseteq Nat  OBVIOUS
    <3>. QED  BY <3>1, Least
  <2>2. k \in Nat /\ ~ started(k)  BY <2>1
  <2>3. CASE k = 0
    <3> DEFINE f == [j \in 0 .. 0 |-> r]
    <3>1. Pops(f, r, size, 0)  BY DEF Pops
    <3>. QED  BY <1>1, <2>2, <2>3, <3>1
  <2>4. CASE k # 0
    <3>1. k - 1 \in Nat /\ k - 1 \notin bad  BY <2>1, <2>2, <2>4
    <3>2. PICK f : Pops(f, r, size, k - 1)
      <4>1. started(k - 1)  BY <3>1
      <4>. QED  BY <1>1, <4>1
    <3> DEFINE body(h, j) ==
                   IF j = 0 THEN r
                   ELSE LET p == h[j - 1]
                        IN  IF Found(p, size) # 0 \/ Free(p, p.consume) THEN p ELSE Popped(p)
               g == [j \in 0 .. k |-> IF j = k THEN body(f, k) ELSE f[j]]
    <3>3. ASSUME NEW j \in 0 .. k PROVE g[j] = body(g, j)
      <4>1. j # 0 => g[j - 1] = f[j - 1]  BY <2>2
      <4>2. body(g, j) = body(f, j)  BY <4>1
      <4>3. j # k => j \in 0 .. k - 1  BY <2>2
      <4>4. j # k => f[j] = body(f, j)  BY <3>2, <4>3 DEF Pops
      <4> HIDE DEF body
      <4>. QED  BY <4>2, <4>4
    <3>4. g = [j \in 0 .. k |-> g[j]]  OBVIOUS
    <3>5. g = [j \in 0 .. k |-> body(g, j)]
      <4> HIDE DEF g, body
      <4>. QED  BY <3>3, <3>4
    <3>6. Pops(g, r, size, k)
      <4> HIDE DEF g
      <4>. QED  BY <3>5 DEF Pops
    <3>. QED  BY <1>1, <2>2, <3>6
  <2>. QED  BY <2>3, <2>4
<1>3. started(n)  BY <1>2
<1>. QED  BY <1>1, <1>3

\* Each pop has taken an item, as long as there was no room.
LEMMA RoomStores ==
    ASSUME NEW r, Stores(r, items), NEW size
    PROVE  Stores(Room(r, size).ring, items - Room(r, size).pops)
<1> DEFINE n == Len(r.blocks)
           f == CHOOSE f : Pops(f, r, size, n)
           enough == {k \in 0 .. n : Found(f[k], size) # 0}
           first == CHOOSE k \in enough : \A l \in enough : k <= l
           room == Room(r, size)
<1>1. n \in Nat /\ items \in Nat /\ items <= n  BY StoresFacts
<1>2. Pops(f, r, size, n)  BY <1>1, PopsExist
<1>3. room = IF enough = {} THEN [ring |-> f[n], pops |-> items]
             ELSE [ring |-> f[first], pops |-> first]
  BY DEF Room, Pops
<1> HIDE DEF f, n, room
<1>4. f[0] = r /\ \A k \in 1 .. n : f[k] = LET p == f[k - 1]
            IN  IF Found(p, size) # 0 \/ Free(p, p.consume) THEN p ELSE Popped(p)
  <2>1. ASSUME NEW k \in 0 .. n
        PROVE  f[k] = IF k = 0 THEN r
                      ELSE LET p == f[k - 1]
                           IN  IF Found(p, size) # 0 \/ Free(p, p.consume) THEN p ELSE Popped(p)
    BY <1>2 DEF Pops
  <2>. QED  BY <1>1, <2>1
<1> DEFINE fits(k) == \E l \in 0 .. k : l \in enough
           right(k) == \/ fits(k - 1)
                       \/ k <= items /\ Stores(f[k], items - k)
                       \/ Stores(f[k], 0) /\ Found(f[k], size) = 0
           wrong == {k \in 0 .. n : ~right(k)}
<1>5. wrong = {}
  <2> SUFFICES ASSUME wrong # {} PROVE FALSE
    OBVIOUS
  <2>1. PICK k \in wrong : \A j \in wrong : k <= j
    <3>1. wrong \subseteq Nat  BY <1>1
    <3>. QED  BY <3>1, Least
  <2>2. k \in 0 .. n /\ ~right(k)  BY <2>1
  <2>3. CASE k = 0
    <3>1. 0 <= items /\ items - 0 = items  BY <1>1
    <3>. QED  BY <1>4, <2>2, <2>3, <3>1
  <2>4. CASE k # 0
    <3>1. k \in 1 .. n /\ k - 1 \in 0 .. n /\ k - 1 \notin wrong  BY <1>1, <2>1, <2>2, <2>4
    <3>2. right(k - 1)  BY <3>1
    <3>3. ~fits(k - 1) /\ ~fits(k - 1 - 1)  BY <2>2, <3>1
    <3>4. Found(f[k - 1], size) = 0  BY <3>1, <3>3
    <3>5. f[k] = IF Free(f[k - 1], f[k - 1].consume) THEN f[k - 1] ELSE Popped(f[k - 1])
      BY <1>4, <3>1, <3>4
    <3>6. CASE k - 1 <= items /\ Stores(f[k - 1], items - (k - 1))
      <4> DEFINE x == items - (k - 1)
      <4>1. x \in Nat /\ Stores(f[k - 1], x)  BY <1>1, <3>1, <3>6
      <4>2. x > 0 => k <= items /\ x - 1 = items - k  BY <1>1, <3>1
      <4>3. (x > 0 \/ x = 0) /\ (x > 0 => x # 0)  BY <4>1
      <4> HIDE DEF x, right, fits, enough, wrong
      <4>4. CASE x = 0
        <5>1. f[k] = f[k - 1]  BY <3>5, <4>1, <4>4, StoresFacts
        <5>. QED  BY <2>2, <3>4, <4>1, <4>4, <5>1 DEF right
      <4>5. CASE x > 0
        <5>1. f[k] = Popped(f[k - 1])  BY <3>5, <4>1, <4>3, <4>5, StoresFacts
        <5>2. Stores(f[k], x - 1)  BY <4>1, <4>5, <5>1, StoresFacts
        <5>. QED  BY <2>2, <4>2, <4>5, <5>2 DEF right
      <4>. QED  BY <4>3, <4>4, <4>5
    <3>7. CASE Stores(f[k - 1], 0)
      <4>1. f[k] = f[k - 1]
        <5>1. Free(f[k - 1], f[k - 1].consume)  BY <3>7, StoresFacts
        <5>. QED  BY <3>5, <5>1
      <4>. QED  BY <2>2, <3>4, <3>7, <4>1
    <3>. QED  BY <3>2, <3>3, <3>6, <3>7
  <2>. QED  BY <2>3, <2>4
<1>6. CASE enough = {}
  <2>1. right(n) /\ ~fits(n - 1)  BY <1>1, <1>5, <1>6
  <2>2. n <= items => items - n = 0  BY <1>1
  <2>3. Stores(f[n], 0)  BY <2>1, <2>2
  <2>4. items - items = 0  BY <1>1
  <2>. QED  BY <1>3, <1>6, <2>3, <2>4 DEF room
<1>7. CASE enough # {}
  <2>1. first \in enough /\ \A l \in enough : first <= l
    <3>1. enough \subseteq Nat  OBVIOUS
    <3> HIDE DEF enough
    <3>. QED  BY <1>7, <3>1, Least
  <2>2. first \in 0 .. n /\ Found(f[first], size) # 0  BY <2>1
  <2> HIDE DEF first
  <2>3. right(first)  BY <1>5, <2>2
  <2>4. ~fits(first - 1)
    <3> SUFFICES ASSUME NEW l \in 0 .. first - 1, l \in enough PROVE FALSE
      OBVIOUS
    <3>1. first <= l  BY <2>1
    <3>. QED  BY <2>2, <3>1
  <2>5. Stores(f[first], items - first)  BY <2>2, <2>3, <2>4
  <2>. QED  BY <1>3, <1>7, <2>5 DEF room
<1>. QED  BY <1>6, <1>7

LEMMA AllocateStep ==
    ASSUME Stores(ring, items), NEW size \in Nat, Allocate(size)
    PROVE  Stores(ring', items')
<1> DEFINE room == IF recycle THEN Room(ring, size) ELSE [ring |-> ring, pops |-> 0]
           at == Found(room.ring, size)
           kept == items - room.pops
<1>1. Stores(room.ring, kept)
  <2>1. CASE recycle  BY <2>1, RoomStores
  <2>2. CASE ~recycle
    <3>1. room.ring = ring /\ kept = items - 0  BY <2>2
    <3>2. items \in Nat  BY StoresFacts
    <3>3. items - 0 = items  BY <3>2
    <3>. QED  BY <3>1, <3>3
  <2>. QED  BY <2>1, <2>2
<1>2. /\ ring' = IF at = 0 THEN room.ring ELSE Taken(room.ring, at, size, kept + 1)
      /\ items' = IF at = 0 THEN kept ELSE kept + 1
  BY DEF Allocate
<1> HIDE DEF room, kept
<1>. QED  BY <1>1, <1>2, StoresFacts

-----------------------------------------------------------------------------
(* What First and Next find.                                               *)

Places(f, n) ==
    f = [k \in 0 .. n |-> IF k = 0 THEN ring.consume ELSE NextBlock(ring, f[k - 1])]

InUse(f, place, passed) ==
    f = [k \in 0 .. passed |->
            IF k = 0 THEN <<>>
            ELSE IF Free(ring, place[k - 1]) THEN f[k - 1]
                 ELSE Append(f[k - 1], ring.blocks[place[k - 1]].item)]

\* The numbers up to n
UpTo(n) == [i \in 1 .. n |-> i]

LEMMA UpToNone == UpTo(0) = <<>>
<1> DEFINE s == UpTo(0)
<1>1. s = [i \in 1 .. 0 |-> s[i]] /\ \A i \in 1 .. 0 : s[i] \in Nat  BY DEF UpTo
<1> HIDE DEF s
<1>2. s \in Seq(Nat) /\ Len(s) = 0
  <2>1. 0 \in Nat  OBVIOUS
  <2>. QED  BY <1>1, <2>1, AsSequence
<1>3. s = <<>>  BY <1>2, EmptySeq
<1>. QED  BY <1>3 DEF s

LEMMA UpToGrows == ASSUME NEW n \in Nat PROVE Append(UpTo(n), n + 1) = UpTo(n + 1)
<1> DEFINE s == UpTo(n)
           x == Append(s, n + 1)
<1>1. s \in Seq(Nat) /\ Len(s) = n /\ \A i \in 1 .. n : s[i] = i
  <2>1. s = [i \in 1 .. n |-> s[i]] /\ \A i \in 1 .. n : s[i] = i  BY DEF UpTo
  <2> HIDE DEF s
  <2>. QED  BY <2>1, AsSequence
<1> HIDE DEF s
<1>2. x \in Seq(Nat) /\ Len(x) = n + 1
      /\ \A i \in 1 .. n + 1 : x[i] = IF i <= n THEN s[i] ELSE n + 1
  BY <1>1, AppendProperties
<1>3. x = [i \in 1 .. n + 1 |-> x[i]]
  <2> HIDE DEF x
  <2>1. DOMAIN x = 1 .. n + 1  BY <1>2
  <2>. QED  BY <1>2, <2>1
<1>4. \A i \in 1 .. n + 1 : x[i] = i  BY <1>1, <1>2
<1> HIDE DEF x
<1>5. x = UpTo(n + 1)  BY <1>3, <1>4, Zenon DEF UpTo
<1>. QED  BY <1>5 DEF x, s

\* The block k after m_pConsume, and the number of items before it
PlaceAt(a, m, b, t, k) ==
    IF a + m + 1 + k <= a + m + b + t THEN a + m + 1 + k ELSE k + 1 - b - t

Before(b, t, k) == IF k <= b THEN k ELSE IF k <= b + t THEN b ELSE k - t

\* The blocks from m_pConsume to m_pProduce
Passed(a, b, t) == IF a = 0 THEN b ELSE a + b + t

LEMMA PlacesAre ==
    ASSUME NEW a, NEW m, NEW b, NEW t, Laid(ring, a, m, b, t), b > 0,
           NEW f, f = CHOOSE h : Places(h, Len(ring.blocks))
    PROVE  \A k \in 0 .. Len(ring.blocks) : f[k] = PlaceAt(a, m, b, t, k)
<1> DEFINE n == a + m + b + t
           at(k) == PlaceAt(a, m, b, t, k)
           g == [k \in 0 .. n |-> at(k)]
           body(h, k) == IF k = 0 THEN ring.consume ELSE NextBlock(ring, h[k - 1])
<1>1. /\ a \in Nat /\ m \in {0, 1} /\ b \in Nat /\ t \in {0, 1} /\ n \in Nat
      /\ Len(ring.blocks) = n /\ ring.consume = a + m + 1
  BY DEF Laid, Is
<1>2. ASSUME NEW k \in 0 .. n PROVE g[k] = body(g, k)
  <2>1. CASE k = 0  BY <1>1, <2>1 DEF PlaceAt
  <2>2. CASE k # 0
    <3>1. k - 1 \in 0 .. n /\ k \in 1 .. n  BY <1>1, <2>2
    <3>2. body(g, k) = IF at(k - 1) < n THEN at(k - 1) + 1 ELSE 1
      BY <1>1, <2>2, <3>1 DEF NextBlock
    <3>3. at(k) = IF at(k - 1) < n THEN at(k - 1) + 1 ELSE 1
      BY <1>1, <3>1 DEF PlaceAt
    <3>. QED  BY <3>2, <3>3
  <2>. QED  BY <2>1, <2>2
<1>3. g = [k \in 0 .. n |-> body(g, k)]
  <2>1. g = [k \in 0 .. n |-> g[k]]  OBVIOUS
  <2> HIDE DEF g, body
  <2>. QED  BY <1>2, <2>1
<1>4. Places(g, Len(ring.blocks))
  <2> HIDE DEF g
  <2>. QED  BY <1>1, <1>3 DEF Places
<1>5. Places(f, Len(ring.blocks))  BY <1>4
<1>6. ASSUME NEW k \in 0 .. n PROVE f[k] = body(f, k)
  BY <1>1, <1>5 DEF Places
<1> DEFINE wrong == {k \in 0 .. n : f[k] # g[k]}
<1>7. wrong = {}
  <2> HIDE DEF g, n, at
  <2> SUFFICES ASSUME wrong # {} PROVE FALSE
    OBVIOUS
  <2>1. PICK k \in wrong : \A j \in wrong : k <= j
    <3>1. wrong \subseteq Nat  BY <1>1
    <3>. QED  BY <3>1, Least
  <2>2. k \in 0 .. n /\ f[k] # g[k] /\ f[k] = body(f, k) /\ g[k] = body(g, k)
    BY <1>2, <1>6, <2>1
  <2>3. CASE k = 0  BY <2>2, <2>3
  <2>4. CASE k # 0
    <3>1. k - 1 \in 0 .. n /\ k - 1 \notin wrong  BY <1>1, <2>1, <2>2, <2>4
    <3>2. f[k - 1] = g[k - 1]  BY <3>1
    <3>. QED  BY <2>2, <2>4, <3>2
  <2>. QED  BY <2>3, <2>4
<1>8. \A k \in 0 .. n : f[k] = g[k]  BY <1>7
<1>. QED  BY <1>1, <1>8

LEMMA InUseIs ==
    ASSUME NEW a, NEW m, NEW b, NEW t, Laid(ring, a, m, b, t), b > 0,
           NEW place, \A k \in 0 .. Len(ring.blocks) : place[k] = PlaceAt(a, m, b, t, k),
           NEW f, f = CHOOSE h : InUse(h, place, Passed(a, b, t))
    PROVE  f[Passed(a, b, t)] = UpTo(a + b)
<1> DEFINE n == a + m + b + t
           last == Passed(a, b, t)
           g == [k \in 0 .. last |-> UpTo(Before(b, t, k))]
           body(h, k) == IF k = 0 THEN <<>>
                         ELSE IF Free(ring, place[k - 1]) THEN h[k - 1]
                              ELSE Append(h[k - 1], ring.blocks[place[k - 1]].item)
<1>1. /\ a \in Nat /\ m \in {0, 1} /\ b \in Nat /\ t \in {0, 1} /\ n \in Nat
      /\ Len(ring.blocks) = n /\ Items(ring, a, m, b)
  BY DEF Laid, Is
<1>2. last \in 0 .. n /\ last \in Nat /\ Before(b, t, last) = a + b
  BY <1>1 DEF Passed, Before
<1> HIDE DEF last
<1>3. ASSUME NEW k \in 0 .. last PROVE g[k] = body(g, k)
  <2>1. CASE k = 0
    <3>1. g[k] = UpTo(0)  BY <1>1, <2>1 DEF Before
    <3>. QED  BY <2>1, <3>1, UpToNone
  <2>2. CASE k # 0
    <3> DEFINE p == PlaceAt(a, m, b, t, k - 1)
    <3>1. k - 1 \in 0 .. last /\ k \in 1 .. last /\ k - 1 \in 0 .. n /\ k - 1 \in Nat
      BY <1>1, <1>2, <2>2
    <3>2. place[k - 1] = p  BY <1>1, <3>1
    <3>3. p \in 1 .. n  BY <1>1, <1>2, <3>1 DEF PlaceAt, Passed, last
    <3>4. ring.blocks[p].item = ItemAt(a, m, b, p)
          /\ (Free(ring, p) <=> ItemAt(a, m, b, p) = 0)
      BY <1>1, <3>3 DEF Items, Free, NoItem
    <3>5. g[k - 1] = UpTo(Before(b, t, k - 1)) /\ g[k] = UpTo(Before(b, t, k))
      BY <3>1
    <3>6. \/ ItemAt(a, m, b, p) = 0 /\ Before(b, t, k) = Before(b, t, k - 1)
          \/ /\ ItemAt(a, m, b, p) # 0 /\ Before(b, t, k - 1) \in Nat
             /\ ItemAt(a, m, b, p) = Before(b, t, k - 1) + 1
             /\ Before(b, t, k) = Before(b, t, k - 1) + 1
      BY <1>1, <1>2, <3>1 DEF ItemAt, PlaceAt, Before, Passed, last, NoItem
    <3> HIDE DEF p, g
    <3>. QED  BY <2>2, <3>2, <3>4, <3>5, <3>6, UpToGrows
  <2>. QED  BY <2>1, <2>2
<1>4. g = [k \in 0 .. last |-> body(g, k)]
  <2>1. g = [k \in 0 .. last |-> g[k]]  OBVIOUS
  <2> HIDE DEF g, body
  <2>. QED  BY <1>3, <2>1
<1>5. InUse(g, place, last)
  <2> HIDE DEF g
  <2>. QED  BY <1>4 DEF InUse
<1>6. InUse(f, place, last)  BY <1>5 DEF last
<1>7. ASSUME NEW k \in 0 .. last PROVE f[k] = body(f, k)
  BY <1>6 DEF InUse
<1> DEFINE wrong == {k \in 0 .. last : f[k] # g[k]}
<1>8. wrong = {}
  <2> HIDE DEF g
  <2> SUFFICES ASSUME wrong # {} PROVE FALSE
    OBVIOUS
  <2>1. PICK k \in wrong : \A j \in wrong : k <= j
    <3>1. wrong \subseteq Nat  BY <1>2
    <3>. QED  BY <3>1, Least
  <2>2. k \in 0 .. last /\ f[k] # g[k] /\ f[k] = body(f, k) /\ g[k] = body(g, k)
    BY <1>3, <1>7, <2>1
  <2>3. CASE k = 0  BY <2>2, <2>3
  <2>4. CASE k # 0
    <3>1. k - 1 \in 0 .. last /\ k - 1 \notin wrong  BY <1>2, <2>1, <2>2, <2>4
    <3>2. f[k - 1] = g[k - 1]  BY <3>1
    <3>. QED  BY <2>2, <2>4, <3>2
  <2>. QED  BY <2>3, <2>4
<1>9. f[last] = g[last]
  <2>1. last \in 0 .. last  BY <1>2
  <2> HIDE DEF g
  <2>. QED  BY <1>8, <2>1
<1>10. g[last] = UpTo(a + b)  BY <1>2
<1>. QED  BY <1>9, <1>10 DEF last

LEMMA WalkIs ==
    ASSUME NEW a, NEW m, NEW b, NEW t, Laid(ring, a, m, b, t)
    PROVE  Walk = UpTo(a + b)
<1> DEFINE n == Len(ring.blocks)
           place == CHOOSE h : Places(h, n)
           end == {k \in 1 .. n : place[k] = ring.produce}
           passed == IF end = {} THEN n
                     ELSE CHOOSE k \in end : \A l \in end : k <= l
           inUse == CHOOSE h : InUse(h, place, passed)
<1>1. /\ a \in Nat /\ m \in {0, 1} /\ b \in Nat /\ t \in {0, 1} /\ a + b \in Nat
      /\ n = a + m + b + t /\ n \in Nat /\ ring.produce = Ends(a, m, b, t)
      /\ b = 0 => a = 0 /\ m = 0 /\ t = 1
  BY DEF Laid, Is
<1>2. Walk = IF Free(ring, ring.consume) THEN <<>> ELSE inUse[passed]
  BY DEF Walk, Places, InUse
<1>3. Free(ring, ring.consume) <=> a + b = 0
  <2>1. Stores(ring, a + b)  BY DEF Stores
  <2>. QED  BY <2>1, StoresFacts
<1>4. CASE b = 0
  <2>1. a + b = 0  BY <1>1, <1>4
  <2> HIDE DEF passed, inUse
  <2>. QED  BY <1>2, <1>3, <2>1, UpToNone
<1>5. CASE b # 0
  <2>1. b > 0 /\ a + b # 0  BY <1>1, <1>5
  <2>2. \A k \in 0 .. n : place[k] = PlaceAt(a, m, b, t, k)
    <3> DEFINE f == place
    <3>1. f = CHOOSE h : Places(h, Len(ring.blocks))  OBVIOUS
    <3> HIDE DEF f
    <3>2. \A k \in 0 .. Len(ring.blocks) : f[k] = PlaceAt(a, m, b, t, k)
      BY <2>1, <3>1, PlacesAre
    <3>. QED  BY <3>2 DEF f
  <2> HIDE DEF place
  <2>3. Passed(a, b, t) \in end
    BY <1>1, <2>1, <2>2 DEF PlaceAt, Passed, Ends
  <2>4. ASSUME NEW l \in end PROVE Passed(a, b, t) <= l
    BY <1>1, <2>1, <2>2 DEF PlaceAt, Passed, Ends
  <2>5. passed = Passed(a, b, t)
    <3>1. end # {} /\ end \subseteq Nat  BY <1>1, <2>3
    <3> HIDE DEF end
    <3>2. passed \in end /\ \A l \in end : passed <= l  BY <3>1, Least
    <3> HIDE DEF passed
    <3>3. passed \in Nat /\ Passed(a, b, t) \in Nat  BY <2>3, <3>1, <3>2
    <3>4. passed <= Passed(a, b, t) /\ Passed(a, b, t) <= passed  BY <2>3, <2>4, <3>2
    <3>. QED  BY <3>3, <3>4
  <2> HIDE DEF passed
  <2>6. inUse = CHOOSE h : InUse(h, place, Passed(a, b, t))  BY <2>5
  <2> HIDE DEF inUse
  <2>7. inUse[Passed(a, b, t)] = UpTo(a + b)  BY <2>1, <2>2, <2>6, InUseIs
  <2>. QED  BY <1>2, <1>3, <2>1, <2>5, <2>7
<1>. QED  BY <1>4, <1>5

-----------------------------------------------------------------------------
(* The theorems.                                                           *)

LEMMA RingStays == RingSpec => []Stores(ring, items)
<1>1. RingInit => Stores(ring, items)
  <2> SUFFICES ASSUME RingInit PROVE Stores(ring, items)
    OBVIOUS
  <2> DEFINE block == [size |-> RingSize, item |-> NoItem]
  <2>1. block \in Block  BY RingAssumption DEF Block, NoItem
  <2>2. ring = [blocks |-> <<block>>, produce |-> 1, consume |-> 1] /\ items = 0
    BY DEF RingInit
  <2>3. block.item = 0 /\ block.size = RingSize  BY DEF NoItem
  <2> HIDE DEF block
  <2>4. <<block>> \in Seq(Block) /\ Len(<<block>>) = 1 /\ <<block>>[1] = block  BY <2>1
  <2>5. ring.blocks = <<block>> /\ ring.produce = 1 /\ ring.consume = 1 /\ ring \in Ring
    BY <2>2, <2>4 DEF Ring
  <2>6. Items(ring, 0, 0, 0)  BY <2>3, <2>4, <2>5 DEF Items, ItemAt, NoItem
  <2>10. Addresses([k \in {1, 2} |-> IF k = 1 THEN 0 ELSE RingSize], ring, 1)
    <3>1. \A k \in 1 .. 1 + 1 : k \in {1, 2}  OBVIOUS
    <3>2. \A k \in 1 .. 1 : k = 1  OBVIOUS
    <3>. QED  BY <2>3, <2>4, <2>5, <3>1, <3>2, RingAssumption DEF Addresses
  <2>7. Is(ring, 1, 1, 1)  BY <2>4, <2>5, <2>10 DEF Is
  <2>8. 0 + 0 + 0 + 1 = 1 /\ 0 + 0 + 1 = 1 /\ Ends(0, 0, 0, 1) = 1  BY DEF Ends
  <2>9. Laid(ring, 0, 0, 0, 1)  BY <2>6, <2>7, <2>8 DEF Laid
  <2>. QED  BY <2>2, <2>9 DEF Stores
<1>2. Stores(ring, items) /\ [RingNext]_ringVars => Stores(ring, items)'
  <2> SUFFICES ASSUME Stores(ring, items), [RingNext]_ringVars PROVE Stores(ring', items')
    BY DEF Stores, Laid, Is, Items, ItemAt, Ends, Ring, Block, Addresses
  <2>1. CASE PopFirst
    <3>1. items > 0  BY <2>1, StoresFacts DEF PopFirst
    <3>. QED  BY <2>1, <3>1, StoresFacts DEF PopFirst
  <2>2. CASE \E size \in 1 .. MaxItem : Allocate(size)
    <3>1. PICK size \in 1 .. MaxItem : Allocate(size)  BY <2>2
    <3>2. size \in Nat  OBVIOUS
    <3>. QED  BY <3>1, <3>2, AllocateStep
  <2>3. CASE UNCHANGED ringVars  BY <2>3 DEF ringVars
  <2>. QED  BY <2>1, <2>2, <2>3 DEF RingNext
<1>. QED  BY <1>1, <1>2, PTL DEF RingSpec

\* Whatever the size of the ring and of the items, with and without FLAG_RECYCLE: First
\* and Next return the items that Allocate has added and PopFirst has not taken, oldest
\* first, however the memory is split, joined and wrapped around.
THEOREM QueueInMemory == RingSpec => []RingIsQueue
<1>1. Stores(ring, items) => RingIsQueue
  <2> SUFFICES ASSUME NEW a, NEW m, NEW b, NEW t, Laid(ring, a, m, b, t), items = a + b
               PROVE  RingIsQueue
    BY DEF Stores
  <2>. QED  BY WalkIs DEF UpTo, RingIsQueue
<1>. QED  BY <1>1, RingStays, PTL

\* When its last item is popped, PopFirst has joined all the blocks of the ring again.
THEOREM MemoryRejoins == RingSpec => []RingRejoins
<1>1. Stores(ring, items) => RingRejoins  BY EmptyIsWhole DEF RingRejoins
<1>. QED  BY <1>1, RingStays, PTL
=============================================================================
