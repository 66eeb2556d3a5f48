---------------------------- MODULE JobPool_proofs ----------------------------
(***************************************************************************)
(* Proofs about JobPool, for any number of threads, clients and master     *)
(* servers, as long as a pool is used for one kind of jobs only.           *)
(***************************************************************************)
EXTENDS JobPool, FiniteSetTheorems, TLAPS

-----------------------------------------------------------------------------
(* The list as a sequence of jobs, of which some were added and some of     *)
(* these taken.                                                            *)

Distinct(q) == \A i, k \in 1 .. Len(q) : q[i] = q[k] => i = k

\* What is known of q: `taken' jobs at its front were fetched, and `added' jobs were
\* added.  A job that was kept still points at the one that followed it last time.
Chain(nx, fi, la, q, taken, added) ==
    /\ nx \in [Jobs -> Jobs \cup {NoJob}]
    /\ q \in Seq(Jobs) /\ Distinct(q)
    /\ taken \in Nat /\ added \in Nat /\ taken <= added /\ added <= Len(q)
    /\ \A i \in 1 .. Len(q) : nx[q[i]] = NoJob \/ (i < Len(q) /\ nx[q[i]] = q[i + 1])
    /\ \A i \in 1 .. Len(q) : taken < i /\ i < added => nx[q[i]] = q[i + 1]
    /\ taken < added => fi = q[taken + 1] /\ la = q[added]
    /\ taken = added => \/ fi = NoJob /\ la = NoJob
                        \/ /\ 0 < added /\ added < Len(q)
                           /\ fi = q[added + 1] /\ la = q[added] /\ nx[la] = fi

Listed(q, taken, added) == {q[i] : i \in taken + 1 .. added}

\* Add puts the next job of q behind the last one.
LEMMA ChainAdd ==
    ASSUME NEW nx, NEW fi, NEW la, NEW q, NEW taken, NEW added,
           Chain(nx, fi, la, q, taken, added), added < Len(q)
    PROVE  LET j == q[added + 1]
           IN  Chain(IF la # NoJob THEN [nx EXCEPT ![la] = j] ELSE nx,
                     IF fi = NoJob THEN j ELSE fi, j, q, taken, added + 1)
<1> DEFINE j == q[added + 1]
           n == Len(q)
           mx == IF la # NoJob THEN [nx EXCEPT ![la] = j] ELSE nx
           fj == IF fi = NoJob THEN j ELSE fi
<1>1. /\ nx \in [Jobs -> Jobs \cup {NoJob}] /\ q \in Seq(Jobs) /\ n \in Nat
      /\ taken \in Nat /\ added \in Nat /\ taken <= added /\ added < n
  BY DEF Chain
<1>2. \A i \in 1 .. n : q[i] \in Jobs /\ q[i] # NoJob
  BY <1>1, PoolAssumption
<1>3. \A i, k \in 1 .. n : q[i] = q[k] => i = k  BY DEF Chain, Distinct
<1>4. \A i \in 1 .. n : nx[q[i]] = NoJob \/ (i < n /\ nx[q[i]] = q[i + 1])
  BY DEF Chain
<1>5. \A i \in 1 .. n : taken < i /\ i < added => nx[q[i]] = q[i + 1]  BY DEF Chain
<1>6. added + 1 \in 1 .. n /\ j \in Jobs /\ j # NoJob  BY <1>1, <1>2
<1>7. \/ /\ la = NoJob /\ fi = NoJob /\ taken = added
      \/ /\ 0 < added /\ la = q[added] /\ fi = q[taken + 1]
  BY <1>1 DEF Chain
<1> HIDE DEF n, j
<1>8. CASE la = NoJob /\ fi = NoJob /\ taken = added
  <2>1. mx = nx /\ fj = j  BY <1>8
  <2> HIDE DEF mx, fj
  <2>2. \A i \in 1 .. n : ~(taken < i /\ i < added + 1)  BY <1>1, <1>8
  <2>. QED  BY <1>1, <1>4, <1>6, <1>8, <2>1, <2>2 DEF Chain, n, j, mx, fj
<1>9. CASE 0 < added /\ la = q[added] /\ fi = q[taken + 1]
  <2>1. added \in 1 .. n /\ taken + 1 \in 1 .. n /\ la \in Jobs /\ la # NoJob
        /\ fi # NoJob
    BY <1>1, <1>2, <1>9
  <2>2. mx = [nx EXCEPT ![la] = j] /\ fj = fi  BY <2>1
  <2> HIDE DEF mx, fj
  <2>3. mx \in [Jobs -> Jobs \cup {NoJob}]  BY <1>1, <1>6, <2>1, <2>2
  <2>4. mx[q[added]] = q[added + 1]  BY <1>1, <1>9, <2>1, <2>2 DEF j
  <2>5. \A i \in 1 .. n : i # added => mx[q[i]] = nx[q[i]]
    BY <1>1, <1>2, <1>3, <1>9, <2>1, <2>2
  <2>6. \A i \in 1 .. n : mx[q[i]] = NoJob \/ (i < n /\ mx[q[i]] = q[i + 1])
    BY <1>1, <1>4, <2>1, <2>4, <2>5
  <2>7. \A i \in 1 .. n : taken < i /\ i < added + 1 => mx[q[i]] = q[i + 1]
    BY <1>1, <1>5, <2>1, <2>4, <2>5
  <2>8. Distinct(q)  BY DEF Chain
  <2>. QED
    BY <1>1, <1>9, <2>2, <2>3, <2>6, <2>7, <2>8 DEF Chain, n, j, mx, fj
<1>. QED  BY <1>7, <1>8, <1>9

\* A job that was never added before can be the next one.
LEMMA ChainExtend ==
    ASSUME NEW nx, NEW fi, NEW la, NEW q, NEW taken,
           Chain(nx, fi, la, q, taken, Len(q)),
           NEW j \in Jobs, \A i \in 1 .. Len(q) : q[i] # j, nx[j] = NoJob
    PROVE  LET p == Append(q, j)
           IN  /\ Chain(nx, fi, la, p, taken, Len(q))
               /\ Len(p) = Len(q) + 1 /\ p[Len(q) + 1] = j
               /\ \A i \in 1 .. Len(q) : p[i] = q[i]
<1> DEFINE p == Append(q, j)
           n == Len(q)
<1>1. /\ nx \in [Jobs -> Jobs \cup {NoJob}] /\ q \in Seq(Jobs) /\ n \in Nat
      /\ taken \in Nat /\ taken <= n
  BY DEF Chain
<1>2. p \in Seq(Jobs) /\ Len(p) = n + 1 /\ p[n + 1] = j /\ \A i \in 1 .. n : p[i] = q[i]
  BY <1>1
<1>3. \A i, k \in 1 .. n : q[i] = q[k] => i = k  BY DEF Chain, Distinct
<1>4. \A i \in 1 .. n : nx[q[i]] = NoJob \/ (i < n /\ nx[q[i]] = q[i + 1])
  BY DEF Chain
<1>5. \A i \in 1 .. n : taken < i /\ i < n => nx[q[i]] = q[i + 1]  BY DEF Chain
<1>6. \/ taken < n /\ fi = q[taken + 1] /\ la = q[n]
      \/ taken = n /\ fi = NoJob /\ la = NoJob
  BY <1>1 DEF Chain
<1>7. \A i \in 1 .. n : q[i] # j  OBVIOUS
<1> HIDE DEF p, n
<1>8. Distinct(p)
  <2>1. \A i \in 1 .. n + 1 : i \in 1 .. n \/ i = n + 1  BY <1>1
  <2>. QED  BY <1>2, <1>3, <1>7, <2>1 DEF Distinct
<1>9. \A i \in 1 .. n + 1 : nx[p[i]] = NoJob \/ (i < n + 1 /\ nx[p[i]] = p[i + 1])
  <2> SUFFICES ASSUME NEW i \in 1 .. n + 1
               PROVE  nx[p[i]] = NoJob \/ (i < n + 1 /\ nx[p[i]] = p[i + 1])
    OBVIOUS
  <2>1. CASE i = n + 1  BY <1>2, <2>1
  <2>2. CASE i # n + 1
    <3>1. i \in 1 .. n /\ (i < n => i + 1 \in 1 .. n)  BY <1>1, <2>2
    <3>. QED  BY <1>1, <1>2, <1>4, <3>1
  <2>. QED  BY <2>1, <2>2
<1>10. \A i \in 1 .. n + 1 : taken < i /\ i < n => nx[p[i]] = p[i + 1]
  <2> SUFFICES ASSUME NEW i \in 1 .. n + 1, taken < i, i < n
               PROVE  nx[p[i]] = p[i + 1]
    OBVIOUS
  <2>1. i \in 1 .. n /\ i + 1 \in 1 .. n  BY <1>1
  <2>. QED  BY <1>2, <1>5, <2>1
<1>11. \/ taken < n /\ fi = p[taken + 1] /\ la = p[n]
       \/ taken = n /\ fi = NoJob /\ la = NoJob
  <2>1. taken < n => taken + 1 \in 1 .. n /\ n \in 1 .. n  BY <1>1
  <2>. QED  BY <1>2, <1>6, <2>1
<1>12. Chain(nx, fi, la, p, taken, n)
  BY <1>1, <1>2, <1>8, <1>9, <1>10, <1>11 DEF Chain
<1>. QED  BY <1>2, <1>12 DEF p, n

\* A thread takes the first job, which keeps its m_pNext.
LEMMA ChainTake ==
    ASSUME NEW nx, NEW fi, NEW la, NEW q, NEW taken, NEW added,
           Chain(nx, fi, la, q, taken, added), taken < added
    PROVE  Chain(nx, nx[fi], IF nx[fi] = NoJob THEN NoJob ELSE la, q, taken + 1, added)
<1> DEFINE n == Len(q)
           gi == nx[fi]
           lb == IF gi = NoJob THEN NoJob ELSE la
<1>1. /\ nx \in [Jobs -> Jobs \cup {NoJob}] /\ q \in Seq(Jobs) /\ n \in Nat /\ Distinct(q)
      /\ taken \in Nat /\ added \in Nat /\ taken < added /\ added <= n
  BY DEF Chain
<1>2. \A i \in 1 .. n : q[i] \in Jobs /\ q[i] # NoJob
  BY <1>1, PoolAssumption
<1>4. \A i \in 1 .. n : nx[q[i]] = NoJob \/ (i < n /\ nx[q[i]] = q[i + 1])
  BY DEF Chain
<1>5. \A i \in 1 .. n : taken < i /\ i < added => nx[q[i]] = q[i + 1]  BY DEF Chain
<1>6. fi = q[taken + 1] /\ la = q[added] /\ taken + 1 \in 1 .. n /\ added \in 1 .. n
  BY <1>1 DEF Chain
<1> HIDE DEF n
<1>7. CASE taken + 1 < added
  <2>1. gi = q[taken + 2] /\ taken + 2 \in 1 .. n  BY <1>1, <1>5, <1>6, <1>7
  <2>2. gi # NoJob  BY <1>2, <2>1
  <2>3. lb = q[added]  BY <1>6, <2>2
  <2> HIDE DEF gi, lb
  <2>4. \A i \in 1 .. n : taken + 1 < i /\ i < added => nx[q[i]] = q[i + 1]  BY <1>1, <1>5
  <2>5. gi = q[(taken + 1) + 1]  BY <1>1, <2>1
  <2>. QED  BY <1>1, <1>4, <1>7, <2>3, <2>4, <2>5 DEF Chain, n, gi, lb
<1>8. CASE taken + 1 = added
  <2>1. \A i \in 1 .. n : ~(taken + 1 < i /\ i < added)  BY <1>1, <1>8
  <2>2. CASE gi = NoJob
    <3>1. lb = NoJob  BY <2>2
    <3> HIDE DEF gi, lb
    <3>. QED  BY <1>1, <1>4, <1>8, <2>1, <2>2, <3>1 DEF Chain, n, gi, lb
  <2>3. CASE gi # NoJob
    <3>1. added < n /\ gi = q[added + 1]  BY <1>4, <1>6, <1>8, <2>3
    <3>2. lb = q[added] /\ nx[lb] = gi  BY <1>6, <1>8, <2>3
    <3> HIDE DEF gi, lb
    <3>. QED  BY <1>1, <1>4, <1>8, <2>1, <3>1, <3>2 DEF Chain, n, gi, lb
  <2>. QED  BY <2>2, <2>3
<1>. QED  BY <1>1, <1>7, <1>8

\* Once they were all taken, the same jobs may be added again, in the same order.
LEMMA ChainAgain ==
    ASSUME NEW nx, NEW fi, NEW la, NEW q, NEW added,
           Chain(nx, fi, la, q, added, added), added = 0 \/ added = Len(q)
    PROVE  Chain(nx, fi, la, q, 0, 0)
<1>1. fi = NoJob /\ la = NoJob  BY DEF Chain
<1>2. Len(q) \in Nat  BY DEF Chain
<1>. QED  BY <1>1, <1>2 DEF Chain

-----------------------------------------------------------------------------
(* Which jobs are listed.                                                  *)

LEMMA ListedAdd ==
    ASSUME NEW q \in Seq(Jobs), NEW taken \in Nat, NEW added \in Nat, taken <= added,
           added < Len(q)
    PROVE  Listed(q, taken, added + 1) = Listed(q, taken, added) \cup {q[added + 1]}
<1>1. \A i : i \in taken + 1 .. added + 1 <=> i \in taken + 1 .. added \/ i = added + 1
  OBVIOUS
<1>. QED  BY <1>1 DEF Listed

LEMMA ListedTake ==
    ASSUME NEW q \in Seq(Jobs), Distinct(q), NEW taken \in Nat, NEW added \in Nat,
           taken < added, added <= Len(q)
    PROVE  /\ Listed(q, taken + 1, added) = Listed(q, taken, added) \ {q[taken + 1]}
           /\ q[taken + 1] \in Listed(q, taken, added)
<1>1. \A i : i \in taken + 1 .. added <=> i \in (taken + 1) + 1 .. added \/ i = taken + 1
  OBVIOUS
<1>2. \A i \in taken + 1 .. added : i \in 1 .. Len(q)  OBVIOUS
<1>3. \A i \in (taken + 1) + 1 .. added : q[i] # q[taken + 1]
  BY <1>1, <1>2 DEF Distinct
<1>. QED  BY <1>1, <1>3 DEF Listed

-----------------------------------------------------------------------------
(* The invariant.                                                          *)

Fetching == {t \in Threads : worker[t] = "fetching"}

\* Each thread with a job has one of its own, whose status says how far it is.
Workers ==
    /\ status \in [Jobs -> {"new", "pending", "running", "done"}]
    /\ worker \in [Threads -> {"checking", "waiting", "fetching", "starting", "running", "ended"}]
    /\ job \in [Threads -> Jobs \cup {NoJob}]
    /\ \A t \in Threads :
          /\ worker[t] \in {"starting", "running"} <=> job[t] # NoJob
          /\ worker[t] = "starting" => status[job[t]] = "pending"
          /\ worker[t] = "running" => status[job[t]] = "running"
    /\ \A t, u \in Threads : job[t] = job[u] /\ job[t] # NoJob => t = u

\* Clients: every job that was added, in the order in which they were.
OfClients(q, added) ==
    /\ "masters" \notin uses /\ toAdd = <<>> /\ added = Len(q)
    /\ \A j \in Jobs : status[j] = "new" =>
          next[j] = NoJob /\ \A i \in 1 .. Len(q) : q[i] # j

\* Master servers: the sequence they are always added in.
OfMasters(q, added) ==
    /\ "clients" \notin uses /\ q = Masters /\ toAdd \in Seq(Jobs)
    /\ \/ toAdd = <<>> /\ added \in {0, Len(q)}
       \/ /\ Len(toAdd) = Len(q) - added
          /\ \A i \in 1 .. Len(toAdd) :
                toAdd[i] = q[added + i] /\ status[toAdd[i]] \in {"new", "done"}

List(q, taken, added) ==
    /\ Chain(next, first, last, q, taken, added)
    /\ Waiting = Listed(q, taken, added)
    /\ OfClients(q, added) \/ OfMasters(q, added)

Signals ==
    /\ semaphore \in Nat /\ signals \in Nat
    /\ semaphore + signals + Cardinality(Fetching) = Cardinality(Waiting)

\* The destruction of the pool gives signals of its own.
PInv ==
    /\ ~({"clients", "masters"} \subseteq uses)
    /\ ~shutdown => Workers /\ Signals /\ \E q, taken, added : List(q, taken, added)

LEMMA WaitingFinite == IsFiniteSet(Waiting) /\ Cardinality(Waiting) \in Nat
<1>1. Waiting \subseteq Jobs  BY DEF Waiting
<1>2. IsFiniteSet(Waiting)  BY <1>1, PoolAssumption, FS_Subset
<1>. QED  BY <1>2, FS_CardinalityType

LEMMA FetchingFinite == IsFiniteSet(Fetching) /\ Cardinality(Fetching) \in Nat
<1>1. IsFiniteSet(1 .. NumThreads)  BY PoolAssumption, FS_Interval
<1>2. Fetching \subseteq 1 .. NumThreads  BY DEF Fetching, Threads
<1>3. IsFiniteSet(Fetching)  BY <1>1, <1>2, FS_Subset
<1>. QED  BY <1>3, FS_CardinalityType

\* Who follows a signal finds a job that waits.
LEMMA FindsOne ==
    ASSUME Signals, NEW q, NEW taken, NEW added, List(q, taken, added), Fetching # {}
    PROVE  taken < added /\ first \in Waiting /\ first = q[taken + 1]
<1>1. Chain(next, first, last, q, taken, added) /\ Waiting = Listed(q, taken, added)
  BY DEF List
<1>2. q \in Seq(Jobs) /\ Distinct(q) /\ taken \in Nat /\ added \in Nat /\ taken <= added
      /\ added <= Len(q)
  BY <1>1 DEF Chain
<1>3. Waiting # {}
  <2>1. Cardinality(Fetching) # 0  BY FetchingFinite, FS_EmptySet
  <2>2. Cardinality(Waiting) # 0  BY <2>1, FetchingFinite, WaitingFinite DEF Signals
  <2>. QED  BY <2>2, FS_EmptySet
<1>4. taken < added
  <2>1. taken = added => Listed(q, taken, added) = {}  BY <1>2 DEF Listed
  <2>. QED  BY <1>1, <1>2, <1>3, <2>1
<1>5. first = q[taken + 1]  BY <1>1, <1>4 DEF Chain
<1>6. q[taken + 1] \in Listed(q, taken, added)  BY <1>2, <1>4, ListedTake
<1>. QED  BY <1>1, <1>4, <1>5, <1>6

LEMMA InitStep ==
    ASSUME \A u \in Uses : ~({"clients", "masters"} \subseteq u), PoolInit
    PROVE  PInv
<1>1. uses \in Uses /\ ~({"clients", "masters"} \subseteq uses)  BY DEF PoolInit
<1>2. Workers
  <2>1. status = [j \in Jobs |-> "new"] /\ worker = [t \in Threads |-> "checking"]
        /\ job = [t \in Threads |-> NoJob]
    BY DEF PoolInit
  <2>. QED  BY <2>1 DEF Workers
<1>3. Waiting = {} /\ Fetching = {}
  BY DEF PoolInit, Waiting, Fetching
<1>4. Signals  BY <1>3, FS_EmptySet DEF PoolInit, Signals
<1>5. ASSUME NEW q \in Seq(Jobs), Distinct(q)
      PROVE  Chain(next, first, last, q, 0, 0) /\ Waiting = Listed(q, 0, 0)
  <2>1. /\ next = [j \in Jobs |-> NoJob] /\ first = NoJob /\ last = NoJob
    BY DEF PoolInit
  <2>2. Listed(q, 0, 0) = {}  BY DEF Listed
  <2>3. \A i \in 1 .. Len(q) : next[q[i]] = NoJob  BY <1>5, <2>1
  <2>. QED  BY <1>3, <1>5, <2>1, <2>2, <2>3 DEF Chain
<1>6. CASE "masters" \notin uses
  <2>1. <<>> \in Seq(Jobs) /\ Distinct(<<>>) /\ Len(<<>>) = 0  BY DEF Distinct
  <2>2. OfClients(<<>>, 0)  BY <1>6, <2>1 DEF OfClients, PoolInit
  <2>3. List(<<>>, 0, 0)  BY <1>5, <2>1, <2>2 DEF List
  <2>. QED  BY <1>1, <1>2, <1>4, <2>3 DEF PInv
<1>7. CASE "masters" \in uses
  <2>1. Masters \in Seq(Jobs) /\ Distinct(Masters)
    BY PoolAssumption DEF Jobs, Distinct
  <2>2. OfMasters(Masters, 0)  BY <1>1, <1>7 DEF OfMasters, PoolInit
  <2>3. List(Masters, 0, 0)  BY <1>5, <2>1, <2>2 DEF List
  <2>. QED  BY <1>1, <1>2, <1>4, <2>3 DEF PInv
<1>. QED  BY <1>6, <1>7

-----------------------------------------------------------------------------
(* The main thread.                                                        *)

\* A job that nobody works on is added.
LEMMA EnqueueKeeps ==
    ASSUME Workers, Signals, NEW q, NEW taken, NEW added,
           Chain(next, first, last, q, taken, added), Waiting = Listed(q, taken, added),
           added < Len(q), NEW j, j = q[added + 1], status[j] \in {"new", "done"},
           signals = 0, Enqueue(j),
           UNCHANGED <<uses, semaphore, shutdown, worker, job, owner>>
    PROVE  /\ Workers' /\ Signals'
           /\ Chain(next', first', last', q, taken, added + 1)
           /\ Waiting' = Listed(q, taken, added + 1)
<1>1. /\ q \in Seq(Jobs) /\ taken \in Nat /\ added \in Nat /\ taken <= added
      /\ j \in Jobs /\ j # NoJob
  <2>1. q \in Seq(Jobs) /\ taken \in Nat /\ added \in Nat /\ taken <= added  BY DEF Chain
  <2>2. added + 1 \in 1 .. Len(q)  BY <2>1
  <2>. QED  BY <2>1, <2>2, PoolAssumption
<1>2. /\ status \in [Jobs -> {"new", "pending", "running", "done"}]
      /\ \A t \in Threads : job[t] # j
  <2>1. \A t \in Threads : job[t] # NoJob => status[job[t]] \in {"pending", "running"}
    BY DEF Workers
  <2>. QED  BY <1>1, <2>1 DEF Workers
<1>3. /\ status' = [status EXCEPT ![j] = "pending"] /\ signals' = 1
      /\ next' = IF last # NoJob THEN [next EXCEPT ![last] = j] ELSE next
      /\ first' = IF first = NoJob THEN j ELSE first
      /\ last' = j
      /\ worker' = worker /\ job' = job /\ semaphore' = semaphore
  BY DEF Enqueue
<1>4. Chain(next', first', last', q, taken, added + 1)
  <2>1. Chain(IF last # NoJob THEN [next EXCEPT ![last] = q[added + 1]] ELSE next,
              IF first = NoJob THEN q[added + 1] ELSE first, q[added + 1],
              q, taken, added + 1)
    BY ChainAdd
  <2>. QED  BY <1>3, <2>1
<1>5. Waiting' = Waiting \cup {j} /\ j \notin Waiting
  BY <1>1, <1>2, <1>3 DEF Waiting
<1>6. Waiting' = Listed(q, taken, added + 1)  BY <1>1, <1>5, ListedAdd
<1>7. Workers'
  BY <1>1, <1>2, <1>3 DEF Workers
<1>8. Signals'
  <2>1. Cardinality(Waiting') = Cardinality(Waiting) + 1
    BY <1>5, WaitingFinite, FS_AddElement
  <2>2. Fetching' = Fetching  BY <1>3 DEF Fetching
  <2>. QED  BY <1>3, <2>1, <2>2, WaitingFinite, FetchingFinite DEF Signals
<1>. QED  BY <1>4, <1>6, <1>7, <1>8

LEMMA InitDnsblStep ==
    ASSUME PInv, ~shutdown, NEW j \in Clients, InitDnsbl(j)
    PROVE  PInv'
<1>1. PICK q, taken, added : List(q, taken, added)  BY DEF PInv
<1>2. /\ Workers /\ Signals /\ "clients" \in uses /\ "masters" \notin uses
      /\ Chain(next, first, last, q, taken, added) /\ Waiting = Listed(q, taken, added)
      /\ added = Len(q) /\ toAdd = <<>>
      /\ \A k \in Jobs : status[k] = "new" =>
            next[k] = NoJob /\ \A i \in 1 .. Len(q) : q[i] # k
  BY <1>1 DEF PInv, List, OfClients, OfMasters, InitDnsbl
<1>3. /\ j \in Jobs /\ status[j] = "new" /\ Enqueue(j) /\ signals = 0
      /\ UNCHANGED <<uses, semaphore, shutdown, worker, job, toAdd, owner>>
  BY DEF InitDnsbl, Idle, Jobs
<1> DEFINE p == Append(q, j)
<1>4. /\ q \in Seq(Jobs) /\ p \in Seq(Jobs) /\ taken \in Nat /\ added \in Nat
      /\ taken <= added
  BY <1>2, <1>3 DEF Chain
<1>5. /\ Chain(next, first, last, p, taken, added)
      /\ Len(p) = added + 1 /\ p[added + 1] = j
      /\ \A i \in 1 .. added : p[i] = q[i]
  <2>1. Chain(next, first, last, q, taken, Len(q))  BY <1>2
  <2>2. next[j] = NoJob /\ \A i \in 1 .. Len(q) : q[i] # j  BY <1>2, <1>3
  <2>. QED  BY <1>2, <1>3, <2>1, <2>2, ChainExtend
<1> HIDE DEF p
<1>6. Waiting = Listed(p, taken, added)
  <2>1. \A i \in taken + 1 .. added : i \in 1 .. added  BY <1>4
  <2>. QED  BY <1>2, <1>5, <2>1 DEF Listed
<1>7. /\ Workers' /\ Signals'
      /\ Chain(next', first', last', p, taken, added + 1)
      /\ Waiting' = Listed(p, taken, added + 1)
  <2>1. added < Len(p) /\ j = p[added + 1]  BY <1>4, <1>5
  <2>2. status[j] \in {"new", "done"}  BY <1>3
  <2>. QED  BY <1>2, <1>3, <1>5, <1>6, <2>1, <2>2, EnqueueKeeps
<1>8. OfClients(p, added + 1)'
  <2>1. \A k \in Jobs : status'[k] = "new" => k # j /\ status[k] = "new"
    BY <1>2, <1>3 DEF Enqueue, Workers
  <2>2. ASSUME NEW k \in Jobs, status'[k] = "new" PROVE next'[k] = NoJob
    <3>1. k # j /\ next[k] = NoJob /\ \A i \in 1 .. Len(q) : q[i] # k
      BY <1>2, <2>1, <2>2
    <3>2. last # k
      <4>1. last = NoJob \/ (added \in 1 .. Len(q) /\ last = q[added])
        BY <1>2, <1>4 DEF Chain
      <4>. QED  BY <3>1, <4>1, PoolAssumption
    <3>3. next' = IF last # NoJob THEN [next EXCEPT ![last] = j] ELSE next
      BY <1>3 DEF Enqueue
    <3>4. next \in [Jobs -> Jobs \cup {NoJob}]  BY <1>2 DEF Chain
    <3>. QED  BY <3>1, <3>2, <3>3, <3>4
  <2>3. ASSUME NEW k \in Jobs, status'[k] = "new" PROVE \A i \in 1 .. Len(p) : p[i] # k
    <3>1. k # j /\ \A i \in 1 .. Len(q) : q[i] # k  BY <1>2, <2>1, <2>3
    <3>2. \A i \in 1 .. Len(p) : i \in 1 .. added \/ i = added + 1  BY <1>4, <1>5
    <3>. QED  BY <1>2, <1>5, <3>1, <3>2
  <2>. QED  BY <1>2, <1>3, <1>5, <2>2, <2>3 DEF OfClients
<1>9. List(p, taken, added + 1)'  BY <1>7, <1>8 DEF List
<1>. QED  BY <1>2, <1>3, <1>7, <1>9 DEF PInv

\* All lookups are done, so that none is listed.
LEMMA RefreshAddressesStep ==
    ASSUME PInv, ~shutdown, RefreshAddresses
    PROVE  PInv'
<1>1. PICK q, taken, added : List(q, taken, added)  BY DEF PInv
<1>2. /\ Workers /\ Signals /\ "clients" \notin uses /\ q = Masters
      /\ Chain(next, first, last, q, taken, added) /\ Waiting = Listed(q, taken, added)
      /\ added \in {0, Len(q)}
  <2>1. toAdd = <<>> /\ "masters" \in uses /\ "clients" \notin uses
    BY DEF RefreshAddresses, Idle, PInv
  <2>2. OfMasters(q, added)  BY <1>1, <2>1 DEF List, OfClients
  <2>3. Chain(next, first, last, q, taken, added)  BY <1>1 DEF List
  <2>4. Len(q) \in Nat /\ added \in Nat /\ added <= Len(q)  BY <2>3 DEF Chain
  <2>5. added \in {0, Len(q)}
    <3>1. Len(<<>>) = 0  OBVIOUS
    <3>. QED  BY <2>1, <2>2, <2>4, <3>1 DEF OfMasters
  <2>. QED  BY <1>1, <2>1, <2>2, <2>3, <2>5 DEF List, PInv, OfMasters
<1>3. /\ \A j \in Lookups : status[j] \in {"new", "done"}
      /\ toAdd' = Masters
      /\ UNCHANGED <<uses, status, listVars, semaphore, shutdown, worker, job, owner, signals>>
  BY DEF RefreshAddresses
<1>4. q \in Seq(Jobs) /\ taken \in Nat /\ added \in Nat /\ taken <= added /\ added <= Len(q)
  BY <1>2 DEF Chain
<1>5. \A i \in 1 .. Len(q) : status[q[i]] \in {"new", "done"}
  BY <1>2, <1>3, <1>4 DEF Lookups
<1>6. taken = added
  <2>1. CASE taken < added
    <3>1. taken + 1 \in taken + 1 .. added /\ taken + 1 \in 1 .. Len(q)  BY <1>4, <2>1
    <3>2. q[taken + 1] \in Waiting  BY <1>2, <3>1 DEF Listed
    <3>3. status[q[taken + 1]] = "pending"  BY <3>2 DEF Waiting
    <3>. QED  BY <1>5, <3>1, <3>3
  <2>. QED  BY <1>4, <2>1
<1>7. Chain(next, first, last, q, 0, 0)  BY <1>2, <1>6, ChainAgain
<1>8. Waiting = Listed(q, 0, 0)  BY <1>2, <1>4, <1>6 DEF Listed
<1>9. OfMasters(q, 0)'
  BY <1>2, <1>3, <1>4, <1>5 DEF OfMasters
<1>10. Chain(next', first', last', q, 0, 0) /\ Waiting' = Listed(q, 0, 0)
  BY <1>3, <1>7, <1>8 DEF Waiting, listVars
<1>11. List(q, 0, 0)'  BY <1>9, <1>10 DEF List
<1>12. Workers' /\ Signals'
  BY <1>2, <1>3 DEF Workers, Signals, Waiting, Fetching
<1>. QED  BY <1>2, <1>3, <1>11, <1>12 DEF PInv

LEMMA AddLookupStep ==
    ASSUME PInv, ~shutdown, AddLookup
    PROVE  PInv'
<1>1. PICK q, taken, added : List(q, taken, added)  BY DEF PInv
<1> DEFINE j == Head(toAdd)
<1>2. /\ toAdd # <<>> /\ signals = 0 /\ Enqueue(j) /\ toAdd' = Tail(toAdd)
      /\ UNCHANGED <<uses, semaphore, shutdown, worker, job, owner>>
  BY DEF AddLookup
<1>3. /\ Workers /\ Signals /\ "clients" \notin uses /\ q = Masters
      /\ Chain(next, first, last, q, taken, added) /\ Waiting = Listed(q, taken, added)
      /\ toAdd \in Seq(Jobs) /\ Len(toAdd) = Len(q) - added
      /\ \A i \in 1 .. Len(toAdd) :
            toAdd[i] = q[added + i] /\ status[toAdd[i]] \in {"new", "done"}
  BY <1>1, <1>2 DEF PInv, List, OfClients, OfMasters
<1>4. q \in Seq(Jobs) /\ Len(q) \in Nat /\ added \in Nat /\ Distinct(q)
  BY <1>3 DEF Chain
<1>5. Len(toAdd) > 0 /\ 1 \in 1 .. Len(toAdd) /\ added < Len(q)
  BY <1>2, <1>3, <1>4
<1>6. j = q[added + 1] /\ status[j] \in {"new", "done"}
  BY <1>3, <1>5
<1> HIDE DEF j
<1>7. /\ Workers' /\ Signals'
      /\ Chain(next', first', last', q, taken, added + 1)
      /\ Waiting' = Listed(q, taken, added + 1)
  BY <1>2, <1>3, <1>5, <1>6, EnqueueKeeps
<1>8. OfMasters(q, added + 1)'
  <2>1. /\ toAdd' \in Seq(Jobs) /\ Len(toAdd') = Len(q) - (added + 1)
        /\ \A i \in 1 .. Len(toAdd') : toAdd'[i] = toAdd[i + 1]
    BY <1>2, <1>3, <1>4, <1>5
  <2>2. ASSUME NEW i \in 1 .. Len(toAdd')
        PROVE  toAdd'[i] = q[added + 1 + i] /\ status'[toAdd'[i]] \in {"new", "done"}
    <3>1. i + 1 \in 1 .. Len(toAdd) /\ added + (i + 1) = added + 1 + i
          /\ added + 1 + i \in 1 .. Len(q) /\ added + 1 \in 1 .. Len(q)
      BY <1>3, <1>4, <1>5, <2>1
    <3>2. toAdd'[i] = q[added + 1 + i] /\ status[toAdd'[i]] \in {"new", "done"}
      BY <1>3, <2>1, <3>1
    <3>3. q[added + 1 + i] # j /\ q[added + 1 + i] \in Jobs
      BY <1>4, <1>6, <3>1 DEF Distinct
    <3>4. status'[q[added + 1 + i]] = status[q[added + 1 + i]]
      BY <1>2, <1>3, <3>3 DEF Enqueue, Workers
    <3>. QED  BY <3>2, <3>4
  <2>. QED  BY <1>2, <1>3, <2>1, <2>2 DEF OfMasters
<1>9. List(q, taken, added + 1)'  BY <1>7, <1>8 DEF List
<1>. QED  BY <1>2, <1>3, <1>7, <1>9 DEF PInv

\* What leaves the list, the jobs and the worker threads' jobs alone keeps the list.
LEMMA ListStays ==
    ASSUME NEW q, NEW taken, NEW added, List(q, taken, added),
           UNCHANGED <<uses, status, listVars, job, toAdd>>
    PROVE  List(q, taken, added)' /\ Waiting' = Waiting
  BY DEF List, OfClients, OfMasters, Waiting, listVars

LEMMA SignalStep ==
    ASSUME PInv, ~shutdown, Signal
    PROVE  PInv'
<1>1. PICK q, taken, added : List(q, taken, added)  BY DEF PInv
<1>2. Workers /\ Signals  BY DEF PInv
<1>3. /\ signals > 0 /\ semaphore' = semaphore + 1 /\ signals' = signals - 1
      /\ UNCHANGED <<uses, status, listVars, shutdown, worker, job, toAdd, owner>>
  BY DEF Signal
<1>4. List(q, taken, added)' /\ Waiting' = Waiting  BY <1>1, <1>3, ListStays
<1>5. Workers' /\ Fetching' = Fetching  BY <1>2, <1>3 DEF Workers, Fetching
<1>6. Signals'
  BY <1>2, <1>3, <1>4, <1>5, WaitingFinite, FetchingFinite DEF Signals
<1>. QED  BY <1>3, <1>4, <1>5, <1>6 DEF PInv

-----------------------------------------------------------------------------
(* WorkerThread                                                            *)

LEMMA CheckStep ==
    ASSUME PInv, ~shutdown, NEW t \in Threads, Check(t)
    PROVE  PInv'
<1>1. PICK q, taken, added : List(q, taken, added)  BY DEF PInv
<1>2. Workers /\ Signals  BY DEF PInv
<1>3. /\ worker[t] = "checking" /\ worker' = [worker EXCEPT ![t] = "waiting"]
      /\ UNCHANGED <<uses, status, listVars, semaphore, shutdown, job, toAdd, owner, signals>>
  BY DEF Check, Goes
<1>4. List(q, taken, added)' /\ Waiting' = Waiting  BY <1>1, <1>3, ListStays
<1>5. Workers' /\ Fetching' = Fetching  BY <1>2, <1>3 DEF Workers, Fetching
<1>6. Signals'  BY <1>2, <1>3, <1>4, <1>5 DEF Signals
<1>. QED  BY <1>3, <1>4, <1>5, <1>6 DEF PInv

LEMMA WakeStep ==
    ASSUME PInv, ~shutdown, NEW t \in Threads, Wake(t)
    PROVE  PInv'
<1>1. PICK q, taken, added : List(q, taken, added)  BY DEF PInv
<1>2. Workers /\ Signals  BY DEF PInv
<1>3. /\ semaphore > 0 /\ semaphore' = semaphore - 1
      /\ worker[t] = "waiting" /\ worker' = [worker EXCEPT ![t] = "fetching"]
      /\ UNCHANGED <<uses, status, listVars, shutdown, job, toAdd, owner, signals>>
  BY DEF Wake, Goes
<1>4. List(q, taken, added)' /\ Waiting' = Waiting  BY <1>1, <1>3, ListStays
<1>5. Workers' /\ Fetching' = Fetching \cup {t} /\ t \notin Fetching
  BY <1>2, <1>3 DEF Workers, Fetching
<1>6. Cardinality(Fetching') = Cardinality(Fetching) + 1
  BY <1>5, FetchingFinite, FS_AddElement
<1>7. Signals'
  BY <1>2, <1>3, <1>4, <1>6, FetchingFinite, WaitingFinite DEF Signals
<1>. QED  BY <1>3, <1>4, <1>5, <1>7 DEF PInv

LEMMA FetchStep ==
    ASSUME PInv, ~shutdown, NEW t \in Threads, Fetch(t)
    PROVE  PInv'
<1>1. PICK q, taken, added : List(q, taken, added)  BY DEF PInv
<1>2. Workers /\ Signals  BY DEF PInv
<1>3. /\ worker[t] = "fetching" /\ worker' = [worker EXCEPT ![t] = "starting"]
      /\ job' = [job EXCEPT ![t] = first]
      /\ first' = next[first]
      /\ last' = (IF next[first] = NoJob THEN NoJob ELSE last)
      /\ UNCHANGED <<uses, status, next, semaphore, shutdown, toAdd, owner, signals>>
  BY DEF Fetch, Goes
<1>4. t \in Fetching /\ Fetching' = Fetching \ {t}
  BY <1>2, <1>3 DEF Workers, Fetching
<1>5. taken < added /\ first \in Waiting /\ first = q[taken + 1]
  BY <1>1, <1>2, <1>4, FindsOne
<1>6. first \in Jobs /\ first # NoJob /\ status[first] = "pending"
      /\ \A u \in Threads : job[u] # first
  BY <1>5, PoolAssumption DEF Waiting
<1>7. Workers'
  <2>1. job[t] = NoJob  BY <1>2, <1>3 DEF Workers
  <2>. QED  BY <1>2, <1>3, <1>6, <2>1 DEF Workers
<1>8. Waiting' = Waiting \ {first}
  <2>1. \A j \in Jobs : (\A u \in Threads : job'[u] # j) <=>
                        j # first /\ \A u \in Threads : job[u] # j
    <3>1. job[t] = NoJob /\ NoJob \notin Jobs  BY <1>2, <1>3, PoolAssumption DEF Workers
    <3>2. job \in [Threads -> Jobs \cup {NoJob}]  BY <1>2 DEF Workers
    <3>. QED  BY <1>3, <3>1, <3>2
  <2>. QED  BY <1>3, <2>1 DEF Waiting
<1>9. Signals'
  <2>1. Cardinality(Waiting') = Cardinality(Waiting) - 1
    BY <1>5, <1>8, WaitingFinite, FS_RemoveElement
  <2>2. Cardinality(Fetching') = Cardinality(Fetching) - 1
    BY <1>4, FetchingFinite, FS_RemoveElement
  <2>. QED  BY <1>2, <1>3, <2>1, <2>2, WaitingFinite, FetchingFinite DEF Signals
<1>10. List(q, taken + 1, added)'
  <2>1. Chain(next, first, last, q, taken, added) /\ Waiting = Listed(q, taken, added)
    BY <1>1 DEF List
  <2>2. Chain(next', first', last', q, taken + 1, added)
    <3>1. Chain(next, next[first], IF next[first] = NoJob THEN NoJob ELSE last,
                q, taken + 1, added)
      BY <1>5, <2>1, ChainTake
    <3>. QED  BY <1>3, <3>1
  <2>3. Waiting' = Listed(q, taken + 1, added)
    BY <1>5, <1>8, <2>1, ListedTake DEF Chain
  <2>4. OfClients(q, added)' \/ OfMasters(q, added)'
    BY <1>1, <1>3 DEF List, OfClients, OfMasters
  <2>. QED  BY <2>2, <2>3, <2>4 DEF List
<1>. QED  BY <1>3, <1>7, <1>9, <1>10 DEF PInv

\* It never finds nothing.
LEMMA FetchNothingStep ==
    ASSUME PInv, ~shutdown, NEW t \in Threads, FetchNothing(t)
    PROVE  FALSE
<1>1. PICK q, taken, added : List(q, taken, added)  BY DEF PInv
<1>2. t \in Fetching /\ first = NoJob  BY DEF FetchNothing, Goes, Fetching
<1>3. first \in Waiting  BY <1>1, <1>2, FindsOne DEF PInv
<1>. QED  BY <1>2, <1>3, PoolAssumption DEF Waiting

\* A thread runs its job, or has done so.
LEMMA WorkStep ==
    ASSUME PInv, ~shutdown, NEW t \in Threads, Run(t) \/ Done(t)
    PROVE  PInv'
<1>1. PICK q, taken, added : List(q, taken, added)  BY DEF PInv
<1>2. Workers /\ Signals  BY DEF PInv
<1>3. /\ worker[t] \in {"starting", "running"}
      /\ \/ /\ worker[t] = "starting" /\ worker' = [worker EXCEPT ![t] = "running"]
            /\ status' = [status EXCEPT ![job[t]] = "running"] /\ job' = job
         \/ /\ worker[t] = "running" /\ worker' = [worker EXCEPT ![t] = "checking"]
            /\ status' = [status EXCEPT ![job[t]] = "done"]
            /\ job' = [job EXCEPT ![t] = NoJob]
      /\ UNCHANGED <<uses, listVars, semaphore, shutdown, toAdd, owner, signals>>
  BY DEF Run, Done, Goes
<1>4. job[t] \in Jobs /\ job[t] # NoJob /\ status[job[t]] \in {"pending", "running"}
      /\ \A u \in Threads : u # t => job[u] # job[t]
  BY <1>2, <1>3 DEF Workers
<1>5. Workers'
  <2>1. CASE worker[t] = "starting"
    <3>1. /\ worker' = [worker EXCEPT ![t] = "running"]
          /\ status' = [status EXCEPT ![job[t]] = "running"] /\ job' = job
      BY <1>3, <2>1
    <3>. QED  BY <1>2, <1>4, <2>1, <3>1 DEF Workers
  <2>2. CASE worker[t] = "running"
    <3>1. /\ worker' = [worker EXCEPT ![t] = "checking"]
          /\ status' = [status EXCEPT ![job[t]] = "done"]
          /\ job' = [job EXCEPT ![t] = NoJob]
      BY <1>3, <2>2
    <3>. QED  BY <1>2, <1>4, <2>2, <3>1 DEF Workers
  <2>. QED  BY <1>3, <2>1, <2>2
<1>6. \A j \in Jobs : j # job[t] => status'[j] = status[j]  BY <1>2, <1>3 DEF Workers
<1>7. status'[job[t]] \notin {"new", "pending"}  BY <1>2, <1>3, <1>4 DEF Workers
<1>8. Waiting' = Waiting
  <2>1. job[t] \notin Waiting  BY DEF Waiting
  <2>2. job[t] \notin Waiting'  BY <1>7 DEF Waiting
  <2>3. ASSUME NEW j \in Jobs, j # job[t] PROVE j \in Waiting' <=> j \in Waiting
    <3>1. \A u \in Threads : job'[u] = j <=> job[u] = j
      BY <1>2, <1>3, <2>3, PoolAssumption DEF Workers
    <3>. QED  BY <1>6, <2>3, <3>1 DEF Waiting
  <2>4. Waiting \subseteq Jobs /\ Waiting' \subseteq Jobs  BY DEF Waiting
  <2>. QED  BY <2>1, <2>2, <2>3, <2>4
<1>9. Signals'
  <2>1. Fetching' = Fetching  BY <1>2, <1>3 DEF Workers, Fetching
  <2>. QED  BY <1>2, <1>3, <1>8, <2>1 DEF Signals
<1>10. List(q, taken, added)'
  <2>1. Chain(next, first, last, q, taken, added)' /\ (Waiting = Listed(q, taken, added))'
    <3>1. Chain(next', first', last', q, taken, added)  BY <1>1, <1>3 DEF List, listVars
    <3>2. Waiting' = Listed(q, taken, added)  BY <1>1, <1>8 DEF List
    <3>. QED  BY <3>1, <3>2
  <2>2. CASE OfClients(q, added)
    <3>1. \A j \in Jobs : status'[j] = "new" => status[j] = "new"  BY <1>6, <1>7
    <3>. QED  BY <1>3, <2>1, <2>2, <3>1 DEF List, OfClients, listVars
  <2>3. CASE OfMasters(q, added)
    <3>1. \A j \in Jobs : status[j] \in {"new", "done"} => status'[j] = status[j]
      BY <1>4, <1>6
    <3>2. OfMasters(q, added)'
      BY <1>3, <2>3, <3>1 DEF OfMasters
    <3>. QED  BY <2>1, <3>2 DEF List
  <2>. QED  BY <1>1, <2>2, <2>3 DEF List
<1>. QED  BY <1>3, <1>5, <1>9, <1>10 DEF PInv

-----------------------------------------------------------------------------
(* The invariant holds.                                                    *)

LEMMA JoinStep ==
    ASSUME PInv, Join \/ UNCHANGED poolVars
    PROVE  PInv'
<1>1. UNCHANGED <<uses, status, listVars, semaphore, shutdown, worker, job, toAdd, signals>>
  BY DEF Join, poolVars, listVars
<1>2. CASE shutdown  BY <1>1, <1>2 DEF PInv
<1>3. CASE ~shutdown
  <2>1. PICK q, taken, added : List(q, taken, added)  BY <1>3 DEF PInv
  <2>2. List(q, taken, added)' /\ Waiting' = Waiting  BY <1>1, <2>1, ListStays
  <2>3. Workers' /\ Signals'
    BY <1>1, <1>3, <2>2 DEF PInv, Workers, Signals, Fetching
  <2>. QED  BY <1>1, <2>2, <2>3 DEF PInv
<1>. QED  BY <1>2, <1>3

LEMMA NextStep ==
    ASSUME PInv, [PoolNext]_poolVars
    PROVE  PInv'
<1>1. uses' = uses
  BY DEF PoolNext, MainThread, WorkerThread, poolVars, InitDnsbl, RefreshAddresses,
         AddLookup, Signal, Destroy, Join, Check, Wake, Fetch, FetchNothing, Run, Done
<1>2. CASE shutdown
  <2>1. shutdown' = shutdown \/ shutdown'
    BY DEF PoolNext, MainThread, WorkerThread, poolVars, InitDnsbl, RefreshAddresses,
           AddLookup, Signal, Destroy, Join, Check, Wake, Fetch, FetchNothing, Run, Done
  <2>. QED  BY <1>1, <1>2, <2>1 DEF PInv
<1>3. CASE ~shutdown
  <2>1. CASE \E j \in Clients : InitDnsbl(j)  BY <1>3, <2>1, InitDnsblStep
  <2>2. CASE RefreshAddresses  BY <1>3, <2>2, RefreshAddressesStep
  <2>3. CASE AddLookup  BY <1>3, <2>3, AddLookupStep
  <2>4. CASE Signal  BY <1>3, <2>4, SignalStep
  <2>5. CASE Destroy  BY <1>1, <2>5 DEF Destroy, PInv
  <2>6. CASE Join \/ UNCHANGED poolVars  BY <2>6, JoinStep
  <2>7. CASE \E t \in Threads : WorkerThread(t)
    <3>1. PICK t \in Threads : WorkerThread(t)  BY <2>7
    <3>2. CASE Check(t)  BY <1>3, <3>2, CheckStep
    <3>3. CASE Wake(t)  BY <1>3, <3>3, WakeStep
    <3>4. CASE Fetch(t)  BY <1>3, <3>4, FetchStep
    <3>5. CASE FetchNothing(t)  BY <1>3, <3>5, FetchNothingStep
    <3>6. CASE Run(t) \/ Done(t)  BY <1>3, <3>6, WorkStep
    <3>. QED  BY <3>1, <3>2, <3>3, <3>4, <3>5, <3>6 DEF WorkerThread
  <2>. QED
    BY <2>1, <2>2, <2>3, <2>4, <2>5, <2>6, <2>7 DEF PoolNext, MainThread
<1>. QED  BY <1>2, <1>3

\* In a pool that is used for one kind of jobs, whatever their number and that of
\* the threads, a thread that follows a signal finds a job that waits, and signals
\* and waiting jobs are as many as each other until the pool is destroyed (CJobPool's
\* Add, WorkerThread): a job that is added again keeps its m_pNext, which is harmless
\* because it points at the job that is added after it this time too.
THEOREM PoolSignalsMatchJobs ==
    ASSUME \A u \in Uses : ~({"clients", "masters"} \subseteq u)
    PROVE  PoolSpec => []SignalsMatchJobs
<1>1. PoolInit => PInv  BY InitStep
<1>2. PInv /\ [PoolNext]_poolVars => PInv'  BY NextStep
<1>3. PInv => SignalsMatchJobs
  <2> SUFFICES ASSUME PInv, ~shutdown
               PROVE  /\ semaphore + signals + Cardinality(Fetching) = Cardinality(Waiting)
                      /\ Fetching # {} => first \in Waiting
    BY DEF SignalsMatchJobs, Fetching
  <2>1. PICK q, taken, added : List(q, taken, added)  BY DEF PInv
  <2>2. Signals  BY DEF PInv
  <2>3. Fetching # {} => first \in Waiting  BY <2>1, <2>2, FindsOne
  <2>. QED  BY <2>2, <2>3 DEF Signals
<1>. QED  BY <1>1, <1>2, <1>3, PTL DEF PoolSpec
=============================================================================
