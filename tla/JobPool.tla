------------------------------- MODULE JobPool -------------------------------
(***************************************************************************)
(* The threads that look names up for the server (CJobPool): a list of     *)
(* jobs under a lock, and a semaphore with a signal for every job in it.   *)
(* The main thread adds jobs and in the end destroys the pool.  A client's  *)
(* address is looked up by a new job each time (InitDnsbl); the names of   *)
(* the master servers are looked up again and again by jobs that are kept   *)
(* (CMasterServer::RefreshAddresses).  The lock is held within one action. *)
(***************************************************************************)
EXTENDS Integers, Sequences, FiniteSets

CONSTANTS
    NumThreads,     \* what Init is asked for
    MAX_THREADS,
    Clients,        \* bound: the lookups of clients, each of them added once
    Masters,        \* m_apLookup, in a sequence
    Uses,           \* what the pool may be used for: sets of "clients" and "masters"
    NoJob

Lookups == {Masters[i] : i \in DOMAIN Masters}
Jobs == Clients \cup Lookups

ASSUME PoolAssumption ==
    /\ NumThreads \in Nat \ {0} /\ MAX_THREADS \in Nat \ {0}
    /\ IsFiniteSet(Jobs) /\ NoJob \notin Jobs /\ Clients \cap Lookups = {}
    /\ Masters \in Seq(Lookups)
    /\ \A i, k \in DOMAIN Masters : Masters[i] = Masters[k] => i = k

VARIABLES
    uses,       \* one of Uses, which does not change
    status,     \* m_Status; new before a job is added for the first time
    next,       \* m_pNext
    first, last, \* m_pFirstJob, m_pLastJob
    semaphore,  \* signals that nobody has waited for yet
    shutdown,   \* m_Shutdown
    worker,     \* where each thread is
    job,        \* the job each thread has
    toAdd,      \* the lookups that RefreshAddresses has still to add
    owner,      \* where the main thread is
    signals     \* signals it has still to give

listVars == <<next, first, last>>
poolVars == <<uses, status, listVars, semaphore, shutdown, worker, job, toAdd, owner, signals>>

Threads == 1 .. NumThreads      \* Init starts as many as it was asked for
Joined == 1 .. (IF NumThreads > MAX_THREADS THEN MAX_THREADS ELSE NumThreads)

PoolInit ==
    /\ uses \in Uses
    /\ status = [j \in Jobs |-> "new"]
    /\ next = [j \in Jobs |-> NoJob] /\ first = NoJob /\ last = NoJob
    /\ semaphore = 0 /\ shutdown = FALSE
    /\ worker = [t \in Threads |-> "checking"] /\ job = [t \in Threads |-> NoJob]
    /\ toAdd = <<>> /\ owner = "running" /\ signals = 0

-----------------------------------------------------------------------------
(* The main thread.                                                        *)

Idle == owner = "running" /\ signals = 0 /\ toAdd = <<>>

\* Mutant: the last job is not linked to the new one.
EnqueueUnlinked(j) ==
    /\ status' = [status EXCEPT ![j] = "pending"]
    /\ last' = j
    /\ first' = IF first = NoJob THEN j ELSE first
    /\ signals' = 1
    /\ UNCHANGED next

\* Add, up to its signal.  A job that is added again is pending again.
Enqueue(j) ==
    /\ status' = [status EXCEPT ![j] = "pending"]
    /\ next' = IF last # NoJob THEN [next EXCEPT ![last] = j] ELSE next
    /\ last' = j
    /\ first' = IF first = NoJob THEN j ELSE first
    /\ signals' = 1

InitDnsbl(j) ==
    /\ Idle /\ "clients" \in uses
    /\ j \in Clients /\ status[j] = "new"
    /\ Enqueue(j)
    /\ UNCHANGED <<uses, semaphore, shutdown, worker, job, toAdd, owner>>

\* The lookups of last time have all been done.
RefreshAddresses ==
    /\ Idle /\ "masters" \in uses
    /\ \A j \in Lookups : status[j] \in {"new", "done"}
    /\ toAdd' = Masters
    /\ UNCHANGED <<uses, status, listVars, semaphore, shutdown, worker, job, owner, signals>>

AddLookup ==
    /\ toAdd # <<>> /\ signals = 0
    /\ Enqueue(Head(toAdd))
    /\ toAdd' = Tail(toAdd)
    /\ UNCHANGED <<uses, semaphore, shutdown, worker, job, owner>>

Signal ==
    /\ signals > 0
    /\ semaphore' = semaphore + 1
    /\ signals' = signals - 1
    /\ UNCHANGED <<uses, status, listVars, shutdown, worker, job, toAdd, owner>>

\* ~CJobPool, up to its signals
Destroy ==
    /\ Idle
    /\ shutdown' = TRUE
    /\ owner' = "joining" /\ signals' = Cardinality(Joined)
    /\ UNCHANGED <<uses, status, listVars, semaphore, worker, job, toAdd>>

\* The rest of it: every thread it knows has ended.
Join ==
    /\ owner = "joining" /\ signals = 0
    /\ \A t \in Joined : worker[t] = "ended"
    /\ owner' = "destroyed"
    /\ UNCHANGED <<uses, status, listVars, semaphore, shutdown, worker, job, toAdd, signals>>

-----------------------------------------------------------------------------
(* WorkerThread                                                            *)

Goes(t, from, to) == worker[t] = from /\ worker' = [worker EXCEPT ![t] = to]

Check(t) ==
    /\ Goes(t, "checking", IF shutdown THEN "ended" ELSE "waiting")
    /\ UNCHANGED <<uses, status, listVars, semaphore, shutdown, job, toAdd, owner, signals>>

Wake(t) ==
    /\ semaphore > 0
    /\ Goes(t, "waiting", "fetching")
    /\ semaphore' = semaphore - 1
    /\ UNCHANGED <<uses, status, listVars, shutdown, job, toAdd, owner, signals>>

\* The job that is taken keeps its m_pNext.
Fetch(t) ==
    /\ first # NoJob
    /\ Goes(t, "fetching", "starting")
    /\ job' = [job EXCEPT ![t] = first]
    /\ first' = next[first]
    /\ last' = IF next[first] = NoJob THEN NoJob ELSE last
    /\ UNCHANGED <<uses, status, next, semaphore, shutdown, toAdd, owner, signals>>

FetchNothing(t) ==
    /\ first = NoJob
    /\ Goes(t, "fetching", "checking")
    /\ UNCHANGED <<uses, status, listVars, semaphore, shutdown, job, toAdd, owner, signals>>

\* RunBlocking
Run(t) ==
    /\ Goes(t, "starting", "running")
    /\ status' = [status EXCEPT ![job[t]] = "running"]
    /\ UNCHANGED <<uses, listVars, semaphore, shutdown, job, toAdd, owner, signals>>

\* Mutant: a thread does one job.
DoneAndEnds(t) ==
    /\ Goes(t, "running", "ended")
    /\ status' = [status EXCEPT ![job[t]] = "done"]
    /\ job' = [job EXCEPT ![t] = NoJob]
    /\ UNCHANGED <<uses, listVars, semaphore, shutdown, toAdd, owner, signals>>

Done(t) ==
    /\ Goes(t, "running", "checking")
    /\ status' = [status EXCEPT ![job[t]] = "done"]
    /\ job' = [job EXCEPT ![t] = NoJob]
    /\ UNCHANGED <<uses, listVars, semaphore, shutdown, toAdd, owner, signals>>

WorkerThread(t) ==
    Check(t) \/ Wake(t) \/ Fetch(t) \/ FetchNothing(t) \/ Run(t) \/ Done(t)

MainThread ==
    \/ \E j \in Clients : InitDnsbl(j)
    \/ RefreshAddresses \/ AddLookup \/ Signal \/ Destroy \/ Join

PoolNext == MainThread \/ \E t \in Threads : WorkerThread(t)

\* Every thread goes on with what it is doing, for the system schedules them all.
PoolFairness ==
    /\ WF_poolVars(AddLookup \/ Signal \/ Join)
    /\ \A t \in Threads : WF_poolVars(WorkerThread(t))

PoolSpec == PoolInit /\ [][PoolNext]_poolVars /\ PoolFairness

-----------------------------------------------------------------------------
(* Properties                                                              *)

Waiting == {j \in Jobs : status[j] = "pending" /\ \A t \in Threads : job[t] # j}

\* As long as the pool is not being destroyed, the signals given, to be given or
\* being followed are as many as the jobs that wait, and who follows one finds a
\* job that waits: no thread wakes in vain, no job is done twice, and none is left
\* that nobody would wake for.
SignalsMatchJobs ==
    LET fetching == {t \in Threads : worker[t] = "fetching"}
    IN  ~shutdown => /\ semaphore + signals + Cardinality(fetching) = Cardinality(Waiting)
                     /\ fetching # {} => first \in Waiting

\* Every job that was added ("add job to queue") is done in the end, unless the pool
\* is destroyed first; and its destruction comes to an end, as each thread gets a
\* signal, however many signals of jobs the others still follow.
JobsGetDone ==
    /\ \A j \in Jobs : status[j] = "pending" ~> status[j] = "done" \/ shutdown
    /\ shutdown ~> owner = "destroyed"
=============================================================================
