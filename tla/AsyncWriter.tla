----------------------------- MODULE AsyncWriter -----------------------------
(***************************************************************************)
(* The log file of the server: what is logged goes into a ring of bytes,   *)
(* which grows when it is full, and a thread of its own writes it to the   *)
(* file (ASYNCIO).  The lock is held within one action here, and let go    *)
(* between two.  One thread logs and ends the writer; sizes of real lines  *)
(* and buffers are scaled down, and errors of the file are left out.       *)
(***************************************************************************)
EXTENDS Integers, Sequences

CONSTANTS
    AsyncBufSize,       \* ASYNC_BUFSIZE
    AsyncLocalBufSize,  \* ASYNC_LOCAL_BUFSIZE
    MaxLine,            \* the longest line
    MaxWritten          \* bound: bytes that are logged

ASSUME AioAssumption ==
    {AsyncBufSize, AsyncLocalBufSize, MaxLine, MaxWritten} \subseteq Nat \ {0}

VARIABLES
    buf,        \* the ring: memory, read_pos and write_pos
    finish,     \* running, close or exit
    refcount,
    sphore,     \* signals that nobody has waited for yet
    thread,     \* where aio_thread is
    localBuf,   \* local_buffer
    file,       \* what is in the file
    user,       \* where the thread that logs is
    owed,       \* it has unlocked and not signalled yet
    written     \* auxiliary: bytes logged, which are numbered from 1

aioVars == <<buf, finish, refcount, sphore, thread, localBuf, file, user, owed, written>>

NewMemory(size) == [i \in 0 .. size - 1 |-> 0]

AioInit ==
    /\ buf = [mem |-> NewMemory(AsyncBufSize), size |-> AsyncBufSize, read |-> 0, write |-> 0]
    /\ finish = "running" /\ refcount = 2
    /\ sphore = 0 /\ owed = FALSE
    /\ thread = "locking" /\ localBuf = <<>> /\ file = <<>>
    /\ user = "running" /\ written = 0

-----------------------------------------------------------------------------
(* The ring.                                                               *)

BufferLen(b) == IF b.write >= b.read THEN b.write - b.read ELSE b.size + b.write - b.read

\* What buffer_ptrs points to
Contents(b) == [i \in 1 .. BufferLen(b) |-> b.mem[(b.read + i - 1) % b.size]]

\* Mutant: the ring may be filled, and is then empty.
NextBufferSizeFull(cur, need) ==
    LET double[n \in Nat] == IF n >= need - 1 THEN n ELSE double[2 * n] IN double[cur]

NextBufferSize(cur, need) ==
    LET double[n \in Nat] == IF n >= need THEN n ELSE double[2 * n] IN double[cur]

\* aio_write_unlocked
Put(b, bytes) ==
    LET size == Len(bytes)
        at(i) == (b.write + i - 1) % b.size
        next == NextBufferSize(b.size, BufferLen(b) + size + 1)
        all == Contents(b) \o bytes
    IN  IF size < b.size - BufferLen(b)
        THEN [b EXCEPT !.mem = [k \in DOMAIN b.mem |->
                                  IF \E i \in 1 .. size : at(i) = k
                                  THEN bytes[CHOOSE i \in 1 .. size : at(i) = k]
                                  ELSE b.mem[k]],
                       !.write = (b.write + size) % b.size]
        ELSE [mem |-> [k \in 0 .. next - 1 |-> IF k < Len(all) THEN all[k + 1] ELSE 0],
              size |-> next, read |-> 0, write |-> Len(all)]

-----------------------------------------------------------------------------
(* The thread that logs.                                                   *)

\* logger_file: a line and its end under one lock
AioWrite(line) ==
    LET bytes(from, n) == [i \in 1 .. n |-> from + i]
    IN  /\ user = "running" /\ ~owed /\ written + line + 1 <= MaxWritten
        /\ buf' = Put(Put(buf, bytes(written, line)), bytes(written + line, 1))
        /\ written' = written + line + 1
        /\ owed' = TRUE
        /\ UNCHANGED <<finish, refcount, sphore, thread, localBuf, file, user>>

\* sphore_signal, after the lock was let go
AioSignal ==
    /\ owed
    /\ sphore' = sphore + 1
    /\ owed' = FALSE
    /\ UNCHANGED <<buf, finish, refcount, thread, localBuf, file, user, written>>

AioClose ==
    /\ user = "running" /\ ~owed
    /\ finish' = "close" /\ user' = "closed" /\ owed' = TRUE
    /\ UNCHANGED <<buf, refcount, sphore, thread, localBuf, file, written>>

\* Mutant: the thread is told to end, but not woken up.
AioWaitUnsignalled ==
    /\ user \in {"running", "closed"} /\ ~owed
    /\ finish' = IF finish = "running" THEN "exit" ELSE finish
    /\ user' = "waiting"
    /\ UNCHANGED <<buf, refcount, sphore, thread, localBuf, file, owed, written>>

\* aio_wait up to thread_wait
AioWait ==
    /\ user \in {"running", "closed"} /\ ~owed
    /\ finish' = IF finish = "running" THEN "exit" ELSE finish
    /\ user' = "waiting" /\ owed' = TRUE
    /\ UNCHANGED <<buf, refcount, sphore, thread, localBuf, file, written>>

\* aio_free, after aio_wait or, of a writer that was closed, without it
AioFree ==
    /\ ~owed /\ (user = "closed" \/ (user = "waiting" /\ thread = "ended"))
    /\ refcount' = refcount - 1 /\ user' = "freed"
    /\ UNCHANGED <<buf, finish, sphore, thread, localBuf, file, owed, written>>

-----------------------------------------------------------------------------
(* aio_thread.                                                             *)

MayEnd == BufferLen(buf) = 0 /\ finish # "running"

ThreadEnds ==
    /\ thread = "locking" /\ MayEnd
    /\ thread' = "ended" /\ refcount' = refcount - 1
    /\ UNCHANGED <<buf, finish, sphore, localBuf, file, user, owed, written>>

ThreadFindsNothing ==
    /\ thread = "locking" /\ BufferLen(buf) = 0 /\ ~MayEnd
    /\ thread' = "sleeping"
    /\ UNCHANGED <<buf, finish, refcount, sphore, localBuf, file, user, owed, written>>

ThreadWakes ==
    /\ thread = "sleeping" /\ sphore > 0
    /\ sphore' = sphore - 1 /\ thread' = "locking"
    /\ UNCHANGED <<buf, finish, refcount, localBuf, file, user, owed, written>>

\* As much as fits into local_buffer
ThreadTakes ==
    LET n == BufferLen(buf)
        k == IF n > AsyncLocalBufSize THEN AsyncLocalBufSize ELSE n
    IN  /\ thread = "locking" /\ n > 0 /\ ~MayEnd
        /\ localBuf' = SubSeq(Contents(buf), 1, k)
        /\ buf' = [buf EXCEPT !.read = (buf.read + k) % buf.size]
        /\ thread' = "writing"
        /\ UNCHANGED <<finish, refcount, sphore, file, user, owed, written>>

ThreadWrites ==
    /\ thread = "writing"
    /\ file' = file \o localBuf /\ localBuf' = <<>>
    /\ thread' = "locking"
    /\ UNCHANGED <<buf, finish, refcount, sphore, user, owed, written>>

AioThread == ThreadEnds \/ ThreadFindsNothing \/ ThreadWakes \/ ThreadTakes \/ ThreadWrites

\* Both threads go on with what they have begun; nobody need log or end the writer.
AioFairness == WF_aioVars(AioThread) /\ WF_aioVars(AioSignal)

AioUser == (\E line \in 1 .. MaxLine : AioWrite(line)) \/ AioSignal \/ AioClose \/ AioWait \/ AioFree

AioSpec == AioInit /\ [][AioUser \/ AioThread]_aioVars /\ AioFairness

-----------------------------------------------------------------------------
(* Properties                                                              *)

\* However the ring wraps around and grows, what was logged is in the file, in the
\* hands of the thread or in the ring, in the order it was logged and once.
AioKeepsAll == file \o localBuf \o Contents(buf) = [i \in 1 .. written |-> i]

\* Who waits for the writer goes on, and then everything is in the file; a writer
\* that was closed and freed without a wait ends as well, with everything written,
\* and nothing refers to it any more.
AioEnds ==
    /\ user = "waiting" ~> thread = "ended" /\ Len(file) = written
    /\ user = "freed" ~> refcount = 0 /\ Len(file) = written
=============================================================================
