------------------------ MODULE NetConnection_proofs ------------------------
(***************************************************************************)
(* Proofs about NetConnection, for every size of the number space, the      *)
(* resend buffer, the packets and the bounds.                               *)
(***************************************************************************)
EXTENDS NetConnection, SequenceTheorems, WellFoundedInduction, TLAPS

(* Arithmetic modulo NET_MAX_SEQUENCE.                                     *)

\* A number has one remainder.
LEMMA ModUnique ==
    ASSUME NEW M \in Nat \ {0}, NEW x \in Int, NEW j \in Int, NEW r \in Int,
           x = M * j + r, 0 <= r, r < M
    PROVE  x % M = r
  BY Z3

\* The division of an integer by a positive number, and its remainder.
LEMMA ModDivision ==
    ASSUME NEW M \in Nat \ {0}, NEW x \in Int
    PROVE  /\ x \div M \in Int
           /\ x % M \in Int
           /\ x = M * (x \div M) + (x % M)
           /\ 0 <= x % M
           /\ x % M < M
  BY Z3

\* The remainder of a number at most one turn after k, from that of k.
LEMMA ModShift ==
    ASSUME NEW M \in Nat \ {0}, NEW k \in Int, NEW x \in Int,
           k <= x, x < k + M
    PROVE  x % M = IF (k % M) + (x - k) < M
                   THEN (k % M) + (x - k) ELSE (k % M) + (x - k) - M
<1> DEFINE j == k \div M
           r == k % M
<1>1. j \in Int /\ r \in Int /\ k = M * j + r /\ 0 <= r /\ r < M
  BY ModDivision
<1> HIDE DEF j, r
<1> DEFINE near == r + (x - k)
           wrapped == r + (x - k) - M
<1>2. /\ near \in Int /\ x = M * j + near /\ 0 <= near
      /\ wrapped \in Int /\ x = M * (j + 1) + wrapped /\ wrapped < M
      /\ j + 1 \in Int
  <2>1. M * (j + 1) = M * j + M /\ M * j \in Int  BY <1>1, Z3
  <2>. QED  BY <1>1, <2>1
<1>3. near = wrapped + M  BY <1>1
<1> HIDE DEF near, wrapped
<1>4. CASE near < M
  <2>1. x % M = near  BY <1>1, <1>2, <1>4, ModUnique, Zenon
  <2>. QED  BY <1>4, <2>1 DEF near, r
<1>5. CASE ~(near < M)
  <2>1. 0 <= wrapped  BY <1>2, <1>3, <1>5
  <2>2. x % M = wrapped  BY <1>2, <2>1, ModUnique, Zenon
  <2>. QED  BY <1>5, <2>2 DEF near, wrapped, r
<1>. QED  BY <1>4, <1>5

\* Numbers less than one turn apart differ when their remainders do.
LEMMA ModEqual ==
    ASSUME NEW M \in Nat \ {0}, NEW x \in Int, NEW y \in Int,
           x % M = y % M, x - y < M, y - x < M
    PROVE  x = y
<1>1. ASSUME NEW k \in Int, NEW z \in Int, k <= z, z < k + M, z % M = k % M
      PROVE  z = k
  <2>2. (k % M) \in Int /\ 0 <= k % M /\ k % M < M  BY ModDivision
  <2>3. z % M = IF (k % M) + (z - k) < M
                THEN (k % M) + (z - k) ELSE (k % M) + (z - k) - M
    BY <1>1, ModShift, Zenon
  <2> DEFINE r == k % M
  <2> HIDE DEF r
  <2>4. r = IF r + (z - k) < M THEN r + (z - k) ELSE r + (z - k) - M
    BY <1>1, <2>3 DEF r
  <2>. QED  BY <1>1, <2>2, <2>4 DEF r
<1>2. x < y + M /\ y < x + M /\ (x <= y \/ y <= x)  OBVIOUS
<1>3. CASE x <= y  BY <1>1, <1>2, <1>3, Zenon
<1>4. CASE y <= x  BY <1>1, <1>2, <1>4, Zenon
<1>. QED  BY <1>2, <1>3, <1>4

\* Whole groups of M in x, and the remainder.
LEMMA Groups ==
    ASSUME NEW M \in Nat \ {0}, NEW x \in Nat
    PROVE  /\ x \div M \in Nat
           /\ (x \div M) * M \in Nat
           /\ (x \div M) * M <= x
           /\ x - (x \div M) * M < M
<1> DEFINE q == x \div M
           r == x % M
<1>1. q \in Int /\ r \in Int /\ x = M * q + r /\ 0 <= r /\ r < M  BY ModDivision
<1>2. q \in Nat  BY Z3
<1> HIDE DEF q, r
<1>3. M * q = q * M /\ q * M \in Nat  BY <1>2, Z3
<1>. QED  BY <1>1, <1>2, <1>3 DEF q

\* The k-th of f groups of M.
LEMMA GroupBounds ==
    ASSUME NEW M \in Nat \ {0}, NEW f \in Nat, NEW k \in 1 .. f
    PROVE  /\ (k - 1) * M \in Nat
           /\ k * M = (k - 1) * M + M
           /\ k * M <= f * M
<1>1. k \in Nat /\ k - 1 \in Nat /\ f - k \in Nat  OBVIOUS
<1>2. \A a \in Nat : a * M \in Nat  BY Z3
<1>3. k * M = (k - 1) * M + M  BY <1>1, Z3
<1>4. f * M = k * M + (f - k) * M  BY <1>1, Z3
<1>. QED  BY <1>1, <1>2, <1>3, <1>4

\* QueueChunk's increment: the successor of the number of k is that of k + 1.
LEMMA SuccessorOf ==
    ASSUME NEW k \in Nat
    PROVE  /\ (k % NET_MAX_SEQUENCE) \in SequenceNumber
           /\ Successor(k % NET_MAX_SEQUENCE) = (k + 1) % NET_MAX_SEQUENCE
<1> DEFINE M == NET_MAX_SEQUENCE
           r == k % M
<1>1. M \in Nat \ {0}  BY SizeAssumption
<1>2. r \in Int /\ 0 <= r /\ r < M  BY <1>1, ModDivision
<1>3. r % M = r
  BY <1>1, <1>2, ModUnique, r = M * 0 + r
<1>4. (r + 1) % M = IF r + 1 < M THEN r + 1 ELSE r + 1 - M
  <2>1. CASE r + 1 < M
    BY <1>1, <1>2, <2>1, ModUnique, r + 1 = M * 0 + (r + 1)
  <2>2. CASE r + 1 = M
    BY <1>1, <1>2, <2>2, ModUnique, r + 1 = M * 1 + 0
  <2>. QED  BY <1>1, <1>2, <2>1, <2>2
<1>5. CASE M = 1
  <2>1. r = 0  BY <1>2, <1>5
  <2>2. (k + 1) % M \in Int /\ 0 <= (k + 1) % M /\ (k + 1) % M < M
    BY <1>1, ModDivision
  <2>. QED  BY <1>1, <1>2, <1>4, <1>5, <2>1, <2>2 DEF Successor, SequenceNumber
<1>6. CASE M # 1
  <2>1. k <= k + 1 /\ k + 1 < k + M /\ k \in Int /\ k + 1 \in Int
    BY <1>1, <1>6
  <2>2. (k + 1) % M = IF r + ((k + 1) - k) < M
                      THEN r + ((k + 1) - k) ELSE r + ((k + 1) - k) - M
    BY <1>1, <2>1, ModShift, Zenon
  <2>. HIDE DEF r
  <2>3. (k + 1) % M = IF r + 1 < M THEN r + 1 ELSE r + 1 - M
    BY <1>2, <2>2
  <2>. QED  BY <1>1, <1>2, <1>4, <2>3 DEF Successor, SequenceNumber, r
<1>. QED  BY <1>5, <1>6

\* Within half a turn, IsSeqInBackroom compares the unwrapped numbers.
LEMMA BackroomOf ==
    ASSUME NEW n \in Nat, NEW k \in Nat,
           n - k <= BufferChunks, k - n <= BufferChunks
    PROVE  IsSeqInBackroom(n % NET_MAX_SEQUENCE, k % NET_MAX_SEQUENCE) <=> n <= k
<1> DEFINE M == NET_MAX_SEQUENCE
           H == M \div 2
           rk == k % M
           rn == n % M
<1>1. M \in Nat \ {0} /\ BufferChunks \in Nat /\ 2 * BufferChunks < M
  BY SizeAssumption, BufferAssumption
<1>2. H \in Nat /\ 2 * H <= M /\ M <= 2 * H + 1  BY <1>1
<1>3. /\ rk \in Int /\ 0 <= rk /\ rk < M
      /\ rn \in Int /\ 0 <= rn /\ rn < M
  BY <1>1, ModDivision
<1>4. k <= n => rn = IF rk + (n - k) < M THEN rk + (n - k) ELSE rk + (n - k) - M
  <2>1. SUFFICES ASSUME k <= n PROVE
            n % M = IF (k % M) + (n - k) < M THEN (k % M) + (n - k)
                                             ELSE (k % M) + (n - k) - M
    OBVIOUS
  <2>2. n \in Int /\ k \in Int /\ n < k + M  BY <1>1
  <2>. QED  BY <1>1, <2>1, <2>2, ModShift, Zenon
<1>5. n <= k => rk = IF rn + (k - n) < M THEN rn + (k - n) ELSE rn + (k - n) - M
  <2>1. SUFFICES ASSUME n <= k PROVE
            k % M = IF (n % M) + (k - n) < M THEN (n % M) + (k - n)
                                             ELSE (n % M) + (k - n) - M
    OBVIOUS
  <2>2. n \in Int /\ k \in Int /\ k < n + M  BY <1>1
  <2>. QED  BY <1>1, <2>1, <2>2, ModShift, Zenon
<1> HIDE DEF rk, rn, H
<1>6. IsSeqInBackroom(rn, rk) <=> IF rk - H < 0 THEN rn <= rk \/ rn >= rk - H + M
                                                ELSE rn <= rk /\ rn >= rk - H
  BY DEF IsSeqInBackroom, H
<1>7. CASE n <= k  BY <1>1, <1>2, <1>3, <1>5, <1>6, <1>7 DEF rk, rn
<1>8. CASE k < n  BY <1>1, <1>2, <1>3, <1>4, <1>6, <1>8 DEF rk, rn
<1>. QED  BY <1>7, <1>8

\* Feed's window test, on unwrapped numbers: with p the last number known to be
\* acknowledged and q the last one used, an acknowledgement k that is not a
\* whole turn behind passes only if it is not before p.
LEMMA WindowOf ==
    ASSUME NEW c, NEW p \in Nat, NEW q \in Nat, NEW k \in Nat,
           p <= q, k <= q, q < k + NET_MAX_SEQUENCE,
           c.sequence = q % NET_MAX_SEQUENCE,
           c.peerAck = p % NET_MAX_SEQUENCE,
           AckInWindow(c, k % NET_MAX_SEQUENCE)
    PROVE  p <= k
<1> DEFINE M == NET_MAX_SEQUENCE
           rk == k % M
           rp == p % M
           rq == q % M
<1>1. SUFFICES ASSUME k < p PROVE FALSE
  OBVIOUS
<1>2. M \in Nat \ {0}  BY SizeAssumption
<1>3. rk \in Int /\ 0 <= rk /\ rk < M
  BY <1>2, ModDivision
<1>4. rp = IF rk + (p - k) < M THEN rk + (p - k) ELSE rk + (p - k) - M
  <2>1. p \in Int /\ k \in Int /\ k <= p /\ p < k + M  BY <1>1, <1>2
  <2>. QED  BY <1>2, <2>1, ModShift, Zenon
<1>5. rq = IF rk + (q - k) < M THEN rk + (q - k) ELSE rk + (q - k) - M
  <2>1. q \in Int /\ k \in Int  OBVIOUS
  <2>. QED  BY <1>2, <2>1, ModShift, Zenon
<1>6. IF rq >= rp THEN rp <= rk /\ rk <= rq ELSE rp <= rk \/ rk <= rq
  BY DEF AckInWindow
<1> HIDE DEF rk, rp, rq
<1>. QED  BY <1>1, <1>2, <1>3, <1>4, <1>5, <1>6

-----------------------------------------------------------------------------
(* What the connection's functions do to a connection whose chunks are all  *)
(* in a set S, when the end has received n chunks.                          *)

ConnectionOver(S) ==
    {c \in [state : {"ONLINE", "ERROR", "OFFLINE"},
            sequence : SequenceNumber, ack : SequenceNumber,
            peerAck : SequenceNumber,
            buffer : Seq(S), construct : Seq(S), resendFlag : BOOLEAN,
            remoteClosed : BOOLEAN, timeoutSituation : BOOLEAN] :
        Len(c.construct) <= PacketChunks}

PacketOver(S) ==
    {p \in [kind : {"chunks", "keepalive", "close"}, ack : SequenceNumber,
            resend : BOOLEAN, chunks : Seq(S), acked : Nat] :
        Len(p.chunks) <= PacketChunks}

\* Packets of a connection that acknowledges a, its end having received n.
Acking(packets, a, n) == \A p \in packets : p.ack = a /\ p.acked = n

\* Only the packet under construction differs between c and d.
SameButConstruct(c, d) ==
    /\ d.state = c.state /\ d.sequence = c.sequence
    /\ d.ack = c.ack /\ d.peerAck = c.peerAck /\ d.buffer = c.buffer
    /\ d.remoteClosed = c.remoteClosed
    /\ d.timeoutSituation = c.timeoutSituation

\* r.conn is c after sending r.sent.
Sends(S, c, n, r) ==
    /\ r.conn \in ConnectionOver(S)
    /\ SameButConstruct(c, r.conn)
    /\ r.sent \in SUBSET PacketOver(S)
    /\ Acking(r.sent, c.ack, n)

\* What the count byte of a packet leaves is a prefix of the packet's chunks.
LEMMA OnWireOver ==
    ASSUME NEW S, NEW s \in Seq(S)
    PROVE  OnWire(s) \in Seq(S) /\ Len(OnWire(s)) <= Len(s)
<1>1. Len(s) \in Nat /\ CountModulus \in Nat \ {0}
  BY SizeAssumption, LenProperties
<1>2. PICK m \in Int : m = Len(s) % CountModulus /\ 0 <= m /\ m <= Len(s)
  <2>1. Len(s) = CountModulus * (Len(s) \div CountModulus) + (Len(s) % CountModulus)
        /\ Len(s) \div CountModulus \in Int
        /\ Len(s) % CountModulus \in Int /\ 0 <= Len(s) % CountModulus
    BY <1>1, ModDivision
  <2>2. Len(s) \div CountModulus \in Nat  BY <1>1, Z3
  <2>3. ASSUME NEW d \in Nat, NEW k \in Nat \ {0} PROVE k * d \in Nat
    BY <2>3, Z3
  <2>4. CountModulus * (Len(s) \div CountModulus) \in Nat  BY <1>1, <2>2, <2>3
  <2>. QED  BY <1>1, <2>1, <2>4
<1>3. \A i \in 1 .. m : s[i] \in S
  BY <1>1, <1>2, ElementOfSeq
<1>. QED  BY <1>1, <1>2, <1>3, SubSeqProperties DEF OnWire

\* The packet Flush builds holds chunks of S and the current acknowledgement.
LEMMA DataPacketOver ==
    ASSUME NEW S, NEW c \in ConnectionOver(S), NEW s \in Seq(S),
           Len(s) <= PacketChunks, NEW resend \in BOOLEAN, NEW n \in Nat
    PROVE  /\ DataPacket(c, s, resend, n) \in PacketOver(S)
           /\ DataPacket(c, s, resend, n).ack = c.ack
           /\ DataPacket(c, s, resend, n).acked = n
<1>1. OnWire(s) \in Seq(S) /\ Len(OnWire(s)) <= Len(s)  BY OnWireOver
<1>2. Len(OnWire(s)) \in Nat /\ Len(s) \in Nat /\ PacketChunks \in Nat
  BY <1>1, LenProperties, SizeAssumption
<1>3. c.ack \in SequenceNumber  BY DEF ConnectionOver
<1>. QED  BY <1>1, <1>2, <1>3 DEF DataPacket, PacketOver

\* The packet SendControl builds holds no chunk and the current acknowledgement.
LEMMA ControlOver ==
    ASSUME NEW S, NEW c \in ConnectionOver(S), NEW n \in Nat,
           NEW kind \in {"keepalive", "close"}
    PROVE  /\ {Control(c, kind, n)} \in SUBSET PacketOver(S)
           /\ Acking({Control(c, kind, n)}, c.ack, n)
<1>1. c.ack \in SequenceNumber  BY DEF ConnectionOver
<1>2. <<>> \in Seq(S) /\ Len(<<>>) = 0  BY EmptySeq
<1>. QED  BY <1>1, <1>2, SizeAssumption DEF Control, PacketOver, Acking

\* Flush sends only chunks of the connection, and changes only m_Construct.
LEMMA FlushSends ==
    ASSUME NEW S, NEW c \in ConnectionOver(S), NEW n \in Nat
    PROVE  Sends(S, c, n, Flush(c, n))
<1>1. CASE c.construct = <<>> /\ ~c.resendFlag
  BY <1>1 DEF Flush, Sends, SameButConstruct, Acking
<1>2. CASE ~(c.construct = <<>> /\ ~c.resendFlag)
  <2> DEFINE d == [c EXCEPT !.construct = <<>>, !.resendFlag = FALSE]
             p == DataPacket(c, c.construct, c.resendFlag, n)
  <2>0. <<>> \in Seq(S) /\ Len(<<>>) <= PacketChunks
    BY EmptySeq, SizeAssumption
  <2>1. d \in ConnectionOver(S) /\ SameButConstruct(c, d)
    <3>1. d \in ConnectionOver(S)  BY <2>0 DEF ConnectionOver
    <3>2. SameButConstruct(c, d)  BY DEF ConnectionOver, SameButConstruct
    <3>. QED  BY <3>1, <3>2
  <2>2. p \in PacketOver(S) /\ p.ack = c.ack /\ p.acked = n
    BY DataPacketOver DEF ConnectionOver
  <2>. HIDE DEF d, p
  <2>3. Sends(S, c, n, [conn |-> d, sent |-> {p}])
    BY <2>1, <2>2 DEF Sends, Acking
  <2>. QED  BY <1>2, <2>3 DEF Flush, d, p
<1>. QED  BY <1>1, <1>2

\* QueueChunkEx sends, or keeps in m_Construct, only what the connection holds
\* and what it is given, however many packets the chunks fill.
LEMMA QueueChunksSends ==
    ASSUME NEW S, NEW c \in ConnectionOver(S), NEW chunks \in Seq(S), NEW n \in Nat
    PROVE  Sends(S, c, n, QueueChunks(c, chunks, n))
<1> DEFINE all == c.construct \o chunks
           L == Len(all)
           P == PacketChunks
           full == IF all = <<>> THEN 0 ELSE (L - 1) \div P
           Full(k) == SubSeq(all, (k - 1) * P + 1, k * P)
           rest == SubSeq(all, full * P + 1, L)
           flag == c.resendFlag /\ full = 0
           d == [c EXCEPT !.construct = rest, !.resendFlag = flag]
           sent == {DataPacket(c, Full(k), c.resendFlag /\ k = 1, n) : k \in 1 .. full}
<1>1. /\ all \in Seq(S) /\ L \in Nat /\ (all = <<>> => L = 0)
      /\ (all # <<>> => L > 0)
      /\ \A i \in 1 .. L : all[i] \in S
  <2>1. all \in Seq(S)  BY ConcatProperties DEF ConnectionOver
  <2>. QED  BY <2>1, LenProperties, EmptySeq, ElementOfSeq
<1>2. P \in Nat \ {0}  BY SizeAssumption
\* full packets, and a rest that fits one
<1>3. full \in Nat /\ full * P \in Nat /\ full * P <= L /\ L - full * P <= P
  <2>1. CASE all = <<>>
    <3>1. full = 0 /\ L = 0  BY <1>1, <2>1
    <3>2. full * P = 0  BY <1>2, <3>1
    <3>. QED  BY <1>2, <3>1, <3>2
  <2>2. CASE all # <<>>
    <3>1. L - 1 \in Nat /\ full = (L - 1) \div P  BY <1>1, <2>2
    <3>2. /\ (L - 1) \div P \in Nat
          /\ ((L - 1) \div P) * P \in Nat
          /\ ((L - 1) \div P) * P <= L - 1
          /\ (L - 1) - ((L - 1) \div P) * P < P
      BY <1>2, <3>1, Groups
    <3> HIDE DEF full, L, P
    <3>3. full \in Nat /\ full * P \in Nat /\ full * P <= L - 1 /\ (L - 1) - full * P < P
      BY <3>1, <3>2
    <3>. QED  BY <1>1, <1>2, <3>3
  <2>. QED  BY <2>1, <2>2
<1>4. ASSUME NEW k \in 1 .. full
      PROVE  Full(k) \in Seq(S) /\ Len(Full(k)) <= P
  <2> DEFINE lo == (k - 1) * P
             hi == k * P
  <2>1. lo \in Nat /\ hi = lo + P /\ hi <= full * P
    <3> HIDE DEF full, P
    <3>. QED  BY <1>2, <1>3, GroupBounds
  <2> HIDE DEF lo, hi, all, full, L, P
  <2>3. \A i \in lo + 1 .. hi : all[i] \in S
    <3>1. SUFFICES ASSUME NEW i \in lo + 1 .. hi PROVE i \in 1 .. L
      BY <1>1
    <3>. QED  BY <1>1, <1>2, <1>3, <2>1
  <2>4. lo + 1 \in Int /\ hi \in Int /\ lo + 1 <= hi /\ hi - (lo + 1) + 1 = P
    BY <1>2, <2>1
  <2>5. /\ SubSeq(all, lo + 1, hi) \in Seq(S)
        /\ Len(SubSeq(all, lo + 1, hi)) = hi - (lo + 1) + 1
    BY <2>3, <2>4, SubSeqProperties
  <2>. QED  BY <1>2, <2>4, <2>5 DEF lo, hi
<1>5. rest \in Seq(S) /\ Len(rest) <= P
  <2>. HIDE DEF all, full
  <2>1. \A i \in full * P + 1 .. L : all[i] \in S  BY <1>1, <1>3
  <2>2. full * P + 1 \in Int /\ L \in Int  BY <1>1, <1>3
  <2>3. /\ SubSeq(all, full * P + 1, L) \in Seq(S)
        /\ Len(SubSeq(all, full * P + 1, L)) =
              IF full * P + 1 <= L THEN L - (full * P + 1) + 1 ELSE 0
    BY <2>1, <2>2, SubSeqProperties
  <2>. QED  BY <1>1, <1>2, <1>3, <2>3
<1>6. d \in ConnectionOver(S) /\ SameButConstruct(c, d)
  <2>. flag \in BOOLEAN  OBVIOUS
  <2>. HIDE DEF rest, flag
  <2>1. d \in ConnectionOver(S)  BY <1>5 DEF ConnectionOver
  <2>2. SameButConstruct(c, d)  BY DEF ConnectionOver, SameButConstruct
  <2>. QED  BY <2>1, <2>2
<1>7. sent \in SUBSET PacketOver(S) /\ Acking(sent, c.ack, n)
  <2>1. SUFFICES ASSUME NEW k \in 1 .. full
                 PROVE  LET p == DataPacket(c, Full(k), c.resendFlag /\ k = 1, n)
                        IN  p \in PacketOver(S) /\ p.ack = c.ack /\ p.acked = n
    BY DEF Acking
  <2>2. Full(k) \in Seq(S) /\ Len(Full(k)) <= PacketChunks  BY <1>4
  <2>3. (c.resendFlag /\ k = 1) \in BOOLEAN  OBVIOUS
  <2> HIDE DEF Full
  <2>4. ASSUME NEW s \in Seq(S), Len(s) <= PacketChunks, NEW b \in BOOLEAN
        PROVE  LET p == DataPacket(c, s, b, n)
               IN  p \in PacketOver(S) /\ p.ack = c.ack /\ p.acked = n
    BY <2>4, DataPacketOver
  <2>. QED  BY <2>2, <2>3, <2>4
<1>. HIDE DEF d, sent
<1>8. Sends(S, c, n, [conn |-> d, sent |-> sent])  BY <1>6, <1>7 DEF Sends
<1>. QED  BY <1>8 DEF QueueChunks, d, sent

\* Update's timer resend repeats only the oldest chunk of m_Buffer.
LEMMA UpdateResendSends ==
    ASSUME NEW S, NEW c \in ConnectionOver(S), NEW n \in Nat, NEW retry \in BOOLEAN
    PROVE  Sends(S, c, n, UpdateResend(c, retry, n))
<1>1. CASE retry /\ c.buffer # <<>> /\ c.state = "ONLINE"
  <2>1. c.buffer \in Seq(S)  BY DEF ConnectionOver
  <2>2. Head(c.buffer) \in S  BY <1>1, <2>1, HeadTailProperties
  <2>3. <<Head(c.buffer)>> \in Seq(S)  BY <2>2
  <2>. QED  BY <1>1, <2>3, QueueChunksSends DEF UpdateResend
<1>2. CASE ~(retry /\ c.buffer # <<>> /\ c.state = "ONLINE")
  BY <1>2 DEF UpdateResend, Sends, SameButConstruct, Acking
<1>. QED  BY <1>1, <1>2

\* Update's timed flush or keep-alive sends only what the connection holds.
LEMMA UpdateFlushSends ==
    ASSUME NEW S, NEW c \in ConnectionOver(S), NEW n \in Nat, NEW clock
    PROVE  Sends(S, c, n, UpdateFlush(c, clock, n))
<1> DEFINE f == Flush(c, n)
<1>1. Sends(S, c, n, f)  BY FlushSends
<1>2. {Control(c, "keepalive", n)} \in SUBSET PacketOver(S)
      /\ Acking({Control(c, "keepalive", n)}, c.ack, n)
  BY ControlOver
<1> HIDE DEF f
<1>3. CASE c.state # "ONLINE" \/ clock = "recent"
  BY <1>3 DEF UpdateFlush, Sends, SameButConstruct, Acking
<1>4. CASE ~(c.state # "ONLINE" \/ clock = "recent")
  <2>1. UpdateFlush(c, clock, n) =
          [conn |-> f.conn,
           sent |-> IF clock = "quiet" /\ f.sent = {}
                    THEN {Control(c, "keepalive", n)} ELSE f.sent]
    BY <1>4 DEF UpdateFlush, f
  <2>. QED  BY <1>1, <1>2, <2>1 DEF Sends
<1>. QED  BY <1>3, <1>4

\* Update's time-outs only put the connection into its error state.
LEMMA UpdateTimeoutOver ==
    ASSUME NEW S, NEW c \in ConnectionOver(S), NEW expired \in BOOLEAN
    PROVE  LET d == UpdateTimeout(c, expired)
           IN  /\ d \in ConnectionOver(S)
               /\ d.state = "ONLINE" => c.state # "ERROR"
               /\ d.state = "OFFLINE" => c.state = "OFFLINE"
               /\ d.sequence = c.sequence /\ d.ack = c.ack
               /\ d.peerAck = c.peerAck /\ d.buffer = c.buffer
<1>1. CASE c.state = "ERROR"
  BY <1>1 DEF UpdateTimeout, ConnectionOver
<1>2. CASE c.state # "ERROR" /\ expired
  BY <1>2 DEF UpdateTimeout, TimeOut, ConnectionOver
<1>3. CASE c.state # "ERROR" /\ ~expired
  BY <1>3 DEF UpdateTimeout, ConnectionOver
<1>. QED  BY <1>1, <1>2, <1>3

\* Disconnect resets the connection and sends at most a close packet.
LEMMA DisconnectOver ==
    ASSUME NEW S, NEW c \in ConnectionOver(S), NEW n \in Nat
    PROVE  LET r == Disconnect(c, n)
           IN  /\ r.conn \in ConnectionOver(S)
               /\ r.conn.state = "OFFLINE"
               /\ r.sent \in SUBSET PacketOver(S)
               /\ Acking(r.sent, c.ack, n)
<1>1. {Control(c, "close", n)} \in SUBSET PacketOver(S)
      /\ Acking({Control(c, "close", n)}, c.ack, n)
  BY ControlOver
<1>2. Reset(c) \in ConnectionOver(S) /\ Reset(c).state = "OFFLINE"
  <2>1. <<>> \in Seq(S) /\ Len(<<>>) <= PacketChunks  BY EmptySeq, SizeAssumption
  <2>2. 0 \in SequenceNumber  BY SizeAssumption DEF SequenceNumber
  <2>. QED  BY <2>1, <2>2 DEF Reset, Fresh, ConnectionOver
<1>. QED  BY <1>1, <1>2 DEF Disconnect, Acking

\* A set of numbers has a smallest one.
LEMMA SmallestOf ==
    ASSUME NEW T \in SUBSET Nat, T # {}
    PROVE  \E m \in T : \A i \in T : m <= i
<1>1. PICK m \in T : \A i \in T : ~(<<i, m>> \in OpToRel(<, Nat))
  <2>1. IsWellFoundedOn(OpToRel(<, Nat), Nat)  BY NatLessThanWellFounded
  <2>. QED  BY <2>1, WFMin, Zenon
<1>2. m \in Nat  OBVIOUS
<1>3. ASSUME NEW i \in T PROVE m <= i
  <2>1. i \in Nat  OBVIOUS
  <2>2. ~(i < m)  BY <1>1, <1>2, <2>1 DEF OpToRel
  <2>. QED  BY <1>2, <2>1, <2>2
<1>. QED  BY <1>3

\* AckChunks keeps a suffix.
LEMMA AckChunksSuffix ==
    ASSUME NEW S, NEW buffer \in Seq(S), NEW a
    PROVE  \E k \in 0 .. Len(buffer) :
              /\ k = Acknowledged(buffer, a)
              /\ \A i \in 1 .. k : IsSeqInBackroom(buffer[i].sequence, a)
              /\ k < Len(buffer) => ~IsSeqInBackroom(buffer[k + 1].sequence, a)
              /\ AckChunks(buffer, a) \in Seq(S)
              /\ Len(AckChunks(buffer, a)) = Len(buffer) - k
              /\ \A i \in 1 .. Len(buffer) - k : AckChunks(buffer, a)[i] = buffer[k + i]
<1> DEFINE L == Len(buffer)
           Back(i) == IsSeqInBackroom(buffer[i].sequence, a)
           Good(k) == (\A i \in 1 .. k : Back(i)) /\ (k < L => ~Back(k + 1))
<1>1. L \in Nat  BY LenProperties
<1>2. \E k \in 0 .. L : Good(k)
  <2> DEFINE Bad == {i \in 1 .. L : ~Back(i)}
  <2>1. CASE Bad = {}
    <3>1. Good(L)  BY <1>1, <2>1
    <3>. QED  BY <1>1, <3>1
  <2>2. CASE Bad # {}
    <3>1. PICK m \in Bad : \A i \in Bad : m <= i
      <4>1. Bad \in SUBSET Nat  OBVIOUS
      <4>. HIDE DEF Bad
      <4>. QED  BY <2>2, <4>1, SmallestOf
    <3>2. m \in 1 .. L /\ m - 1 \in 0 .. L /\ ~Back(m)  BY <1>1, <3>1
    <3>3. \A i \in 1 .. m - 1 : Back(i)  BY <1>1, <3>1
    <3>4. Good(m - 1)
      <4>1. (m - 1) + 1 = m  BY <3>2
      <4> HIDE DEF Back
      <4>. QED  BY <3>2, <3>3, <4>1
    <3>. QED  BY <3>2, <3>4
  <2>. QED  BY <2>1, <2>2
<1> DEFINE k == CHOOSE j \in 0 .. L : Good(j)
<1>3. k \in 0 .. L /\ Good(k)  BY <1>2
<1>4. k = Acknowledged(buffer, a)  BY DEF Acknowledged
<1> HIDE DEF k
<1>5. \A i \in k + 1 .. L : buffer[i] \in S  BY <1>1, <1>3, ElementOfSeq
<1>6. /\ SubSeq(buffer, k + 1, L) \in Seq(S)
      /\ Len(SubSeq(buffer, k + 1, L)) = IF k + 1 <= L THEN L - (k + 1) + 1 ELSE 0
      /\ \A i \in 1 .. L - (k + 1) + 1 : SubSeq(buffer, k + 1, L)[i] = buffer[(k + 1) + i - 1]
  <2>1. k + 1 \in Int /\ L \in Int  BY <1>1, <1>3
  <2>. QED  BY <1>5, <2>1, SubSeqProperties
<1>7. AckChunks(buffer, a) = SubSeq(buffer, k + 1, L)  BY <1>4 DEF AckChunks
<1>8. Len(AckChunks(buffer, a)) = L - k  BY <1>1, <1>3, <1>6, <1>7
<1>9. \A i \in 1 .. L - k : AckChunks(buffer, a)[i] = buffer[k + i]
  <2>1. SUFFICES ASSUME NEW i \in 1 .. L - k
                 PROVE  AckChunks(buffer, a)[i] = buffer[k + i]
    OBVIOUS
  <2>2. i \in 1 .. L - (k + 1) + 1 /\ (k + 1) + i - 1 = k + i  BY <1>1, <1>3
  <2>. QED  BY <1>6, <1>7, <2>2
<1>. QED  BY <1>3, <1>4, <1>6, <1>7, <1>8, <1>9

-----------------------------------------------------------------------------
(* The inductive invariant.                                                *)

\* The first n vital chunks of an end.
Numbered(n) ==
    {[sequence |-> m % NET_MAX_SEQUENCE, payload |-> m] : m \in 1 .. n}

\* The connection, the packets and the unpacker of an end that queued q chunks
\* and received n.
GoodConnection(c, q, n) ==
    /\ c \in ConnectionOver(Numbered(q))
    /\ c.state = "ONLINE" => c.sequence = q % NET_MAX_SEQUENCE
    /\ c.state # "OFFLINE" => c.ack = n % NET_MAX_SEQUENCE

GoodPackets(packets, q, n) ==
    /\ packets \in SUBSET PacketOver(Numbered(q))
    /\ \A p \in packets : p.ack = p.acked % NET_MAX_SEQUENCE /\ p.acked <= n

GoodUnpacker(chunks, q) ==
    chunks \in Seq(Numbered(q)) /\ Len(chunks) <= PacketChunks

\* What either end has and has sent is numbered and acknowledged truly.
Numbering ==
    /\ TypeOK
    /\ \A e \in End :
        /\ GoodConnection(conn[e], queued[e], Len(delivered[e]))
        /\ GoodPackets(wire[e], queued[e], Len(delivered[e]))
        /\ GoodUnpacker(unpacker[e], queued[Peer(e)])

\* m_Buffer of an end that queued q chunks, of which n were received, holds the
\* last ones without a gap, from the one after m_PeerAck.
Window(c, q, n) ==
    LET b == Len(c.buffer)
    IN  c.state = "ONLINE" =>
            /\ b <= BufferChunks
            /\ b <= q
            /\ q - b <= n
            /\ c.peerAck = (q - b) % NET_MAX_SEQUENCE
            /\ \A i \in 1 .. b : c.buffer[i].payload = (q - b) + i

\* The chunks the unpacker still holds are not old enough to be mistaken.
Recent(chunks, n) ==
    \A i \in 1 .. Len(chunks) :
        chunks[i].payload + Lifetime + PacketChunks > n + Len(chunks)

\* n chunks of the q queued were delivered.
Prefix(received, q) ==
    /\ Len(received) <= q
    /\ q <= Len(received) + BufferChunks
    /\ \A i \in 1 .. Len(received) : received[i] = i

Direction(r) ==
    Intact(r) =>
        /\ Prefix(delivered[r], queued[Peer(r)])
        /\ Recent(unpacker[r], Len(delivered[r]))
        /\ Window(conn[Peer(r)], queued[Peer(r)], Len(delivered[r]))

IInv == Numbering /\ \A r \in End : Direction(r)

\* The chunks numbered up to m are among those numbered up to n, and are chunks.
LEMMA NumberedOver ==
    ASSUME NEW m \in Nat, NEW n \in Nat, m <= n
    PROVE  Numbered(m) \subseteq Numbered(n) /\ Numbered(n) \subseteq Chunk
<1>1. NET_MAX_SEQUENCE \in Nat \ {0}  BY SizeAssumption
<1>2. ASSUME NEW i \in Nat PROVE i % NET_MAX_SEQUENCE \in SequenceNumber
  BY <1>1, <1>2, SuccessorOf
<1>. QED  BY <1>2 DEF Numbered, Chunk

\* Connections and packets over a set of chunks are over every larger set.
LEMMA OverGrows ==
    ASSUME NEW S, NEW T, S \subseteq T
    PROVE  /\ ConnectionOver(S) \subseteq ConnectionOver(T)
           /\ PacketOver(S) \subseteq PacketOver(T)
<1>1. Seq(S) \subseteq Seq(T)  BY SeqMonotonic
<1>2. ConnectionOver(S) \subseteq ConnectionOver(T)  BY <1>1 DEF ConnectionOver
<1>3. PacketOver(S) \subseteq PacketOver(T)  BY <1>1 DEF PacketOver
<1>. QED  BY <1>2, <1>3

\* Connections and packets over the chunks there are have the declared types.
LEMMA OverChunk ==
    /\ ConnectionOver(Chunk) \subseteq Connection
    /\ PacketOver(Chunk) \subseteq Packet
BY DEF ConnectionOver, PacketOver, Connection, Packet

\* What is good stays good as more is queued and received.
LEMMA GoodGrows ==
    ASSUME NEW q \in Nat, NEW qq \in Nat, q <= qq, NEW n \in Nat, NEW nn \in Nat, n <= nn,
           NEW w, NEW chunks
    PROVE  /\ GoodPackets(w, q, n) => GoodPackets(w, qq, nn)
           /\ GoodUnpacker(chunks, q) => GoodUnpacker(chunks, qq)
<1>1. Numbered(q) \subseteq Numbered(qq)  BY NumberedOver
<1>2. GoodPackets(w, q, n) => GoodPackets(w, qq, nn)
  <2>1. PacketOver(Numbered(q)) \subseteq PacketOver(Numbered(qq))  BY <1>1, OverGrows
  <2>2. \A p \in PacketOver(Numbered(q)) : p.acked \in Nat  BY DEF PacketOver
  <2>. QED  BY <2>1, <2>2 DEF GoodPackets
<1>3. GoodUnpacker(chunks, q) => GoodUnpacker(chunks, qq)
  BY <1>1, SeqMonotonic DEF GoodUnpacker
<1>. QED  BY <1>2, <1>3

\* Good states are typed.
LEMMA GoodTyped ==
    ASSUME NEW q \in Nat, NEW n \in Nat
    PROVE  /\ \A c : GoodConnection(c, q, n) => c \in Connection
           /\ \A w : GoodPackets(w, q, n) => w \in SUBSET Packet
           /\ \A s : GoodUnpacker(s, q) => s \in Seq(Chunk)
<1>1. Numbered(q) \subseteq Chunk  BY NumberedOver
<1>2. ConnectionOver(Numbered(q)) \subseteq Connection
  BY <1>1, OverGrows, OverChunk, Zenon
<1>3. PacketOver(Numbered(q)) \subseteq Packet
  BY <1>1, OverGrows, OverChunk, Zenon
<1>4. \A s \in Seq(Numbered(q)) : s \in Seq(Chunk)  BY <1>1, SeqMonotonic
<1>. QED  BY <1>2, <1>3, <1>4 DEF GoodConnection, GoodPackets, GoodUnpacker

\* Packets that acknowledge what was received are good.
LEMMA AckingGood ==
    ASSUME NEW q \in Nat, NEW n \in Nat, NEW c, NEW w,
           GoodConnection(c, q, n), c.state # "OFFLINE",
           w \in SUBSET PacketOver(Numbered(q)), Acking(w, c.ack, n)
    PROVE  GoodPackets(w, q, n)
BY DEF GoodConnection, GoodPackets, Acking

\* An operation that only sends keeps the connection and its packets good.
LEMMA SendsGood ==
    ASSUME NEW q \in Nat, NEW n \in Nat, NEW c, NEW r,
           GoodConnection(c, q, n), c.state # "OFFLINE",
           Sends(Numbered(q), c, n, r)
    PROVE  GoodConnection(r.conn, q, n) /\ GoodPackets(r.sent, q, n)
<1>1. GoodConnection(r.conn, q, n)
  BY DEF GoodConnection, Sends, SameButConstruct
<1>2. GoodPackets(r.sent, q, n)  BY AckingGood DEF Sends
<1>. QED  BY <1>1, <1>2

\* Good packets in flight stay good when good packets join them.
LEMMA GoodUnion ==
    ASSUME NEW q, NEW n, NEW v, NEW w, GoodPackets(v, q, n), GoodPackets(w, q, n)
    PROVE  GoodPackets(v \cup w, q, n)
BY DEF GoodPackets

\* Good packets in flight stay good when some are lost.
LEMMA GoodSubset ==
    ASSUME NEW q, NEW n, NEW v, NEW w, GoodPackets(w, q, n), v \subseteq w
    PROVE  GoodPackets(v, q, n)
BY DEF GoodPackets

\* The network carries nothing but what was in flight and what was sent.
LEMMA TransmitSubset ==
    ASSUME NEW inFlight, NEW sent, NEW bound
    PROVE  Transmit(inFlight, sent, bound) \subseteq inFlight \cup sent
BY DEF Transmit

\* Feed leaves a good connection: unchanged, failed, or acknowledged.
LEMMA FeedGood ==
    ASSUME NEW q \in Nat, NEW n \in Nat, NEW c, NEW p,
           GoodConnection(c, q, n), c.state = "ONLINE",
           p.ack \in SequenceNumber, p.resend \in BOOLEAN
    PROVE  LET r == Feed(c, p, n)
           IN  /\ GoodConnection(r.conn, q, n)
               /\ GoodPackets(r.sent, q, n)
               /\ r.conn.state # "OFFLINE"
               /\ r.conn.state = "ONLINE" =>
                      \/ r.conn = c
                      \/ /\ AckInWindow(c, p.ack)
                         /\ r.conn.peerAck = p.ack
                         /\ r.conn.buffer = AckChunks(c.buffer, p.ack)
<1> DEFINE S == Numbered(q)
           d == [c EXCEPT !.peerAck = p.ack]
           r == IF p.resend THEN QueueChunks(d, d.buffer, n)
                            ELSE [conn |-> d, sent |-> {}]
           x == [r.conn EXCEPT !.state = "ERROR", !.remoteClosed = TRUE]
           y == [r.conn EXCEPT !.buffer = AckChunks(@, p.ack)]
<1>1. c \in ConnectionOver(S) /\ c.ack = n % NET_MAX_SEQUENCE
      /\ c.sequence = q % NET_MAX_SEQUENCE
  BY DEF GoodConnection
<1>2. d \in ConnectionOver(S) /\ d.buffer = c.buffer /\ d.peerAck = p.ack
      /\ d.state = "ONLINE" /\ d.ack = c.ack /\ d.sequence = c.sequence
  BY <1>1 DEF ConnectionOver
<1>3. GoodConnection(d, q, n)
  <2> HIDE DEF d
  <2>. QED  BY <1>1, <1>2 DEF GoodConnection
<1> HIDE DEF d
<1>4. Sends(S, d, n, r)
  <2>1. CASE p.resend
    <3>1. d.buffer \in Seq(S)  BY <1>2 DEF ConnectionOver
    <3>. QED  BY <1>2, <2>1, <3>1, QueueChunksSends
  <2>2. CASE ~p.resend
    BY <1>2, <2>2 DEF Sends, SameButConstruct, Acking
  <2>. QED  BY <2>1, <2>2
<1> HIDE DEF r
<1>5. GoodConnection(r.conn, q, n) /\ GoodPackets(r.sent, q, n)
  BY <1>2, <1>3, <1>4, SendsGood
<1>6. r.conn \in ConnectionOver(S) /\ r.conn.buffer = c.buffer
      /\ r.conn.peerAck = p.ack /\ r.conn.state = "ONLINE"
  BY <1>2, <1>4 DEF Sends, SameButConstruct
<1>7. AckChunks(r.conn.buffer, p.ack) \in Seq(S)
  <2>1. r.conn.buffer \in Seq(S)  BY <1>6 DEF ConnectionOver
  <2>. QED  BY <2>1, AckChunksSuffix
<1>8. GoodConnection(y, q, n) /\ y.state = "ONLINE" /\ y.peerAck = p.ack
      /\ y.buffer = AckChunks(c.buffer, p.ack)
  <2>1. y \in ConnectionOver(S)  BY <1>6, <1>7 DEF ConnectionOver
  <2>2. y.state = r.conn.state /\ y.sequence = r.conn.sequence
        /\ y.ack = r.conn.ack /\ y.peerAck = r.conn.peerAck
        /\ y.buffer = AckChunks(r.conn.buffer, p.ack)
    BY <1>6 DEF ConnectionOver
  <2> HIDE DEF y
  <2>. QED  BY <1>5, <1>6, <2>1, <2>2 DEF GoodConnection
<1>9. GoodConnection(x, q, n) /\ x.state = "ERROR"
  <2>1. x \in ConnectionOver(S)  BY <1>6 DEF ConnectionOver
  <2>2. x.state = "ERROR" /\ x.sequence = r.conn.sequence /\ x.ack = r.conn.ack
    BY <1>6 DEF ConnectionOver
  <2> HIDE DEF x
  <2>. QED  BY <1>5, <1>6, <2>1, <2>2 DEF GoodConnection
<1> HIDE DEF x, y
<1>10. Feed(c, p, n) = IF ~AckInWindow(c, p.ack)
                       THEN [conn |-> c, sent |-> {}, accepted |-> FALSE]
                       ELSE IF p.kind = "close"
                       THEN [conn |-> x, sent |-> r.sent, accepted |-> FALSE]
                       ELSE [conn |-> y, sent |-> r.sent, accepted |-> TRUE]
  BY DEF Feed, d, r, x, y
<1>11. GoodPackets({}, q, n)  BY DEF GoodPackets
<1>. QED  BY <1>5, <1>8, <1>9, <1>10, <1>11

\* Update leaves a good connection, disconnected or with the same m_Buffer.
LEMMA UpdateGood ==
    ASSUME NEW q \in Nat, NEW n \in Nat, NEW c,
           GoodConnection(c, q, n), c.state # "OFFLINE",
           NEW expired \in BOOLEAN, NEW retry \in BOOLEAN, NEW clock
    PROVE  LET r == UpdateResend(UpdateTimeout(c, expired), retry, n)
               f == UpdateFlush(r.conn, clock, n)
               d == Disconnect(f.conn, n)
           IN  /\ GoodConnection(f.conn, q, n)
               /\ f.conn.state # "OFFLINE"
               /\ GoodConnection(d.conn, q, n)
               /\ d.conn.state = "OFFLINE"
               /\ GoodPackets(r.sent, q, n)
               /\ GoodPackets(f.sent, q, n)
               /\ GoodPackets(d.sent, q, n)
               /\ f.conn.state = "ONLINE" =>
                    /\ c.state = "ONLINE"
                    /\ f.conn.buffer = c.buffer
                    /\ f.conn.peerAck = c.peerAck
<1> DEFINE S == Numbered(q)
           t == UpdateTimeout(c, expired)
           r == UpdateResend(t, retry, n)
           f == UpdateFlush(r.conn, clock, n)
           d == Disconnect(f.conn, n)
<1>1. c \in ConnectionOver(S)  BY DEF GoodConnection
<1>2. /\ t \in ConnectionOver(S)
      /\ t.state = "ONLINE" => c.state = "ONLINE"
      /\ t.state # "OFFLINE"
      /\ t.sequence = c.sequence /\ t.ack = c.ack
      /\ t.peerAck = c.peerAck /\ t.buffer = c.buffer
  <2>1. c.state \in {"ONLINE", "ERROR", "OFFLINE"}  BY <1>1 DEF ConnectionOver
  <2>. QED  BY <1>1, <2>1, UpdateTimeoutOver
<1> HIDE DEF t
<1>3. GoodConnection(t, q, n)  BY <1>2 DEF GoodConnection
<1>4. Sends(S, t, n, r)  BY <1>2, UpdateResendSends
<1> HIDE DEF r
<1>5. GoodConnection(r.conn, q, n) /\ GoodPackets(r.sent, q, n)
  BY <1>2, <1>3, <1>4, SendsGood
<1>6. r.conn \in ConnectionOver(S) /\ SameButConstruct(t, r.conn)  BY <1>4 DEF Sends
<1>7. Sends(S, r.conn, n, f)  BY <1>6, UpdateFlushSends
<1> HIDE DEF f
<1>8. r.conn.state # "OFFLINE"  BY <1>2, <1>6 DEF SameButConstruct
<1>9. GoodConnection(f.conn, q, n) /\ GoodPackets(f.sent, q, n)
  BY <1>5, <1>7, <1>8, SendsGood
<1>10. f.conn \in ConnectionOver(S) /\ SameButConstruct(r.conn, f.conn)
  BY <1>7 DEF Sends
<1>11. f.conn.state # "OFFLINE"  BY <1>8, <1>10 DEF SameButConstruct
<1>12. GoodConnection(d.conn, q, n) /\ d.conn.state = "OFFLINE"
       /\ GoodPackets(d.sent, q, n)
  <2>1. /\ d.conn \in ConnectionOver(S) /\ d.conn.state = "OFFLINE"
        /\ d.sent \in SUBSET PacketOver(S) /\ Acking(d.sent, f.conn.ack, n)
    BY <1>10, DisconnectOver
  <2> HIDE DEF d
  <2>2. GoodPackets(d.sent, q, n)  BY <1>9, <1>11, <2>1, AckingGood
  <2>. QED  BY <2>1, <2>2 DEF GoodConnection
<1> HIDE DEF d
<1>13. f.conn.state = "ONLINE" =>
          /\ c.state = "ONLINE" /\ f.conn.buffer = c.buffer
          /\ f.conn.peerAck = c.peerAck
  BY <1>2, <1>6, <1>10 DEF SameButConstruct
<1>. QED  BY <1>5, <1>9, <1>11, <1>12, <1>13 DEF t, r, f, d

\* There are two ends, and each is the other's peer.
LEMMA Peers ==
    ASSUME NEW e \in End
    PROVE  /\ Peer(e) \in End /\ Peer(e) # e /\ Peer(Peer(e)) = e
           /\ \A x \in End : x = e \/ x = Peer(e)
BY EndAssumption DEF End, Peer

\* A step in which end e, not disconnected, changes its connection and sends,
\* perhaps after queueing one more chunk, keeps the invariant.
LEMMA BecomeKeeps ==
    ASSUME IInv, NEW e \in End, NEW r, Become(e, r), conn[e].state # "OFFLINE",
           UNCHANGED <<unpacker, delivered>>,
           NEW q \in Nat, queued[e] <= q, queued' = [queued EXCEPT ![e] = q],
           NEW o \in BOOLEAN, overflow' = [overflow EXCEPT ![e] = o],
           overflow[e] => o,
           GoodConnection(r.conn, q, Len(delivered[e])),
           GoodPackets(r.sent, q, Len(delivered[e])),
           LET m == Len(delivered[Peer(e)])
           IN  /\ ~o
               /\ Window(conn[e], queued[e], m)
               /\ queued[e] <= m + BufferChunks
               => Window(r.conn, q, m) /\ q <= m + BufferChunks
    PROVE  IInv'
<1> DEFINE x == Peer(e)
           Of(y) == /\ GoodConnection(conn[y], queued[y], Len(delivered[y]))
                    /\ GoodPackets(wire[y], queued[y], Len(delivered[y]))
                    /\ GoodUnpacker(unpacker[y], queued[Peer(y)])
<1>1. /\ x \in End /\ x # e /\ Peer(x) = e
      /\ \A y \in End : y = e \/ y = x
  BY Peers
<1>2. TypeOK /\ Of(e) /\ Of(x) /\ Direction(e) /\ Direction(x)
  BY <1>1 DEF IInv, Numbering
<1> HIDE DEF x
<1>3. /\ conn' = [conn EXCEPT ![e] = r.conn]
      /\ wire'[e] \subseteq wire[e] \cup r.sent
      /\ conn'[e] = r.conn /\ conn'[x] = conn[x] /\ wire'[x] = wire[x]
      /\ \E w : wire' = [wire EXCEPT ![e] = w]
      /\ queued'[e] = q /\ queued'[x] = queued[x]
      /\ overflow'[e] = o /\ overflow'[x] = overflow[x]
      /\ unpacker' = unpacker /\ delivered' = delivered
  BY <1>1, <1>2, TransmitSubset DEF Become, TypeOK
<1>4. Len(delivered[e]) \in Nat /\ Len(delivered[x]) \in Nat
      /\ queued[e] \in Nat /\ queued[x] \in Nat
  BY <1>1, <1>2, LenProperties DEF TypeOK
<1>5. Of(e)'
  <2>1. GoodConnection(conn'[e], q, Len(delivered[e]))  BY <1>3
  <2>2. GoodPackets(wire'[e], q, Len(delivered[e]))
    <3>1. GoodPackets(wire[e], q, Len(delivered[e]))
      <4>1. Len(delivered[e]) <= Len(delivered[e])  BY <1>4
      <4>. QED  BY <1>2, <1>4, <4>1, GoodGrows, Zenon
    <3>2. GoodPackets(wire[e] \cup r.sent, q, Len(delivered[e]))
      BY <3>1, GoodUnion
    <3>. QED  BY <1>3, <3>2, GoodSubset
  <2>3. GoodUnpacker(unpacker[e], queued[x])  BY <1>2 DEF x
  <2>. QED  BY <1>3, <2>1, <2>2, <2>3 DEF x
<1>6. Of(x)'
  <2>1. GoodUnpacker(unpacker[x], q)
    <3>1. GoodUnpacker(unpacker[x], queued[e])  BY <1>1, <1>2
    <3>. QED  BY <1>4, <3>1, GoodGrows
  <2>2. GoodUnpacker(unpacker'[x], queued'[Peer(x)])  BY <1>1, <1>3, <2>1
  <2>. QED  BY <1>2, <1>3, <2>2
<1>7. TypeOK'
  <2>1. conn' \in [End -> Connection]
    <3>1. r.conn \in Connection  BY <1>4, GoodTyped
    <3>. QED  BY <1>2, <1>3, <3>1 DEF TypeOK
  <2>2. wire' \in [End -> SUBSET Packet]
    <3>1. wire'[e] \in SUBSET Packet  BY <1>3, <1>4, <1>5, GoodTyped
    <3>. QED  BY <1>2, <1>3, <3>1 DEF TypeOK
  <2>3. queued' \in [End -> Nat] /\ overflow' \in [End -> BOOLEAN]
    BY <1>2 DEF TypeOK
  <2>. QED  BY <1>2, <1>3, <2>1, <2>2, <2>3 DEF TypeOK
<1>8. Numbering'
  <2>1. \A y \in End : Of(y)'  BY <1>1, <1>5, <1>6, Zenon
  <2>. QED  BY <1>7, <2>1 DEF Numbering
<1>9. Direction(e)'
  <2>1. Intact(e)' => Intact(e)
    BY <1>3 DEF Intact, x
  <2>. QED  BY <1>2, <1>3, <2>1 DEF Direction, x
<1>10. Direction(x)'
  <2>1. Intact(x)' => Intact(x) /\ ~o
    BY <1>1, <1>3 DEF Intact
  <2>2. SUFFICES ASSUME Intact(x), ~o
                 PROVE  /\ Prefix(delivered[x], q)
                        /\ Recent(unpacker[x], Len(delivered[x]))
                        /\ Window(r.conn, q, Len(delivered[x]))
    BY <1>1, <1>3, <2>1 DEF Direction
  <2>3. /\ Prefix(delivered[x], queued[e])
        /\ Recent(unpacker[x], Len(delivered[x]))
        /\ Window(conn[e], queued[e], Len(delivered[x]))
    BY <1>1, <1>2, <2>2 DEF Direction
  <2>4. Window(r.conn, q, Len(delivered[x])) /\ q <= Len(delivered[x]) + BufferChunks
    BY <2>2, <2>3 DEF Prefix, x
  <2>. QED  BY <1>4, <2>3, <2>4 DEF Prefix
<1>. QED  BY <1>1, <1>8, <1>9, <1>10 DEF IInv

\* What the invariant says of an end, and of the direction out of it.
LEMMA Instance ==
    ASSUME IInv, NEW e \in End
    PROVE  /\ TypeOK
           /\ Len(delivered[e]) \in Nat /\ queued[e] \in Nat
           /\ GoodConnection(conn[e], queued[e], Len(delivered[e]))
           /\ GoodPackets(wire[e], queued[e], Len(delivered[e]))
           /\ GoodUnpacker(unpacker[e], queued[Peer(e)])
           /\ Direction(e)
BY LenProperties DEF IInv, Numbering, TypeOK

\* CNetServer::Send and CNetClient::Send keep the invariant.
LEMMA SendKeeps ==
    ASSUME IInv, NEW e \in End, NEW flush \in BOOLEAN, Send(e, flush)
    PROVE  IInv' /\ conn'[e].state # "OFFLINE"
<1> DEFINE n     == Len(delivered[e])
           m     == Len(delivered[Peer(e)])
           q0    == queued[e]
           c     == conn[e]
           q1    == q0 + (IF c.state = "ONLINE" THEN 1 ELSE 0)
           next  == [c EXCEPT !.sequence = Successor(@)]
           chunk == [sequence |-> next.sequence, payload |-> q0 + 1]
           room  == Len(c.buffer) < BufferChunks
           q     == QueueChunks(next, <<chunk>>, n)
           kept  == IF room THEN [q.conn EXCEPT !.buffer = Append(@, chunk)]
                            ELSE q.conn
           ok    == c.state = "ONLINE" /\ room
           base  == IF c.state = "ONLINE" THEN [conn |-> kept, sent |-> q.sent]
                                          ELSE [conn |-> next, sent |-> {}]
           f     == Flush(base.conn, n)
           r     == IF flush /\ (ok \/ e = Client)
                    THEN [conn |-> f.conn, sent |-> base.sent \cup f.sent]
                    ELSE base
           o     == overflow[e] \/ (c.state = "ONLINE" /\ ~room)
<1>1. /\ Become(e, r) /\ c.state # "OFFLINE"
      /\ queued' = [queued EXCEPT ![e] = q1]
      /\ overflow' = [overflow EXCEPT ![e] = o]
      /\ UNCHANGED <<unpacker, delivered>>
  BY DEF Send
<1>2. /\ GoodConnection(c, q0, n)
      /\ n \in Nat /\ m \in Nat /\ q0 \in Nat /\ q1 \in Nat /\ q0 <= q1
      /\ o \in BOOLEAN
  BY Peers, LenProperties DEF IInv, Numbering, TypeOK
<1>3. /\ c \in ConnectionOver(Numbered(q0))
      /\ c.ack = n % NET_MAX_SEQUENCE
      /\ c.state \in {"ONLINE", "ERROR"}
      /\ c.sequence \in SequenceNumber
      /\ NET_MAX_SEQUENCE \in Nat \ {0}
  BY <1>1, <1>2, SizeAssumption DEF GoodConnection, ConnectionOver
<1>4. Successor(c.sequence) \in SequenceNumber
  <2>1. c.sequence + 1 \in Nat  BY <1>3 DEF SequenceNumber
  <2>. QED  BY <2>1, SuccessorOf DEF Successor
<1>5. /\ next \in ConnectionOver(Numbered(q0))
      /\ next.state = c.state /\ next.ack = c.ack /\ next.buffer = c.buffer
      /\ next.peerAck = c.peerAck /\ next.sequence = Successor(c.sequence)
  BY <1>3, <1>4 DEF ConnectionOver
<1> HIDE DEF c, next, q0, n, m
<1> DEFINE w == Window(c, q0, m) /\ q0 <= m + BufferChunks /\ ~o
                => Window(base.conn, q1, m) /\ q1 <= m + BufferChunks
           Done == /\ GoodConnection(base.conn, q1, n)
                   /\ GoodPackets(base.sent, q1, n)
                   /\ base.conn.state # "OFFLINE"
                   /\ w
<1>6. ASSUME c.state = "ERROR" PROVE Done
  <2>1. q1 = q0 /\ base = [conn |-> next, sent |-> {}]  BY <1>2, <1>6
  <2>2. GoodConnection(next, q0, n)  BY <1>3, <1>5, <1>6 DEF GoodConnection
  <2>3. GoodPackets({}, q0, n)  BY DEF GoodPackets
  <2>4. w  BY <1>5, <1>6, <2>1 DEF Window
  <2>5. GoodConnection(base.conn, q1, n) /\ GoodPackets(base.sent, q1, n)
        /\ base.conn.state # "OFFLINE" /\ w
    <3> HIDE DEF w, q1
    <3>. QED  BY <1>5, <1>6, <2>1, <2>2, <2>3, <2>4
  <2>. QED  BY <2>5
<1>7. ASSUME c.state = "ONLINE" PROVE Done
  <2> DEFINE S == Numbered(q1)
  <2>1. q1 = q0 + 1 /\ base = [conn |-> kept, sent |-> q.sent]
        /\ o = (overflow[e] \/ ~room)
    BY <1>2, <1>7
  <2>2. next.sequence = q1 % NET_MAX_SEQUENCE
    BY <1>2, <1>5, <1>7, <2>1, SuccessorOf DEF GoodConnection
  <2>3. chunk \in S
    BY <1>2, <2>1, <2>2 DEF Numbered
  <2>4. next \in ConnectionOver(S)
    BY <1>2, <1>5, NumberedOver, OverGrows
  <2>5. GoodConnection(next, q1, n)
    BY <1>3, <1>5, <2>2, <2>4 DEF GoodConnection
  <2> HIDE DEF chunk
  <2>6. <<chunk>> \in Seq(S)  BY <2>3
  <2>7. Sends(S, next, n, q)  BY <1>2, <2>4, <2>6, QueueChunksSends
  <2> HIDE DEF q, q1
  <2>8. GoodConnection(q.conn, q1, n) /\ GoodPackets(q.sent, q1, n)
    BY <1>2, <1>5, <1>7, <2>5, <2>7, SendsGood
  <2>9. /\ q.conn \in ConnectionOver(S)
        /\ q.conn.state = "ONLINE" /\ q.conn.buffer = c.buffer
        /\ q.conn.peerAck = c.peerAck
    BY <1>5, <1>7, <2>7 DEF Sends, SameButConstruct
  <2>10. q.conn.buffer \in Seq(S)  BY <2>9 DEF ConnectionOver
  <2> DEFINE k == [q.conn EXCEPT !.buffer = Append(@, chunk)]
             b == Append(q.conn.buffer, chunk)
  <2>11. b \in Seq(S)  BY <2>3, <2>10, AppendProperties
  <2>12. /\ k \in ConnectionOver(S) /\ k.state = "ONLINE" /\ k.ack = q.conn.ack
         /\ k.sequence = q.conn.sequence /\ k.peerAck = c.peerAck /\ k.buffer = b
    <3>1. k.state = "ONLINE" /\ k.ack = q.conn.ack
         /\ k.sequence = q.conn.sequence /\ k.peerAck = c.peerAck /\ k.buffer = b
      BY <2>9 DEF ConnectionOver
    <3>. HIDE DEF b
    <3>2. [q.conn EXCEPT !.buffer = b] \in ConnectionOver(S)
      BY <2>9, <2>11 DEF ConnectionOver
    <3>. QED  BY <3>1, <3>2 DEF b
  <2>13. kept = IF room THEN k ELSE q.conn  OBVIOUS
  <2> HIDE DEF k, kept
  <2>14. GoodConnection(kept, q1, n) /\ kept.state = "ONLINE"
    BY <2>8, <2>9, <2>12, <2>13 DEF GoodConnection
  <2>15. w
    <3>1. SUFFICES ASSUME Window(c, q0, m), q0 <= m + BufferChunks, ~o
                   PROVE  Window(base.conn, q1, m) /\ q1 <= m + BufferChunks
      OBVIOUS
    <3>2. room  BY <2>1, <3>1
    <3>3. /\ base.conn = k /\ Len(c.buffer) \in Nat /\ BufferChunks \in Nat
          /\ Len(c.buffer) + 1 <= BufferChunks
      <4>1. BufferChunks \in Nat /\ Len(c.buffer) \in Nat
        BY <2>9, <2>10, BufferAssumption, LenProperties
      <4>. QED  BY <2>1, <2>13, <3>2, <4>1
    <3>4. /\ Len(b) = Len(c.buffer) + 1
          /\ \A i \in 1 .. Len(c.buffer) : b[i] = c.buffer[i]
          /\ b[Len(c.buffer) + 1] = chunk
      BY <2>3, <2>9, <2>10, AppendProperties
    <3>5. chunk.payload = q0 + 1  BY DEF chunk
    <3> HIDE DEF room, b
    <3>6. /\ Len(c.buffer) <= q0 /\ q0 - Len(c.buffer) <= m
          /\ c.peerAck = (q0 - Len(c.buffer)) % NET_MAX_SEQUENCE
          /\ \A i \in 1 .. Len(c.buffer) :
                c.buffer[i].payload = (q0 - Len(c.buffer)) + i
      BY <1>7, <3>1 DEF Window
    <3>7. q1 - Len(b) = q0 - Len(c.buffer)  BY <1>2, <2>1, <3>3, <3>4
    <3>8. ASSUME NEW i \in 1 .. Len(b)
          PROVE  b[i].payload = (q0 - Len(c.buffer)) + i
      <4>1. CASE i \in 1 .. Len(c.buffer)  BY <3>4, <3>6, <4>1
      <4>2. CASE i = Len(c.buffer) + 1  BY <1>2, <3>3, <3>4, <3>5, <4>2
      <4>. QED  BY <3>3, <3>4, <4>1, <4>2
    <3>9. Len(b) <= BufferChunks /\ Len(b) <= q1 /\ q1 <= m + BufferChunks
      BY <1>2, <2>1, <3>3, <3>4, <3>6
    <3>10. Window(k, q1, m)
      BY <2>12, <3>6, <3>7, <3>8, <3>9 DEF Window
    <3>. QED  BY <3>3, <3>9, <3>10
  <2>. HIDE DEF w
  <2>. QED  BY <2>1, <2>8, <2>14, <2>15
<1>8. Done
  <2> HIDE DEF Done
  <2>. QED  BY <1>3, <1>6, <1>7
<1> HIDE DEF base, w, q1, o, room
<1>9. Sends(Numbered(q1), base.conn, n, f)
  BY <1>2, <1>8, FlushSends DEF GoodConnection
<1> HIDE DEF f
<1>10. GoodConnection(f.conn, q1, n) /\ GoodPackets(f.sent, q1, n)
  BY <1>2, <1>8, <1>9, SendsGood
<1>11. GoodPackets(base.sent \cup f.sent, q1, n)  BY <1>8, <1>10, GoodUnion
<1>12. GoodConnection(r.conn, q1, n) /\ GoodPackets(r.sent, q1, n)
  BY <1>8, <1>10, <1>11
<1>13. Window(base.conn, q1, m) => Window(f.conn, q1, m)
  BY <1>9 DEF Window, Sends, SameButConstruct
<1>14. ~o /\ Window(c, q0, m) /\ q0 <= m + BufferChunks
       => Window(r.conn, q1, m) /\ q1 <= m + BufferChunks
  BY <1>8, <1>13 DEF w
<1>15. overflow[e] => o  BY DEF o
<1>16. r.conn.state # "OFFLINE"
  BY <1>8, <1>9 DEF Sends, SameButConstruct
<1> HIDE DEF r
<1>17. IInv'
  BY <1>1, <1>2, <1>12, <1>14, <1>15, BecomeKeeps, Zenon DEF c, q0, n, m
<1>18. conn'[e] = r.conn  BY <1>1, Instance DEF Become, TypeOK
<1>. QED  BY <1>16, <1>17, <1>18

\* A step in which end e changes its connection and sends, but queues nothing.
LEMMA QuietKeeps ==
    ASSUME IInv, NEW e \in End, NEW r, Become(e, r), conn[e].state # "OFFLINE",
           UNCHANGED <<unpacker, queued, delivered, overflow>>,
           GoodConnection(r.conn, queued[e], Len(delivered[e])),
           GoodPackets(r.sent, queued[e], Len(delivered[e])),
           r.conn.state = "ONLINE" =>
                /\ conn[e].state = "ONLINE"
                /\ r.conn.buffer = conn[e].buffer
                /\ r.conn.peerAck = conn[e].peerAck
    PROVE  IInv'
<1> DEFINE m == Len(delivered[Peer(e)])
           q == queued[e]
           o == overflow[e]
<1>1. /\ q \in Nat /\ queued[e] <= q /\ o \in BOOLEAN
      /\ queued' = [queued EXCEPT ![e] = q]
      /\ overflow' = [overflow EXCEPT ![e] = o]
      /\ UNCHANGED <<unpacker, delivered>>
      /\ overflow[e] => o
  BY Instance DEF TypeOK
<1>2. ~o /\ Window(conn[e], queued[e], m) /\ queued[e] <= m + BufferChunks
      => Window(r.conn, q, m) /\ q <= m + BufferChunks
  BY DEF Window
<1>3. GoodConnection(r.conn, q, Len(delivered[e]))
      /\ GoodPackets(r.sent, q, Len(delivered[e]))
  OBVIOUS
<1> HIDE DEF q, o
<1>. QED  BY <1>1, <1>2, <1>3, BecomeKeeps, Zenon

\* CNetClient::Flush keeps the invariant.
LEMMA SendFlushKeeps ==
    ASSUME IInv, NEW e \in End, SendFlush(e)
    PROVE  IInv' /\ conn'[e].state # "OFFLINE"
<1> DEFINE n == Len(delivered[e])
           q == queued[e]
           c == conn[e]
           r == Flush(c, n)
<1>1. /\ Become(e, r) /\ c.state = "ONLINE"
      /\ UNCHANGED <<unpacker, queued, delivered, overflow>>
  BY DEF SendFlush
<1>2. n \in Nat /\ q \in Nat /\ GoodConnection(c, q, n)  BY Instance
<1>3. Sends(Numbered(q), c, n, r)  BY <1>2, FlushSends DEF GoodConnection
<1> HIDE DEF r
<1>4. GoodConnection(r.conn, q, n) /\ GoodPackets(r.sent, q, n)
  BY <1>1, <1>2, <1>3, SendsGood
<1>5. r.conn.buffer = c.buffer /\ r.conn.peerAck = c.peerAck
      /\ r.conn.state = c.state
  BY <1>3 DEF Sends, SameButConstruct
<1>6. conn'[e] = r.conn  BY <1>1, Instance DEF Become, TypeOK
<1>. QED  BY <1>1, <1>4, <1>5, <1>6, QuietKeeps

\* CNetConnection::Update keeps the invariant, and queues and delivers nothing.
LEMMA UpdateKeeps ==
    ASSUME IInv, NEW e \in End, NEW expired \in BOOLEAN, NEW retry \in BOOLEAN,
           NEW keep \in BOOLEAN, NEW clock, Update(e, expired, retry, keep, clock)
    PROVE  /\ IInv'
           /\ conn[e].state # "OFFLINE"
           /\ \E d : conn' = [conn EXCEPT ![e] = d]
           /\ UNCHANGED <<queued, delivered, overflow>>
<1> DEFINE n == Len(delivered[e])
           q == queued[e]
           c == conn[e]
           r == UpdateResend(UpdateTimeout(c, expired), retry, n)
           f == UpdateFlush(r.conn, clock, n)
           d == Disconnect(f.conn, n)
           dropped == f.conn.state = "ERROR" /\ ~(keep /\ e = Server)
           final == [conn |-> IF dropped THEN d.conn ELSE f.conn,
                     sent |-> r.sent \cup f.sent \cup
                              IF dropped THEN d.sent ELSE {}]
<1>1. /\ Become(e, final) /\ c.state # "OFFLINE"
      /\ UNCHANGED <<unpacker, queued, delivered, overflow>>
  BY DEF Update
<1>2. n \in Nat /\ q \in Nat /\ GoodConnection(c, q, n)  BY Instance
<1>3. /\ GoodConnection(f.conn, q, n)
      /\ GoodConnection(d.conn, q, n)
      /\ d.conn.state = "OFFLINE"
      /\ GoodPackets(r.sent, q, n)
      /\ GoodPackets(f.sent, q, n)
      /\ GoodPackets(d.sent, q, n)
      /\ f.conn.state = "ONLINE" =>
            /\ c.state = "ONLINE"
            /\ f.conn.buffer = c.buffer
            /\ f.conn.peerAck = c.peerAck
  <2>1. c.state # "OFFLINE"  BY <1>1
  <2> HIDE DEF c, q, n
  <2>. QED  BY <1>2, <2>1, UpdateGood
<1> HIDE DEF c, r, f, d
<1>4. GoodPackets(final.sent, q, n)
  <2>1. GoodPackets({}, q, n)  BY DEF GoodPackets
  <2>2. GoodPackets(IF dropped THEN d.sent ELSE {}, q, n)  BY <1>3, <2>1
  <2>3. GoodPackets(r.sent \cup f.sent, q, n)  BY <1>3, GoodUnion
  <2>. HIDE DEF dropped
  <2>4. GoodPackets((r.sent \cup f.sent) \cup (IF dropped THEN d.sent ELSE {}), q, n)
    BY <2>2, <2>3, GoodUnion
  <2>. QED  BY <2>4
<1>5. /\ GoodConnection(final.conn, q, n)
      /\ final.conn.state = "ONLINE" =>
            /\ c.state = "ONLINE"
            /\ final.conn.buffer = c.buffer
            /\ final.conn.peerAck = c.peerAck
  BY <1>3
<1>. HIDE DEF final
<1>6. IInv'  BY <1>1, <1>4, <1>5, QuietKeeps DEF c
<1>7. \E x : conn' = [conn EXCEPT ![e] = x]  BY <1>1 DEF Become
<1>. QED  BY <1>1, <1>6, <1>7 DEF c

\* CNetServer::Drop keeps the invariant.
LEMMA DropKeeps ==
    ASSUME IInv, NEW e \in End, Drop(e)
    PROVE  IInv'
<1> DEFINE n == Len(delivered[e])
           q == queued[e]
           c == conn[e]
           r == Disconnect(c, n)
<1>1. /\ Become(e, r) /\ c.state # "OFFLINE"
      /\ UNCHANGED <<unpacker, queued, delivered, overflow>>
  BY DEF Drop
<1>2. n \in Nat /\ q \in Nat /\ GoodConnection(c, q, n)  BY Instance
<1>3. /\ r.conn \in ConnectionOver(Numbered(q)) /\ r.conn.state = "OFFLINE"
      /\ r.sent \in SUBSET PacketOver(Numbered(q)) /\ Acking(r.sent, c.ack, n)
  BY <1>2, DisconnectOver DEF GoodConnection
<1> HIDE DEF r
<1>4. GoodConnection(r.conn, q, n)  BY <1>3 DEF GoodConnection
<1>5. GoodPackets(r.sent, q, n)  BY <1>1, <1>2, <1>3, AckingGood
<1>. QED  BY <1>1, <1>3, <1>4, <1>5, QuietKeeps

\* The loss of a packet keeps the invariant.
LEMMA LoseKeeps ==
    ASSUME IInv, NEW e \in End, Lose(e)
    PROVE  IInv'
<1>1. PICK p : wire' = [wire EXCEPT ![e] = @ \ {p}]
  BY DEF Lose
<1>2. UNCHANGED <<conn, unpacker, queued, delivered, overflow>>
  BY DEF Lose
<1>3. TypeOK /\ \A x \in End : wire'[x] \subseteq wire[x]
  BY <1>1 DEF IInv, Numbering, TypeOK
<1>4. \A x \in End : GoodPackets(wire'[x], queued[x], Len(delivered[x]))
  BY <1>3, GoodSubset DEF IInv, Numbering
<1>5. wire' \in [End -> SUBSET Packet]  BY <1>1, <1>3 DEF TypeOK
<1>6. Numbering'
  BY <1>2, <1>3, <1>4, <1>5 DEF IInv, Numbering, TypeOK
<1>7. \A x \in End : Direction(x)'
  BY <1>2 DEF IInv, Direction, Intact
<1>. QED  BY <1>6, <1>7 DEF IInv

\* The invariant holds of two connections that were just established.
LEMMA InitIInv ==
    ASSUME Init
    PROVE  IInv
<1>1. /\ NET_MAX_SEQUENCE \in Nat \ {0} /\ PacketChunks \in Nat \ {0}
      /\ BufferChunks \in Nat \ {0}
  BY SizeAssumption, BufferAssumption
<1>2. 0 \in SequenceNumber /\ 0 % NET_MAX_SEQUENCE = 0
  <2>1. 0 = NET_MAX_SEQUENCE * 0 + 0  BY <1>1
  <2>2. 0 % NET_MAX_SEQUENCE = 0  BY <1>1, <2>1, ModUnique
  <2>. QED  BY <1>1, <2>2 DEF SequenceNumber
<1>3. \A S : <<>> \in Seq(S) /\ Len(<<>>) = 0  BY EmptySeq
<1>4. Fresh \in Connection /\ \A S : Fresh \in ConnectionOver(S)
  BY <1>1, <1>2, <1>3 DEF Fresh, Connection, ConnectionOver
<1>5. TypeOK  BY <1>3, <1>4 DEF Init, TypeOK
<1>6. ASSUME NEW e \in End
      PROVE  /\ GoodConnection(conn[e], queued[e], Len(delivered[e]))
             /\ GoodPackets(wire[e], queued[e], Len(delivered[e]))
             /\ GoodUnpacker(unpacker[e], queued[Peer(e)])
             /\ Direction(e)
  <2>1. /\ conn[e] = Fresh /\ conn[Peer(e)] = Fresh /\ queued[e] = 0
        /\ queued[Peer(e)] = 0 /\ wire[e] = {} /\ unpacker[e] = <<>>
        /\ delivered[e] = <<>>
    BY Peers DEF Init
  <2>2. GoodConnection(Fresh, 0, 0)
    BY <1>2, <1>4 DEF GoodConnection, Fresh
  <2>3. GoodPackets({}, 0, 0) /\ GoodUnpacker(<<>>, 0)
    BY <1>1, <1>3 DEF GoodPackets, GoodUnpacker
  <2>4. Prefix(<<>>, 0) /\ Recent(<<>>, 0) /\ Window(Fresh, 0, 0)
    BY <1>1, <1>2, <1>3 DEF Prefix, Recent, Window, Fresh
  <2>. QED  BY <1>3, <2>1, <2>2, <2>3, <2>4 DEF Direction
<1>. QED  BY <1>5, <1>6 DEF IInv, Numbering

\* A window that held the unreceived chunks holds them after more are received.
LEMMA WindowGrows ==
    ASSUME NEW c, NEW q \in Nat, NEW n \in Nat, NEW nn \in Nat, n <= nn,
           NEW S, c.buffer \in Seq(S), Window(c, q, n)
    PROVE  Window(c, q, nn)
<1> DEFINE b == Len(c.buffer)
<1>1. b \in Nat  BY LenProperties
<1> HIDE DEF b
<1>2. q - b <= n => q - b <= nn  BY <1>1
<1>. QED  BY <1>2 DEF Window, b

\* A chunk in sequence is the next one: nothing older or newer that can arrive
\* has its number.
LEMMA NextInSequence ==
    ASSUME NEW n \in Nat, NEW payload \in Nat,
           payload <= n + BufferChunks,
           n + 1 < payload + Lifetime + PacketChunks,
           payload % NET_MAX_SEQUENCE = (n + 1) % NET_MAX_SEQUENCE
    PROVE  payload = n + 1
<1> DEFINE M == NET_MAX_SEQUENCE
<1>1. M \in Nat \ {0} /\ BufferChunks \in Nat /\ 2 * BufferChunks < M
      /\ Lifetime \in Nat /\ PacketChunks \in Nat /\ PacketChunks + Lifetime <= M
  BY SizeAssumption, BufferAssumption, LifetimeAssumption
<1>2. payload - (n + 1) < M /\ (n + 1) - payload < M  BY <1>1
<1>3. payload \in Int /\ n + 1 \in Int  OBVIOUS
<1>. QED  BY <1>1, <1>2, <1>3, ModEqual, Zenon

\* FetchChunk, which acknowledges and delivers, keeps the invariant.
LEMMA FetchChunkKeeps ==
    ASSUME IInv, NEW e \in End, FetchChunk(e)
    PROVE  IInv'
<1> DEFINE x == Peer(e)
           c == conn[e]
           n == Len(delivered[e])
           q == queued[x]
           u == unpacker[e]
           chunk == Head(u)
           d == IF InSequence(c, chunk) THEN [c EXCEPT !.ack = chunk.sequence]
                ELSE IF IsSeqInBackroom(chunk.sequence, c.ack) THEN c
                ELSE [c EXCEPT !.resendFlag = TRUE]
           got == IF InSequence(c, chunk) THEN Append(delivered[e], chunk.payload)
                                          ELSE delivered[e]
<1>1. /\ x \in End /\ x # e /\ Peer(x) = e
      /\ \A y \in End : y = e \/ y = x
  BY Peers
<1>2. /\ u # <<>>
      /\ unpacker' = [unpacker EXCEPT ![e] = Tail(@)]
      /\ conn' = [conn EXCEPT ![e] = d]
      /\ delivered' = [delivered EXCEPT ![e] = got]
      /\ UNCHANGED <<wire, queued, overflow>>
  BY DEF FetchChunk
<1>3. /\ TypeOK /\ n \in Nat /\ q \in Nat /\ queued[e] \in Nat
      /\ GoodConnection(c, queued[e], n)
      /\ GoodPackets(wire[e], queued[e], n)
      /\ GoodUnpacker(u, q)
      /\ Direction(e) /\ Direction(x)
  BY <1>1, Instance
<1>4. /\ GoodConnection(conn[x], q, Len(delivered[x]))
      /\ GoodPackets(wire[x], q, Len(delivered[x]))
      /\ GoodUnpacker(unpacker[x], queued[e])
  BY <1>1, Instance
<1> HIDE DEF x, d, got
<1>5. /\ conn'[e] = d /\ conn'[x] = conn[x]
      /\ delivered'[e] = got /\ delivered'[x] = delivered[x]
      /\ unpacker'[e] = Tail(u) /\ unpacker'[x] = unpacker[x]
      /\ wire' = wire /\ queued' = queued /\ overflow' = overflow
  BY <1>1, <1>2, <1>3 DEF TypeOK
<1>6. /\ chunk \in Numbered(q)
      /\ Tail(u) \in Seq(Numbered(q)) /\ Len(Tail(u)) = Len(u) - 1
      /\ \A i \in 1 .. Len(Tail(u)) : Tail(u)[i] = u[i + 1]
      /\ u[1] = chunk /\ Len(u) \in Nat /\ 1 <= Len(u) /\ Len(u) <= PacketChunks
  <2>1. u \in Seq(Numbered(q)) /\ Len(u) <= PacketChunks  BY <1>3 DEF GoodUnpacker
  <2>. HIDE DEF u
  <2>2. chunk \in Numbered(q)
        /\ Tail(u) \in Seq(Numbered(q)) /\ Len(Tail(u)) = Len(u) - 1
        /\ \A i \in 1 .. Len(Tail(u)) : Tail(u)[i] = u[i + 1]
    BY <1>2, <2>1, HeadTailProperties
  <2>3. Len(u) \in Nat /\ 1 <= Len(u)  BY <1>2, <2>1, EmptySeq
  <2>4. u[1] = chunk  BY <1>2, <2>1
  <2>. QED  BY <2>1, <2>2, <2>3, <2>4
<1>7. /\ chunk.payload \in Nat /\ chunk.payload <= q
      /\ chunk.sequence = chunk.payload % NET_MAX_SEQUENCE
      /\ chunk.sequence \in SequenceNumber
  <2>1. PICK m \in 1 .. q :
          chunk = [sequence |-> m % NET_MAX_SEQUENCE, payload |-> m]
    BY <1>6 DEF Numbered
  <2>. HIDE DEF chunk
  <2>2. chunk.sequence = m % NET_MAX_SEQUENCE /\ chunk.payload = m /\ m \in Nat
    BY <2>1
  <2>. QED  BY <1>3, <2>2, SuccessorOf
<1>8. GoodUnpacker(Tail(u), q)
  BY <1>6, SizeAssumption DEF GoodUnpacker
<1>9. /\ d \in ConnectionOver(Numbered(queued[e]))
      /\ d.state = c.state /\ d.sequence = c.sequence
      /\ d.buffer = c.buffer /\ d.peerAck = c.peerAck
      /\ d.ack = IF InSequence(c, chunk) THEN chunk.sequence ELSE c.ack
  <2>1. c \in ConnectionOver(Numbered(queued[e]))  BY <1>3 DEF GoodConnection
  <2>. HIDE DEF c, chunk
  <2>. QED  BY <1>7, <2>1 DEF d, ConnectionOver
<1>10. /\ got \in Seq(Nat)
       /\ Len(got) = IF InSequence(c, chunk) THEN n + 1 ELSE n
       /\ \A i \in 1 .. n : got[i] = delivered[e][i]
       /\ InSequence(c, chunk) => got[n + 1] = chunk.payload
  <2>1. delivered[e] \in Seq(Nat)  BY <1>3 DEF TypeOK
  <2>. QED  BY <1>7, <2>1, AppendProperties DEF got
<1>11. Len(got) \in Nat /\ n <= Len(got)  BY <1>3, <1>10
<1>12. InSequence(c, chunk) /\ c.state # "OFFLINE"
       => chunk.sequence = (n + 1) % NET_MAX_SEQUENCE
  BY <1>3, SuccessorOf DEF InSequence, GoodConnection
<1>13. GoodConnection(d, queued[e], Len(got))
  BY <1>3, <1>9, <1>10, <1>12 DEF GoodConnection
<1>14. GoodPackets(wire[e], queued[e], Len(got))
  <2>1. queued[e] <= queued[e]  BY <1>3
  <2>. QED  BY <1>3, <1>11, <2>1, GoodGrows, Zenon
<1>15. TypeOK'
  <2>1. d \in Connection  BY <1>3, <1>11, <1>13, GoodTyped
  <2>2. Tail(u) \in Seq(Chunk)  BY <1>3, <1>8, GoodTyped
  <2>. HIDE DEF u
  <2>3. conn' \in [End -> Connection]  BY <1>2, <1>3, <2>1 DEF TypeOK
  <2>4. unpacker' \in [End -> Seq(Chunk)]  BY <1>2, <1>3, <2>2 DEF TypeOK, u
  <2>5. delivered' \in [End -> Seq(Nat)]  BY <1>2, <1>3, <1>10 DEF TypeOK
  <2>. QED  BY <1>3, <1>5, <2>3, <2>4, <2>5 DEF TypeOK
<1>16. Numbering'
  <2>1. GoodConnection(conn'[e], queued'[e], Len(delivered'[e]))
        /\ GoodPackets(wire'[e], queued'[e], Len(delivered'[e]))
        /\ GoodUnpacker(unpacker'[e], queued'[Peer(e)])
    BY <1>5, <1>8, <1>13, <1>14 DEF x
  <2>2. GoodConnection(conn'[x], queued'[x], Len(delivered'[x]))
        /\ GoodPackets(wire'[x], queued'[x], Len(delivered'[x]))
        /\ GoodUnpacker(unpacker'[x], queued'[Peer(x)])
    BY <1>1, <1>4, <1>5
  <2>. QED  BY <1>1, <1>15, <2>1, <2>2 DEF Numbering
<1>17. Direction(e)'
  <2>1. Intact(e)' => Intact(e) /\ c.state # "OFFLINE"
    BY <1>5, <1>9 DEF Intact
  <2>2. SUFFICES ASSUME Intact(e), c.state # "OFFLINE"
                 PROVE  /\ Prefix(got, q)
                        /\ Recent(Tail(u), Len(got))
                        /\ Window(conn[x], q, Len(got))
    BY <1>5, <2>1 DEF Direction, x
  <2>3. Prefix(delivered[e], q) /\ Recent(u, n) /\ Window(conn[x], q, n)
    BY <1>3, <2>2 DEF Direction, x
  <2>4. InSequence(c, chunk) => chunk.payload = n + 1
    <3>1. chunk.payload + Lifetime + PacketChunks > n + Len(u)
      <4>1. 1 \in 1 .. Len(u)  BY <1>6
      <4>2. u[1].payload + Lifetime + PacketChunks > n + Len(u)
        BY <2>3, <4>1 DEF Recent
      <4>. QED  BY <1>6, <4>2
    <3>2. n + 1 < chunk.payload + Lifetime + PacketChunks
          /\ chunk.payload <= n + BufferChunks
      <4>1. q <= n + BufferChunks  BY <2>3 DEF Prefix
      <4>2. 1 <= Len(u) /\ Len(u) \in Nat  BY <1>6
      <4>. HIDE DEF chunk, u, n, q
      <4>. QED  BY <1>3, <1>7, <3>1, <4>1, <4>2, SizeAssumption,
                   LifetimeAssumption, BufferAssumption
    <3>. QED  BY <1>3, <1>7, <1>12, <2>2, <3>2, NextInSequence
  <2>5. Prefix(got, q)
    <3>1. n <= q /\ q <= n + BufferChunks /\ \A i \in 1 .. n : delivered[e][i] = i
      BY <2>3 DEF Prefix
    <3>2. Len(got) <= q /\ q <= Len(got) + BufferChunks
      BY <1>3, <1>7, <1>10, <2>4, <3>1, BufferAssumption
    <3>3. \A i \in 1 .. Len(got) : i \in 1 .. n \/ (InSequence(c, chunk) /\ i = n + 1)
      BY <1>3, <1>10
    <3>4. \A i \in 1 .. Len(got) : got[i] = i
      BY <1>10, <2>4, <3>1, <3>3
    <3>. QED  BY <3>2, <3>4 DEF Prefix
  <2>6. Recent(Tail(u), Len(got))
    <3>1. ASSUME NEW i \in 1 .. Len(Tail(u))
          PROVE  Tail(u)[i].payload + Lifetime + PacketChunks > Len(got) + Len(Tail(u))
      <4>1. i + 1 \in 1 .. Len(u)  BY <1>6
      <4>2. u[i + 1].payload + Lifetime + PacketChunks > n + Len(u)
        BY <2>3, <4>1 DEF Recent
      <4>3. u[i + 1] \in Numbered(q)
        BY <1>3, <4>1, ElementOfSeq DEF GoodUnpacker
      <4>4. u[i + 1].payload \in Nat
        <5>1. PICK m \in 1 .. q :
                u[i + 1] = [sequence |-> m % NET_MAX_SEQUENCE, payload |-> m]
          BY <4>3 DEF Numbered
        <5>2. u[i + 1].payload = m  BY <5>1
        <5>. QED  BY <1>3, <5>2
      <4>5. Tail(u)[i] = u[i + 1] /\ Len(Tail(u)) = Len(u) - 1
            /\ Len(u) \in Nat /\ n \in Nat /\ Len(got) \in Nat /\ Len(got) <= n + 1
        BY <1>3, <1>6, <1>10
      <4>. HIDE DEF u, got, n
      <4>. QED  BY <4>2, <4>4, <4>5, SizeAssumption, LifetimeAssumption
    <3>. QED  BY <3>1 DEF Recent
  <2>7. Window(conn[x], q, Len(got))
    <3>1. conn[x].buffer \in Seq(Numbered(q))
      BY <1>4 DEF GoodConnection, ConnectionOver
    <3>. QED  BY <1>3, <1>11, <2>3, <3>1, WindowGrows
  <2>. QED  BY <2>5, <2>6, <2>7
<1>18. Direction(x)'
  <2>1. Intact(x)' => Intact(x)  BY <1>1, <1>5 DEF Intact
  <2>2. Window(c, queued[e], Len(delivered[x]))
        => Window(d, queued[e], Len(delivered[x]))
    BY <1>9 DEF Window
  <2>. QED  BY <1>1, <1>3, <1>5, <2>1, <2>2 DEF Direction
<1>. QED  BY <1>1, <1>16, <1>17, <1>18 DEF IInv

\* An acknowledgement that passes Feed's test removes exactly the chunks that
\* were received: what is left in m_Buffer is still gapless.
LEMMA AckKeepsWindow ==
    ASSUME NEW q \in Nat, NEW n \in Nat, NEW k \in Nat, NEW c, NEW d,
           c.buffer \in Seq(Numbered(q)), c.state = "ONLINE",
           c.sequence = q % NET_MAX_SEQUENCE, Window(c, q, n),
           n <= q, q <= n + BufferChunks, k <= n, n < k + Lifetime,
           AckInWindow(c, k % NET_MAX_SEQUENCE),
           d.buffer = AckChunks(c.buffer, k % NET_MAX_SEQUENCE),
           d.peerAck = k % NET_MAX_SEQUENCE
    PROVE  Window(d, q, n)
<1> DEFINE L == Len(c.buffer)
           M == NET_MAX_SEQUENCE
           a == k % M
<1>1. /\ L \in Nat /\ M \in Nat \ {0} /\ BufferChunks \in Nat
      /\ BufferChunks + Lifetime <= M /\ Lifetime \in Nat
  BY LenProperties, SizeAssumption, BufferAssumption, LifetimeAssumption
<1>2. /\ L <= BufferChunks /\ L <= q /\ q - L <= n
      /\ c.peerAck = (q - L) % M
      /\ \A i \in 1 .. L : c.buffer[i].payload = (q - L) + i
  BY DEF Window
<1>3. q - L <= k
  <2>1. /\ q - L \in Nat /\ q - L <= q /\ k <= q /\ q < k + NET_MAX_SEQUENCE
    BY <1>1, <1>2
  <2>2. c.peerAck = (q - L) % NET_MAX_SEQUENCE  BY <1>2
  <2> HIDE DEF L
  <2> DEFINE p == q - L
  <2>3. p \in Nat /\ p <= q /\ c.peerAck = p % NET_MAX_SEQUENCE  BY <2>1, <2>2
  <2> HIDE DEF p
  <2>4. p <= k  BY <2>1, <2>3, WindowOf
  <2>. QED  BY <2>4 DEF p
<1>4. ASSUME NEW i \in 1 .. L
      PROVE  IsSeqInBackroom(c.buffer[i].sequence, a) <=> (q - L) + i <= k
  <2> DEFINE s == c.buffer[i].payload
  <2>1. c.buffer[i] \in Numbered(q)  BY ElementOfSeq
  <2>2. PICK m \in 1 .. q : c.buffer[i] = [sequence |-> m % M, payload |-> m]
    BY <2>1 DEF Numbered
  <2>3. c.buffer[i].sequence = m % M /\ c.buffer[i].payload = m  BY <2>2
  <2>4. m = (q - L) + i  BY <1>2, <2>3
  <2>5. m \in Nat /\ m - k <= BufferChunks /\ k - m <= BufferChunks
    <3> HIDE DEF L
    <3>. QED  BY <1>1, <1>2, <1>3, <2>4
  <2>6. IsSeqInBackroom(m % NET_MAX_SEQUENCE, k % NET_MAX_SEQUENCE) <=> m <= k
    BY <2>5, BackroomOf
  <2>. QED  BY <2>3, <2>4, <2>6
<1> HIDE DEF a
<1>5. PICK j \in 0 .. Len(c.buffer) :
          /\ j = Acknowledged(c.buffer, a)
          /\ \A i \in 1 .. j : IsSeqInBackroom(c.buffer[i].sequence, a)
          /\ j < Len(c.buffer) => ~IsSeqInBackroom(c.buffer[j + 1].sequence, a)
          /\ AckChunks(c.buffer, a) \in Seq(Numbered(q))
          /\ Len(AckChunks(c.buffer, a)) = Len(c.buffer) - j
          /\ \A i \in 1 .. Len(c.buffer) - j : AckChunks(c.buffer, a)[i] = c.buffer[j + i]
  <2>1. c.buffer \in Seq(Numbered(q))  OBVIOUS
  <2>. QED  BY <2>1, AckChunksSuffix, Zenon
<1>6. j = k - (q - L)
  <2>1. j >= 1 => (q - L) + j <= k
    <3>1. SUFFICES ASSUME j >= 1 PROVE (q - L) + j <= k  OBVIOUS
    <3>2. j \in 1 .. j /\ j \in 1 .. L  BY <1>1, <3>1
    <3>3. IsSeqInBackroom(c.buffer[j].sequence, a)  BY <1>5, <3>2
    <3>. QED  BY <1>4, <3>2, <3>3
  <2>2. j < L => ~((q - L) + (j + 1) <= k)
    <3>1. SUFFICES ASSUME j < L PROVE ~((q - L) + (j + 1) <= k)  OBVIOUS
    <3>2. j + 1 \in 1 .. L  BY <1>1, <3>1
    <3>. QED  BY <1>4, <1>5, <3>1, <3>2
  <2>3. j \in 0 .. L  OBVIOUS
  <2> HIDE DEF L
  <2>. QED  BY <1>1, <1>2, <1>3, <2>1, <2>2, <2>3
<1> DEFINE b == d.buffer
<1>7. Len(b) = q - k /\ q - Len(b) = k
  <2>1. Len(b) = L - j  BY <1>5 DEF a
  <2> HIDE DEF b, L
  <2>. QED  BY <1>1, <1>6, <2>1
<1>8. ASSUME NEW i \in 1 .. Len(b)
      PROVE  b[i].payload = k + i
  <2>1. i \in 1 .. L - j /\ j + i \in 1 .. L
    <3>1. Len(b) = L - j  BY <1>5 DEF a
    <3> HIDE DEF b, L
    <3>. QED  BY <1>1, <3>1
  <2>2. b[i] = c.buffer[j + i]  BY <1>5, <2>1 DEF a
  <2>3. b[i].payload = (q - L) + (j + i)  BY <1>2, <2>1, <2>2
  <2> HIDE DEF b, L
  <2>. QED  BY <1>1, <1>6, <2>1, <2>3
<1>9. Len(b) <= BufferChunks /\ Len(b) <= q /\ q - Len(b) <= n
  <2> HIDE DEF b
  <2>1. q - L <= k /\ L <= BufferChunks  BY <1>2, <1>3
  <2> HIDE DEF L
  <2>. QED  BY <1>1, <1>7, <2>1
<1> HIDE DEF b
<1>10. b = d.buffer /\ d.peerAck = k % M  BY DEF b
<1>. QED  BY <1>7, <1>8, <1>9, <1>10 DEF Window

\* The receipt of a packet, old or new, keeps the invariant.
LEMMA RecvKeeps ==
    ASSUME IInv, NEW e \in End, Recv(e)
    PROVE  IInv' /\ conn'[e].state # "OFFLINE"
<1> DEFINE x == Peer(e)
           c == conn[e]
           n == Len(delivered[e])
           m == Len(delivered[x])
           q == queued[e]
<1>1. /\ x \in End /\ x # e /\ Peer(x) = e
      /\ \A y \in End : y = e \/ y = x
  BY Peers
<1>2. PICK p \in wire[x], duplicated \in BOOLEAN :
          LET r == Feed(c, p, n)
          IN  /\ c.state = "ONLINE"
              /\ Arrives(e, p)
              /\ conn' = [conn EXCEPT ![e] = r.conn]
              /\ wire' = [wire EXCEPT
                    ![e] = Transmit(@, r.sent, MaxPackets[e]),
                    ![x] = IF duplicated THEN @ ELSE @ \ {p}]
              /\ unpacker' = [unpacker EXCEPT
                    ![e] = IF r.accepted THEN p.chunks ELSE <<>>]
              /\ UNCHANGED <<queued, delivered, overflow>>
  BY DEF Recv
<1> DEFINE r == Feed(c, p, n)
           u == IF r.accepted THEN p.chunks ELSE <<>>
<1>3. /\ TypeOK /\ n \in Nat /\ q \in Nat
      /\ GoodConnection(c, q, n)
      /\ GoodPackets(wire[e], q, n)
      /\ Direction(e) /\ Direction(x)
  BY <1>1, Instance
<1>4. /\ m \in Nat /\ queued[x] \in Nat
      /\ GoodConnection(conn[x], queued[x], m)
      /\ GoodPackets(wire[x], queued[x], m)
      /\ GoodUnpacker(unpacker[x], q)
  BY <1>1, Instance
<1>5. /\ p \in PacketOver(Numbered(queued[x]))
      /\ p.ack = p.acked % NET_MAX_SEQUENCE /\ p.acked <= m
  BY <1>2, <1>4 DEF GoodPackets
<1>6. /\ p.ack \in SequenceNumber /\ p.resend \in BOOLEAN /\ p.acked \in Nat
      /\ p.chunks \in Seq(Numbered(queued[x])) /\ Len(p.chunks) <= PacketChunks
  BY <1>5 DEF PacketOver
<1>7. /\ GoodConnection(r.conn, q, n)
      /\ GoodPackets(r.sent, q, n)
      /\ r.conn.state # "OFFLINE"
      /\ r.conn.state = "ONLINE" =>
             \/ r.conn = c
             \/ /\ AckInWindow(c, p.ack)
                /\ r.conn.peerAck = p.ack
                /\ r.conn.buffer = AckChunks(c.buffer, p.ack)
  <2>1. c.state = "ONLINE"  BY <1>2
  <2> HIDE DEF c, n, q
  <2>. QED  BY <1>3, <1>6, <2>1, FeedGood
<1>8. /\ c.state = "ONLINE" /\ Arrives(e, p)
      /\ conn' = [conn EXCEPT ![e] = r.conn]
      /\ unpacker' = [unpacker EXCEPT ![e] = u]
      /\ UNCHANGED <<queued, delivered, overflow>>
  BY <1>2
<1>9. wire' = [wire EXCEPT
                    ![e] = Transmit(@, r.sent, MaxPackets[e]),
                    ![x] = IF duplicated THEN @ ELSE @ \ {p}]
  BY <1>2
<1> HIDE DEF r, x
<1>10. /\ wire'[e] \subseteq wire[e] \cup r.sent
       /\ wire'[x] \subseteq wire[x]
       /\ \E v, w : wire' = [[wire EXCEPT ![e] = v] EXCEPT ![x] = w]
  BY <1>1, <1>3, <1>9, TransmitSubset DEF TypeOK
<1> HIDE DEF u
<1>11. /\ conn'[e] = r.conn /\ conn'[x] = conn[x]
       /\ unpacker'[e] = u /\ unpacker'[x] = unpacker[x]
       /\ queued' = queued /\ delivered' = delivered /\ overflow' = overflow
  BY <1>1, <1>3, <1>8 DEF TypeOK
<1>12. GoodUnpacker(u, queued[x])
  <2>1. GoodUnpacker(<<>>, queued[x])
    BY EmptySeq, SizeAssumption DEF GoodUnpacker
  <2>. QED  BY <1>6, <2>1 DEF GoodUnpacker, u
<1>13. GoodPackets(wire'[e], q, n)
  <2>1. GoodPackets(wire[e] \cup r.sent, q, n)  BY <1>3, <1>7, GoodUnion
  <2>. QED  BY <1>10, <2>1, GoodSubset
<1>14. GoodPackets(wire'[x], queued[x], m)  BY <1>4, <1>10, GoodSubset
<1>15. TypeOK'
  <2>1. r.conn \in Connection  BY <1>3, <1>7, GoodTyped
  <2>2. wire'[e] \in SUBSET Packet  BY <1>3, <1>13, GoodTyped
  <2>3. wire'[x] \in SUBSET Packet  BY <1>4, <1>14, GoodTyped
  <2>4. u \in Seq(Chunk)  BY <1>4, <1>12, GoodTyped
  <2>5. conn' \in [End -> Connection]  BY <1>3, <1>8, <2>1 DEF TypeOK
  <2>6. unpacker' \in [End -> Seq(Chunk)]  BY <1>3, <1>8, <2>4 DEF TypeOK
  <2>7. wire' \in [End -> SUBSET Packet]
    <3>1. \A y \in End : wire'[y] \in SUBSET Packet  BY <1>1, <2>2, <2>3
    <3>2. \E v, w : wire' = [[wire EXCEPT ![e] = v] EXCEPT ![x] = w]  BY <1>10
    <3>3. DOMAIN wire = End  BY <1>3 DEF TypeOK
    <3>4. wire' = [y \in End |-> wire'[y]]  BY <3>2, <3>3
    <3>. QED  BY <3>1, <3>4
  <2>. QED  BY <1>3, <1>8, <2>5, <2>6, <2>7 DEF TypeOK
<1>16. Numbering'
  <2>1. GoodConnection(conn'[e], queued'[e], Len(delivered'[e]))
        /\ GoodPackets(wire'[e], queued'[e], Len(delivered'[e]))
        /\ GoodUnpacker(unpacker'[e], queued'[Peer(e)])
    BY <1>7, <1>11, <1>12, <1>13 DEF x
  <2>2. GoodConnection(conn'[x], queued'[x], Len(delivered'[x]))
        /\ GoodPackets(wire'[x], queued'[x], Len(delivered'[x]))
        /\ GoodUnpacker(unpacker'[x], queued'[Peer(x)])
    BY <1>1, <1>4, <1>11, <1>14
  <2>. QED  BY <1>1, <1>15, <2>1, <2>2 DEF Numbering
<1>17. Direction(e)'
  <2>1. Recent(u, n)
    <3>1. CASE ~r.accepted
      <4>1. Len(<<>>) = 0 /\ 1 .. 0 = {}  BY EmptySeq
      <4>. QED  BY <3>1, <4>1 DEF Recent, u
    <3>2. CASE r.accepted
      <4>1. SUFFICES ASSUME NEW i \in 1 .. Len(p.chunks)
                     PROVE  p.chunks[i].payload + Lifetime + PacketChunks
                                > n + Len(p.chunks)
        BY <3>2 DEF Recent, u
      <4>2. p.chunks[i].payload + Lifetime > n
        BY <1>6, <1>8 DEF Arrives
      <4>3. p.chunks[i] \in Numbered(queued[x])  BY <1>6, ElementOfSeq
      <4>4. p.chunks[i].payload \in Nat
        <5>1. PICK k \in 1 .. queued[x] :
                p.chunks[i] = [sequence |-> k % NET_MAX_SEQUENCE, payload |-> k]
          BY <4>3 DEF Numbered
        <5>. QED  BY <1>4, <5>1
      <4>5. Len(p.chunks) \in Nat /\ Len(p.chunks) <= PacketChunks
        BY <1>6, LenProperties
      <4>. HIDE DEF n
      <4>. QED  BY <1>3, <4>2, <4>4, <4>5, SizeAssumption, LifetimeAssumption
    <3>. QED  BY <3>1, <3>2
  <2>2. Intact(e)' => Intact(e)  BY <1>8, <1>11 DEF Intact
  <2>. QED  BY <1>3, <1>11, <2>1, <2>2 DEF Direction, x
<1>18. Direction(x)'
  <2>1. Intact(x)' => Intact(x)  BY <1>1, <1>11 DEF Intact
  <2>2. ASSUME Intact(x), r.conn.state = "ONLINE" PROVE Window(r.conn, q, m)
    <3>1. Prefix(delivered[x], q) /\ Window(c, q, m)
      BY <1>1, <1>3, <2>2 DEF Direction
    <3>2. CASE r.conn = c  BY <3>1, <3>2
    <3>3. CASE r.conn # c
      <4>1. /\ AckInWindow(c, p.acked % NET_MAX_SEQUENCE)
            /\ r.conn.peerAck = p.acked % NET_MAX_SEQUENCE
            /\ r.conn.buffer = AckChunks(c.buffer, p.acked % NET_MAX_SEQUENCE)
        BY <1>5, <1>7, <2>2, <3>3
      <4>2. c.buffer \in Seq(Numbered(q)) /\ c.state = "ONLINE"
            /\ c.sequence = q % NET_MAX_SEQUENCE
        BY <1>3, <1>8 DEF GoodConnection, ConnectionOver
      <4>3. m <= q /\ q <= m + BufferChunks  BY <3>1 DEF Prefix
      <4>4. m < p.acked + Lifetime
        <5>1. p.acked + Lifetime > m  BY <1>8 DEF Arrives, x
        <5> HIDE DEF m
        <5>. QED  BY <1>4, <1>6, <5>1, LifetimeAssumption
      <4> HIDE DEF c, q, m
      <4>. QED
        BY <1>3, <1>4, <1>5, <1>6, <3>1, <4>1, <4>2, <4>3, <4>4, AckKeepsWindow
    <3>. QED  BY <3>2, <3>3
  <2>3. Intact(x) => Window(r.conn, q, m)  BY <2>2 DEF Window
  <2>. QED  BY <1>1, <1>3, <1>11, <2>1, <2>3 DEF Direction
<1>. QED  BY <1>1, <1>7, <1>11, <1>16, <1>17, <1>18 DEF IInv

\* Every step keeps the invariant.
LEMMA NextKeeps == IInv /\ [Next]_vars => IInv'
<1>. SUFFICES ASSUME IInv, [Next]_vars PROVE IInv'
  OBVIOUS
<1>1. CASE UNCHANGED vars
  BY <1>1 DEF vars, IInv, Numbering, TypeOK, Direction, Intact
<1>2. CASE Next
  <2>. PICK e \in End :
        \/ \E flush \in BOOLEAN : Send(e, flush)
        \/ SendFlush(e)
        \/ Recv(e)
        \/ FetchChunk(e)
        \/ \E expired, retry, keep \in BOOLEAN,
              clock \in {"recent", "idle", "quiet"} :
                Update(e, expired, retry, keep, clock)
        \/ Drop(e)
        \/ Lose(e)
    BY <1>2 DEF Next
  <2>1. CASE \E flush \in BOOLEAN : Send(e, flush)  BY <2>1, SendKeeps
  <2>2. CASE SendFlush(e)  BY <2>2, SendFlushKeeps
  <2>3. CASE Recv(e)  BY <2>3, RecvKeeps
  <2>4. CASE FetchChunk(e)  BY <2>4, FetchChunkKeeps
  <2>5. CASE \E expired, retry, keep \in BOOLEAN,
               clock \in {"recent", "idle", "quiet"} :
                 Update(e, expired, retry, keep, clock)
    BY <2>5, UpdateKeeps
  <2>6. CASE Drop(e)  BY <2>6, DropKeeps
  <2>7. CASE Lose(e)  BY <2>7, LoseKeeps
  <2>. QED  BY <2>1, <2>2, <2>3, <2>4, <2>5, <2>6, <2>7
<1>. QED  BY <1>1, <1>2

\* The invariant holds in every state that is reached.
LEMMA Inductive == Spec => []IInv
  BY InitIInv, NextKeeps, PTL DEF Spec

\* The variables of either end keep their types: in particular, every number
\* stays below NET_MAX_SEQUENCE, whatever QueueChunk and FetchChunk do to it.
THEOREM TypeCorrect == Spec => []TypeOK
<1>1. IInv => TypeOK  BY DEF IInv, Numbering
<1>. QED  BY <1>1, Inductive, PTL

\* What FetchChunk hands to the application is what the peer's QueueChunk took,
\* once each and in order, for any number space at least twice m_Buffer.
THEOREM DeliveredInOrder == Spec => []InOrder
<1>1. ASSUME IInv PROVE InOrder
  BY <1>1 DEF IInv, Direction, Prefix, InOrder
<1>. QED  BY <1>1, Inductive, PTL

\* AckChunks only removes what the peer received: a stale, repeated or
\* reordered acknowledgement never makes the connection forget a chunk.
THEOREM KeptUntilReceived == Spec => []NothingForgotten
<1>1. ASSUME IInv PROVE NothingForgotten
  <2>1. SUFFICES ASSUME NEW e \in End, Intact(e), conn[Peer(e)].state = "ONLINE",
                        NEW n \in Len(delivered[e]) + 1 .. queued[Peer(e)]
                 PROVE  \E i \in DOMAIN conn[Peer(e)].buffer :
                            conn[Peer(e)].buffer[i].payload = n
    BY DEF NothingForgotten
  <2> DEFINE b == conn[Peer(e)].buffer
             q == queued[Peer(e)]
  <2>2. Peer(e) \in End /\ q \in Nat /\ Len(delivered[e]) \in Nat
        /\ GoodConnection(conn[Peer(e)], q, Len(delivered[Peer(e)]))
    BY <1>1, Peers, Instance
  <2>3. b \in Seq(Numbered(q))  BY <2>2 DEF GoodConnection, ConnectionOver
  <2>4. Len(b) \in Nat /\ DOMAIN b = 1 .. Len(b)  BY <2>3, LenProperties
  <2>5. /\ Len(b) <= q /\ q - Len(b) <= Len(delivered[e])
        /\ \A i \in 1 .. Len(b) : b[i].payload = (q - Len(b)) + i
    BY <1>1, <2>1 DEF IInv, Direction, Window
  <2> HIDE DEF b, q
  <2>6. n \in Int /\ n <= q /\ Len(delivered[e]) + 1 <= n
    BY <2>2 DEF q
  <2> DEFINE i == n - (q - Len(b))
  <2>7. i \in 1 .. Len(b) /\ (q - Len(b)) + i = n
    BY <2>2, <2>4, <2>5, <2>6
  <2>8. b[i].payload = n  BY <2>5, <2>7
  <2> HIDE DEF i
  <2>. QED  BY <2>4, <2>7, <2>8 DEF b
<1>. QED  BY <1>1, Inductive, PTL

-----------------------------------------------------------------------------
(* The refinement.                                                         *)

\* What a step on end e's connection does to the directions.
LEMMA IntactOf ==
    ASSUME TypeOK, NEW e \in End, NEW d, conn' = [conn EXCEPT ![e] = d],
           overflow' = overflow
    PROVE  /\ Intact(Peer(e))' = Intact(Peer(e))
           /\ d.state # "OFFLINE" /\ conn[e].state # "OFFLINE"
                => Intact(e)' = Intact(e)
           /\ d.state = "OFFLINE" => Intact(e)' = FALSE
<1>1. /\ Peer(e) \in End /\ Peer(e) # e
      /\ conn'[e] = d /\ conn'[Peer(e)] = conn[Peer(e)]
  BY Peers DEF TypeOK
<1>. QED  BY <1>1 DEF Intact

\* The channel's ends are the two ends of the connection.
LEMMA ChannelNames ==
    /\ Channel!Ends = End
    /\ \A e \in End : Channel!Other(e) = Peer(e)
BY DEF Channel!Ends, End, Channel!Other, Peer

\* Only the state of an end changes: the direction into it may close.
LEMMA QuietSimulates ==
    ASSUME IInv, NEW e \in End, NEW d, conn' = [conn EXCEPT ![e] = d],
           d.state # "OFFLINE" => conn[e].state # "OFFLINE",
           UNCHANGED <<queued, delivered, overflow>>
    PROVE  Channel!Next \/ UNCHANGED Channel!channelVars
<1> DEFINE i == [x \in End |-> Intact(x)]
<1>1. TypeOK  BY Instance
<1>2. /\ Intact(Peer(e))' = Intact(Peer(e))
      /\ d.state # "OFFLINE" /\ conn[e].state # "OFFLINE"
                => Intact(e)' = Intact(e)
      /\ d.state = "OFFLINE" => Intact(e)' = FALSE
      /\ \A x \in End : x = e \/ x = Peer(e)
  BY <1>1, IntactOf, Peers
<1>3. CASE d.state # "OFFLINE"
  <2>1. \A x \in End : Intact(x)' = Intact(x)
    BY <1>2, <1>3
  <2>2. i' = i  BY <2>1
  <2>. QED  BY <2>2 DEF Channel!channelVars
<1>4. CASE d.state = "OFFLINE"
  <2>1. i' = [i EXCEPT ![e] = FALSE]
    <3>1. \A x \in End : Intact(x)' = IF x = e THEN FALSE ELSE Intact(x)
      BY <1>2, <1>4, Peers
    <3>. QED  BY <3>1
  <2>2. Channel!Close(e)  BY <2>1 DEF Channel!Close
  <2>. QED  BY <2>2, ChannelNames DEF Channel!Next
<1>. QED  BY <1>3, <1>4

\* Send is the channel's send, its break (m_Buffer is full) or a stutter.
LEMMA SendSimulates ==
    ASSUME IInv, NEW e \in End, NEW flush \in BOOLEAN, Send(e, flush)
    PROVE  Channel!Next \/ UNCHANGED Channel!channelVars
<1> DEFINE i == [x \in End |-> Intact(x)]
           online == conn[e].state = "ONLINE"
           over == online /\ ~(Len(conn[e].buffer) < BufferChunks)
           y == Peer(e)
<1>1. /\ TypeOK /\ conn'[e].state # "OFFLINE" /\ conn[e].state # "OFFLINE"
      /\ y \in End /\ y # e /\ Peer(y) = e /\ \A x \in End : x = e \/ x = y
  BY SendKeeps, Instance, Peers DEF Send
<1>2. /\ \E d : conn' = [conn EXCEPT ![e] = d]
      /\ queued' = [queued EXCEPT ![e] = @ + (IF online THEN 1 ELSE 0)]
      /\ overflow' = [overflow EXCEPT ![e] = @ \/ over]
      /\ UNCHANGED delivered
  BY DEF Send, Become
<1> HIDE DEF online, over, y
<1>3. /\ Intact(e)' = Intact(e)
      /\ Intact(y)' = (Intact(y) /\ ~over)
  <2>1. conn'[y] = conn[y] /\ overflow'[y] = overflow[y]
        /\ overflow'[e] = (overflow[e] \/ over)
    BY <1>1, <1>2 DEF TypeOK
  <2>. QED  BY <1>1, <2>1 DEF Intact, y
<1>4. CASE online
  <2>1. queued' = [queued EXCEPT ![e] = @ + 1]  BY <1>2, <1>4
  <2>2. i' = i \/ i' = [i EXCEPT ![y] = FALSE]
    <3>1. CASE over
      <4>1. \A x \in End : Intact(x)' = IF x = y THEN FALSE ELSE Intact(x)
        BY <1>1, <1>3, <3>1
      <4>. QED  BY <4>1
    <3>2. CASE ~over
      <4>1. \A x \in End : Intact(x)' = Intact(x)  BY <1>1, <1>3, <3>2 DEF Intact
      <4>. QED  BY <4>1
    <3>. QED  BY <3>1, <3>2
  <2>3. Channel!Other(e) = y  BY ChannelNames DEF y
  <2>4. Channel!Queue(e)
    BY <1>2, <2>1, <2>2, <2>3 DEF Channel!Queue
  <2>. QED  BY <2>4, ChannelNames DEF Channel!Next
<1>5. CASE ~online
  <2>1. queued' = queued  BY <1>1, <1>2, <1>5 DEF TypeOK
  <2>2. ~over  BY <1>5 DEF over
  <2>3. \A x \in End : Intact(x)' = Intact(x)
    BY <1>1, <1>3, <2>2 DEF Intact
  <2>4. i' = i  BY <2>3
  <2>. QED  BY <1>2, <2>1, <2>4 DEF Channel!channelVars
<1>. QED  BY <1>4, <1>5

\* FetchChunk is the channel's receive, when it accepts the chunk, or a stutter.
LEMMA FetchChunkSimulates ==
    ASSUME IInv, NEW e \in End, FetchChunk(e)
    PROVE  Channel!Next \/ UNCHANGED Channel!channelVars
<1> DEFINE i == [x \in End |-> Intact(x)]
           c == conn[e]
           u == unpacker[e]
           chunk == Head(u)
           q == queued[Peer(e)]
<1>1. TypeOK /\ IInv'  BY Instance, FetchChunkKeeps
<1>2. /\ u # <<>>
      /\ \E d : conn' = [conn EXCEPT ![e] = d]
      /\ conn'[e].state = c.state
      /\ UNCHANGED <<queued, overflow>>
      /\ delivered' = [delivered EXCEPT ![e] =
            IF InSequence(c, chunk) THEN Append(@, chunk.payload) ELSE @]
  BY <1>1 DEF FetchChunk, TypeOK, Connection
<1>3. i' = i
  <2>1. conn'[Peer(e)] = conn[Peer(e)] /\ conn'[e].state = conn[e].state
    BY <1>1, <1>2, Peers DEF TypeOK
  <2>2. \A x \in End : Intact(x)' = Intact(x)
    BY <1>2, <2>1, Peers DEF Intact
  <2>. QED  BY <2>2
<1>4. CASE ~InSequence(c, chunk)
  <2>1. delivered' = delivered  BY <1>1, <1>2, <1>4 DEF TypeOK
  <2>. QED  BY <1>2, <1>3, <2>1 DEF Channel!channelVars
<1>5. CASE InSequence(c, chunk)
  <2>1. delivered' = [delivered EXCEPT ![e] = Append(@, chunk.payload)]
    BY <1>2, <1>5
  <2>2. chunk \in Numbered(q)
    <3>1. u \in Seq(Numbered(q))  BY Instance DEF GoodUnpacker
    <3>. HIDE DEF u
    <3>. QED  BY <1>2, <3>1, HeadTailProperties
  <2>3. chunk.payload \in 1 .. q
    <3>1. PICK m \in 1 .. q :
            chunk = [sequence |-> m % NET_MAX_SEQUENCE, payload |-> m]
      BY <2>2 DEF Numbered
    <3>. QED  BY <3>1
  <2> HIDE DEF chunk
  <2>4. i[e] => chunk.payload = Len(delivered[e]) + 1
    <3>1. SUFFICES ASSUME Intact(e) PROVE chunk.payload = Len(delivered[e]) + 1
      OBVIOUS
    <3>2. Direction(e)' /\ Intact(e)'
      <4>1. i[e] = Intact(e) /\ i'[e] = Intact(e)'  OBVIOUS
      <4>2. Intact(e)'  BY <1>3, <3>1, <4>1
      <4>. QED  BY <1>1, <4>2 DEF IInv
    <3>3. \A k \in 1 .. Len(delivered'[e]) : delivered'[e][k] = k
      BY <3>2 DEF Direction, Prefix
    <3>4. delivered[e] \in Seq(Nat) /\ chunk.payload \in Nat
          /\ delivered'[e] = Append(delivered[e], chunk.payload)
      BY <1>1, <2>1, <2>3 DEF TypeOK
    <3>5. /\ Len(delivered'[e]) = Len(delivered[e]) + 1
          /\ delivered'[e][Len(delivered[e]) + 1] = chunk.payload
          /\ Len(delivered[e]) \in Nat
      BY <3>4, AppendProperties, LenProperties
    <3>. QED  BY <3>3, <3>5
  <2>5. Channel!Deliver(e)
    <3>1. Channel!Other(e) = Peer(e)  BY ChannelNames
    <3>. HIDE DEF i
    <3>2. UNCHANGED <<queued, i>>  BY <1>2, <1>3
    <3>. QED  BY <2>1, <2>3, <2>4, <3>1, <3>2 DEF Channel!Deliver, i
  <2>. QED  BY <2>5, ChannelNames DEF Channel!Next
<1>. QED  BY <1>4, <1>5

\* Each direction of a connection is a first-in first-out channel until it
\* breaks: QueueChunk is the channel's Queue, FetchChunk's delivery is its
\* Deliver, a Disconnect its Close, and everything else, the whole machinery
\* of repeats and acknowledgements, is invisible.
THEOREM Refinement == Spec => ImplementsChannel
<1>1. Init => Channel!Init
  <2>1. SUFFICES ASSUME Init PROVE Channel!Init  OBVIOUS
  <2>2. \A e \in End : Intact(e) = TRUE
    BY <2>1, Peers DEF Init, Intact, Fresh
  <2>3. [e \in End |-> Intact(e)] = [e \in End |-> TRUE]  BY <2>2
  <2>. QED  BY <2>1, <2>3, ChannelNames DEF Init, Channel!Init
<1>2. IInv /\ [Next]_vars => [Channel!Next]_(Channel!channelVars)
  <2>. SUFFICES ASSUME IInv, [Next]_vars
                PROVE  Channel!Next \/ UNCHANGED Channel!channelVars
    OBVIOUS
  <2>1. CASE UNCHANGED vars
    BY <2>1 DEF vars, Channel!channelVars, Intact
  <2>2. CASE Next
    <3>. PICK e \in End :
          \/ \E flush \in BOOLEAN : Send(e, flush)
          \/ SendFlush(e)
          \/ Recv(e)
          \/ FetchChunk(e)
          \/ \E expired, retry, keep \in BOOLEAN,
                clock \in {"recent", "idle", "quiet"} :
                  Update(e, expired, retry, keep, clock)
          \/ Drop(e)
          \/ Lose(e)
      BY <2>2 DEF Next
    <3>0. TypeOK  BY Instance
    <3>1. CASE \E flush \in BOOLEAN : Send(e, flush)  BY <3>1, SendSimulates
    <3>2. CASE SendFlush(e)
      <4>1. PICK d : conn' = [conn EXCEPT ![e] = d]
        BY <3>2 DEF SendFlush, Become
      <4>2. conn[e].state # "OFFLINE" /\ UNCHANGED <<queued, delivered, overflow>>
        BY <3>2 DEF SendFlush
      <4>. QED  BY <4>1, <4>2, QuietSimulates
    <3>3. CASE Recv(e)
      <4>1. PICK d : conn' = [conn EXCEPT ![e] = d]
        BY <3>3 DEF Recv
      <4>2. conn[e].state # "OFFLINE" /\ UNCHANGED <<queued, delivered, overflow>>
        BY <3>3 DEF Recv
      <4>. QED  BY <4>1, <4>2, QuietSimulates
    <3>4. CASE FetchChunk(e)  BY <3>4, FetchChunkSimulates
    <3>5. CASE \E expired, retry, keep \in BOOLEAN,
                 clock \in {"recent", "idle", "quiet"} :
                   Update(e, expired, retry, keep, clock)
      <4>1. /\ conn[e].state # "OFFLINE"
            /\ \E d : conn' = [conn EXCEPT ![e] = d]
            /\ UNCHANGED <<queued, delivered, overflow>>
        BY <3>5, UpdateKeeps
      <4>. QED  BY <4>1, QuietSimulates
    <3>6. CASE Drop(e)
      <4>1. PICK d : conn' = [conn EXCEPT ![e] = d]
        BY <3>6 DEF Drop, Become
      <4>2. conn[e].state # "OFFLINE" /\ UNCHANGED <<queued, delivered, overflow>>
        BY <3>6 DEF Drop
      <4>. QED  BY <4>1, <4>2, QuietSimulates
    <3>7. CASE Lose(e)
      <4>1. UNCHANGED <<conn, queued, delivered, overflow>>  BY <3>7 DEF Lose
      <4>. QED  BY <4>1 DEF Channel!channelVars, Intact
    <3>. QED  BY <3>1, <3>2, <3>3, <3>4, <3>5, <3>6, <3>7
  <2>. QED  BY <2>1, <2>2
<1>. QED  BY <1>1, <1>2, Inductive, PTL DEF Spec, ImplementsChannel, Channel!Spec

=============================================================================
