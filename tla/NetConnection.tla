---------------------------- MODULE NetConnection ----------------------------
(***************************************************************************)
(* The two ends of an established CNetConnection: vital chunks are         *)
(* numbered modulo NET_MAX_SEQUENCE, kept in m_Buffer until acknowledged,   *)
(* and repeated on request or on a timer, over UDP, which loses, repeats    *)
(* and reorders packets.  Non-vital chunks carry no number and are not     *)
(* kept; a packet that holds only them is, here, a keep-alive.              *)
(*                                                                         *)
(* A chunk carries the ghost `payload': the n-th vital chunk its end queued *)
(* carries n.  Establishing a session is the business of CNetServer.        *)
(***************************************************************************)
EXTENDS Integers, Sequences, FiniteSets

CONSTANTS
    Client,             \* the end CNetClient drives
    Server,             \* the end CNetServer drives
    NET_MAX_SEQUENCE,
    BufferChunks,       \* how many chunks fit NET_CONN_BUFFERSIZE
    PacketChunks,       \* how many chunks fit m_Construct.m_aChunkData
    CountModulus,       \* the header's chunk count is one byte: 2^8
    Lifetime,           \* how far behind its receiver a packet can still arrive
    MaxSend,            \* bound: vital chunks each end queues
    MaxPackets          \* bound: packets of each end in flight

End == {Client, Server}

Peer(e) == IF e = Client THEN Server ELSE Client

ASSUME EndAssumption == Client # Server

ASSUME SizeAssumption ==
    /\ NET_MAX_SEQUENCE \in Nat \ {0}
    /\ PacketChunks \in Nat \ {0}
    /\ CountModulus \in Nat \ {0}
    /\ MaxSend \in [End -> Nat]
    /\ MaxPackets \in [End -> Nat]

\* 32 KB hold at most 455 chunks, less than half of the 1024 numbers.
ASSUME BufferAssumption ==
    BufferChunks \in Nat \ {0} /\ 2 * BufferChunks < NET_MAX_SEQUENCE

\* The network forgets a packet before the numbers wrap around to it.
ASSUME LifetimeAssumption ==
    /\ Lifetime \in Nat
    /\ BufferChunks + Lifetime <= NET_MAX_SEQUENCE
    /\ PacketChunks + Lifetime <= NET_MAX_SEQUENCE

VARIABLES
    conn,       \* the CNetConnection of each end
    unpacker,   \* what the end's m_RecvUnpacker has still to hand out
    wire,       \* packets of each end that are in flight
    queued,     \* ghost: vital chunks the end put into a packet
    delivered,  \* ghost: payloads the end's application received
    overflow    \* ghost: the end sent a chunk that m_Buffer had no room for

vars == <<conn, unpacker, wire, queued, delivered, overflow>>

SequenceNumber == 0 .. NET_MAX_SEQUENCE - 1

Chunk == [sequence : SequenceNumber, payload : Nat \ {0}]

\* `acked' is a ghost: how many chunks the sender had received.
Packet == [kind : {"chunks", "keepalive", "close"}, ack : SequenceNumber,
           resend : BOOLEAN, chunks : Seq(Chunk), acked : Nat]

Connection ==
    [state : {"ONLINE", "ERROR", "OFFLINE"},
     sequence : SequenceNumber, ack : SequenceNumber, peerAck : SequenceNumber,
     buffer : Seq(Chunk), construct : Seq(Chunk), resendFlag : BOOLEAN,
     remoteClosed : BOOLEAN, timeoutSituation : BOOLEAN]

TypeOK ==
    /\ conn \in [End -> Connection]
    /\ unpacker \in [End -> Seq(Chunk)]
    /\ wire \in [End -> SUBSET Packet]
    /\ queued \in [End -> Nat]
    /\ delivered \in [End -> Seq(Nat)]
    /\ overflow \in [End -> BOOLEAN]

\* After DirectInit on one side and CONNECTACCEPT on the other.
Fresh ==
    [state |-> "ONLINE", sequence |-> 0, ack |-> 0, peerAck |-> 0,
     buffer |-> <<>>, construct |-> <<>>, resendFlag |-> FALSE,
     remoteClosed |-> FALSE, timeoutSituation |-> FALSE]

Init ==
    /\ conn = [e \in End |-> Fresh]
    /\ unpacker = [e \in End |-> <<>>]
    /\ wire = [e \in End |-> {}]
    /\ queued = [e \in End |-> 0]
    /\ delivered = [e \in End |-> <<>>]
    /\ overflow = [e \in End |-> FALSE]

-----------------------------------------------------------------------------
(* Sequence arithmetic.                                                    *)

\* Mutant: the number is never wrapped.
SuccessorUnwrapped(s) == s + 1

Successor(s) == (s + 1) % NET_MAX_SEQUENCE

\* CNetBase::IsSeqInBackroom: s is one of the numbers up to and including a.
IsSeqInBackroom(s, a) ==
    LET bottom == a - NET_MAX_SEQUENCE \div 2
    IN  IF bottom < 0
        THEN s <= a \/ s >= bottom + NET_MAX_SEQUENCE
        ELSE s <= a /\ s >= bottom

\* Mutant: whatever is not old is taken.
InSequenceOrNewer(c, chunk) == ~IsSeqInBackroom(chunk.sequence, c.ack)

\* Mutant: whatever arrives is taken.
InSequenceAlways(c, chunk) == TRUE

\* The chunk the connection waits for.
InSequence(c, chunk) == chunk.sequence = Successor(c.ack)

\* Mutant: no window test.
AckAlwaysInWindow(c, a) == TRUE

\* The window test of Feed: a packet may only acknowledge m_PeerAck..m_Sequence.
AckInWindow(c, a) ==
    IF c.sequence >= c.peerAck
    THEN c.peerAck <= a /\ a <= c.sequence
    ELSE c.peerAck <= a \/ a <= c.sequence

-----------------------------------------------------------------------------
(* The connection's own functions, on one end's record.  Those that may    *)
(* send return the connection and the packets given to the socket.          *)

\* SendPacket writes the number of chunks as one byte, so the receiver sees
\* only that many of them.
OnWire(chunks) == SubSeq(chunks, 1, Len(chunks) % CountModulus)

\* The packet Flush makes out of these chunks.
DataPacket(c, chunks, resend, acked) ==
    [kind |-> "chunks", ack |-> c.ack, resend |-> resend,
     chunks |-> OnWire(chunks), acked |-> acked]

Control(c, kind, acked) ==
    [kind |-> kind, ack |-> c.ack, resend |-> FALSE, chunks |-> <<>>,
     acked |-> acked]

Flush(c, acked) ==
    IF c.construct = <<>> /\ ~c.resendFlag
    THEN [conn |-> c, sent |-> {}]
    ELSE [conn |-> [c EXCEPT !.construct = <<>>, !.resendFlag = FALSE],
          sent |-> {DataPacket(c, c.construct, c.resendFlag, acked)}]

\* QueueChunkEx for each of these chunks, up to the copy kept for a resend:
\* whenever the next one does not fit, what has accumulated is flushed.  A
\* requested resend rides in the first packet flushed.
QueueChunks(c, chunks, acked) ==
    LET all  == c.construct \o chunks
        full == IF all = <<>> THEN 0 ELSE (Len(all) - 1) \div PacketChunks
        Full(k) == SubSeq(all, (k - 1) * PacketChunks + 1, k * PacketChunks)
    IN  [conn |-> [c EXCEPT
            !.construct = SubSeq(all, full * PacketChunks + 1, Len(all)),
            !.resendFlag = @ /\ full = 0],
         sent |-> {DataPacket(c, Full(k), c.resendFlag /\ k = 1, acked) :
                       k \in 1 .. full}]

\* How many chunks at the head of m_Buffer the number a acknowledges.
Acknowledged(buffer, a) ==
    CHOOSE k \in 0 .. Len(buffer) :
        /\ \A i \in 1 .. k : IsSeqInBackroom(buffer[i].sequence, a)
        /\ k < Len(buffer) => ~IsSeqInBackroom(buffer[k + 1].sequence, a)

AckChunks(buffer, a) ==
    SubSeq(buffer, Acknowledged(buffer, a) + 1, Len(buffer))

\* Reset(false); the unpacker belongs to CNetClient/CNetServer and stays.
Reset(c) == [Fresh EXCEPT !.state = "OFFLINE"]

Disconnect(c, acked) ==
    [conn |-> IF c.state = "OFFLINE" THEN c ELSE Reset(c),
     sent |-> IF c.state = "OFFLINE" \/ c.remoteClosed \/ c.timeoutSituation
              THEN {} ELSE {Control(c, "close", acked)}]

TimeOut(c) == [c EXCEPT !.state = "ERROR", !.timeoutSituation = TRUE]

\* Feed: a packet outside the window is dropped; then a requested resend is
\* served (before the acknowledged chunks leave the buffer), and a CLOSE ends
\* the session.
Feed(c, p, acked) ==
    LET d == [c EXCEPT !.peerAck = p.ack]
        r == IF p.resend THEN QueueChunks(d, d.buffer, acked)
                         ELSE [conn |-> d, sent |-> {}]
    IN  IF ~AckInWindow(c, p.ack)
        THEN [conn |-> c, sent |-> {}, accepted |-> FALSE]
        ELSE IF p.kind = "close"
        THEN [conn |-> [r.conn EXCEPT !.state = "ERROR", !.remoteClosed = TRUE],
              sent |-> r.sent, accepted |-> FALSE]
        ELSE [conn |-> [r.conn EXCEPT !.buffer = AckChunks(@, p.ack)],
              sent |-> r.sent, accepted |-> TRUE]

\* Update.  The clock decides whether the peer was silent, or the oldest chunk
\* unacknowledged, for m_ConnTimeout (or, when timed out already, for
\* m_ConnTimeoutProtection): expired; whether that chunk was last sent over a
\* second ago: retry; and whether the last packet is half a second old, "idle",
\* or a whole one, "quiet".
UpdateTimeout(c, expired) ==
    IF c.state = "ERROR" THEN [c EXCEPT !.timeoutSituation = @ /\ ~expired]
    ELSE IF expired      THEN TimeOut(c)
    ELSE                      [c EXCEPT !.timeoutSituation = FALSE]

\* Mutant: only a request makes the connection repeat a chunk.
UpdateNoResend(c, retry, acked) == [conn |-> c, sent |-> {}]

UpdateResend(c, retry, acked) ==
    IF retry /\ c.buffer # <<>> /\ c.state = "ONLINE"
    THEN QueueChunks(c, <<Head(c.buffer)>>, acked)
    ELSE [conn |-> c, sent |-> {}]

UpdateFlush(c, clock, acked) ==
    LET f == Flush(c, acked)
    IN  IF c.state # "ONLINE" \/ clock = "recent"
        THEN [conn |-> c, sent |-> {}]
        ELSE [conn |-> f.conn,
              sent |-> IF clock = "quiet" /\ f.sent = {}
                       THEN {Control(c, "keepalive", acked)} ELSE f.sent]

-----------------------------------------------------------------------------
(* Actions.                                                                *)

\* New packets join those in flight; beyond the bound, they replace them: what
\* was in flight is lost.
Transmit(inFlight, sent, bound) ==
    IF Cardinality(inFlight \cup sent) <= bound THEN inFlight \cup sent ELSE sent

\* The step leaves end e with the connection r.conn and sends r.sent.
Become(e, r) ==
    /\ conn' = [conn EXCEPT ![e] = r.conn]
    /\ wire' = [wire EXCEPT ![e] = Transmit(@, r.sent, MaxPackets[e])]

\* CNetClient::Send and CNetServer::Send of one vital chunk, with or without
\* NETSENDFLAG_FLUSH: QueueChunk takes the next number even when the chunk
\* then goes nowhere; a chunk that finds m_Buffer full is sent all the same,
\* but not kept, and the server then skips the flush.
Send(e, flush) ==
    LET c     == conn[e]
        acked == Len(delivered[e])
        next  == [c EXCEPT !.sequence = Successor(@)]
        chunk == [sequence |-> next.sequence, payload |-> queued[e] + 1]
        room  == Len(c.buffer) < BufferChunks
        q     == QueueChunks(next, <<chunk>>, acked)
        kept  == IF room THEN [q.conn EXCEPT !.buffer = Append(@, chunk)]
                         ELSE q.conn
        ok    == c.state = "ONLINE" /\ room
        base  == IF c.state = "ONLINE" THEN [conn |-> kept, sent |-> q.sent]
                                       ELSE [conn |-> next, sent |-> {}]
        f     == Flush(base.conn, acked)
    IN  /\ c.state # "OFFLINE"
        /\ queued[e] < MaxSend[e]
        /\ Become(e, IF flush /\ (ok \/ e = Client)
                     THEN [conn |-> f.conn, sent |-> base.sent \cup f.sent]
                     ELSE base)
        /\ queued' = [queued EXCEPT ![e] = @ + (IF c.state = "ONLINE" THEN 1 ELSE 0)]
        /\ overflow' = [overflow EXCEPT ![e] = @ \/ (c.state = "ONLINE" /\ ~room)]
        /\ UNCHANGED <<unpacker, delivered>>

\* The application flushes (CNetClient::Flush, or the FLUSH flag on a
\* non-vital chunk such as a snapshot or an input).
SendFlush(e) ==
    /\ conn[e].state = "ONLINE"
    /\ Become(e, Flush(conn[e], Len(delivered[e])))
    /\ UNCHANGED <<unpacker, queued, delivered, overflow>>

\* A packet can still arrive: it is not Lifetime numbers behind its receiver.
Arrives(e, p) ==
    /\ \A i \in DOMAIN p.chunks : p.chunks[i].payload + Lifetime > Len(delivered[e])
    /\ p.acked + Lifetime > Len(delivered[Peer(e)])

\* CNetClient::Recv and CNetServer::Recv up to the first FetchChunk: the next
\* packet is fed to the connection (unless its end is OFFLINE or ERROR) and,
\* when accepted, its chunks go to the unpacker.
Recv(e) ==
    \E p \in wire[Peer(e)], duplicated \in BOOLEAN :
        LET r == Feed(conn[e], p, Len(delivered[e]))
        IN  /\ conn[e].state = "ONLINE"
            /\ unpacker[e] = <<>>
            /\ Arrives(e, p)
            /\ conn' = [conn EXCEPT ![e] = r.conn]
            /\ wire' = [wire EXCEPT
                    ![e] = Transmit(@, r.sent, MaxPackets[e]),
                    ![Peer(e)] = IF duplicated THEN @ ELSE @ \ {p}]
            /\ unpacker' = [unpacker EXCEPT
                    ![e] = IF r.accepted THEN p.chunks ELSE <<>>]
            /\ UNCHANGED <<queued, delivered, overflow>>

\* FetchChunk for the next vital chunk of the packet, at whatever state the
\* application left the connection in while it handled the one before.
FetchChunk(e) ==
    LET chunk == Head(unpacker[e])
        c     == conn[e]
        old == IsSeqInBackroom(chunk.sequence, c.ack)
    IN  /\ unpacker[e] # <<>>
        /\ unpacker' = [unpacker EXCEPT ![e] = Tail(@)]
        /\ conn' = [conn EXCEPT ![e] =
                IF InSequence(c, chunk) THEN [c EXCEPT !.ack = chunk.sequence]
                ELSE IF old   THEN c
                ELSE [c EXCEPT !.resendFlag = TRUE]]
        /\ delivered' = [delivered EXCEPT ![e] =
                IF InSequence(c, chunk) THEN Append(@, chunk.payload) ELSE @]
        /\ UNCHANGED <<wire, queued, overflow>>

\* CNetClient::Update and CNetServer::Update, which run when the socket has
\* been drained.  A failed session is disconnected, except that the server may
\* keep the slot of a protected or a disruptive player.
Update(e, expired, retry, keep, clock) ==
    LET acked == Len(delivered[e])
        r == UpdateResend(UpdateTimeout(conn[e], expired), retry, acked)
        f == UpdateFlush(r.conn, clock, acked)
        d == Disconnect(f.conn, acked)
        dropped == f.conn.state = "ERROR" /\ ~(keep /\ e = Server)
    IN  /\ unpacker[e] = <<>>
        /\ conn[e].state # "OFFLINE"
        /\ Become(e, [conn |-> IF dropped THEN d.conn ELSE f.conn,
                      sent |-> r.sent \cup f.sent \cup
                               IF dropped THEN d.sent ELSE {}])
        /\ UNCHANGED <<unpacker, queued, delivered, overflow>>

\* CNetClient::Disconnect or CNetServer::Drop, which the application may also
\* call from inside the handler of a chunk, with more chunks to unpack.
Drop(e) ==
    /\ conn[e].state # "OFFLINE"
    /\ Become(e, Disconnect(conn[e], Len(delivered[e])))
    /\ UNCHANGED <<unpacker, queued, delivered, overflow>>

\* UDP loses a packet.
Lose(e) ==
    \E p \in wire[e] :
        /\ wire' = [wire EXCEPT ![e] = @ \ {p}]
        /\ UNCHANGED <<conn, unpacker, queued, delivered, overflow>>

Next ==
    \E e \in End :
        \/ \E flush \in BOOLEAN : Send(e, flush)
        \/ SendFlush(e)
        \/ Recv(e)
        \/ FetchChunk(e)
        \/ \E expired, retry, keep \in BOOLEAN,
              clock \in {"recent", "idle", "quiet"} :
                Update(e, expired, retry, keep, clock)
        \/ Drop(e)
        \/ Lose(e)

Spec == Init /\ [][Next]_vars

\* Packets with the chunk an end waits for, and packets that acknowledge
\* something new: the link is fair if those in flight time and again also
\* arrive time and again.
Awaited(e, p) == \E i \in DOMAIN p.chunks :
                    p.chunks[i].payload = Len(delivered[e]) + 1

Acknowledging(e, p) == conn[e].buffer # <<>> /\ Acknowledged(conn[e].buffer, p.ack) > 0

RecvAwaited(e) == Recv(e) /\ \E p \in {[chunks |-> unpacker'[e]]} : Awaited(e, p)

RecvAck(e) == Recv(e) /\ Len(conn'[e].buffer) < Len(conn[e].buffer)

FairLink(e) ==
    /\ []<>(\E p \in wire[Peer(e)] : Awaited(e, p)) => []<><<RecvAwaited(e)>>_vars
    /\ []<>(\E p \in wire[Peer(e)] : Acknowledging(e, p)) => []<><<RecvAck(e)>>_vars

\* The oldest chunk goes out again.  Update flushes after half a second and
\* repeats a chunk after a whole one: nothing waits to be flushed then.
Repeat(e) ==
    /\ conn[e].buffer # <<>> /\ conn[e].construct = <<>>
    /\ Update(e, FALSE, TRUE, TRUE, "quiet")

\* Both main loops keep draining the socket, and call Update every time they
\* have; its timers do go off.
Fairness ==
    \A e \in End :
        /\ SF_vars(Update(e, FALSE, FALSE, TRUE, "quiet"))
        /\ SF_vars(Repeat(e))
        /\ WF_vars(FetchChunk(e))
        /\ FairLink(e)

FairSpec == Spec /\ Fairness

-----------------------------------------------------------------------------
(* Safety.                                                                 *)

\* The direction into end e: nothing was sent without a copy, and e has not
\* reset its connection.
Intact(e) == ~overflow[Peer(e)] /\ conn[e].state # "OFFLINE"

\* Each application receives the vital chunks of its peer exactly once, in the
\* order they were queued, whatever the network does: FetchChunk compares
\* numbers modulo NET_MAX_SEQUENCE only.
InOrder ==
    \A e \in End : Intact(e) =>
        /\ Len(delivered[e]) <= queued[Peer(e)]
        /\ \A i \in 1 .. Len(delivered[e]) : delivered[e][i] = i

\* What the peer has not received yet can still be sent again: AckChunks never
\* lets go of it, however late or repeated the packet whose number it reads.
NothingForgotten ==
    \A e \in End : Intact(e) /\ conn[Peer(e)].state = "ONLINE" =>
        \A n \in Len(delivered[e]) + 1 .. queued[Peer(e)] :
            \E i \in DOMAIN conn[Peer(e)].buffer :
                conn[Peer(e)].buffer[i].payload = n
Up == \A e \in End : conn[e].state = "ONLINE"

\* State constraint: nothing is explored past a failed or closed session, nor
\* past a chunk sent without a copy.
Undisturbed == Up /\ \A e \in End : ~overflow[e]

\* As long as neither end fails or leaves, every vital chunk queued with a copy
\* in m_Buffer reaches the other application: request and timer repair any
\* loss, including that of whole packets whose chunk count overflowed a byte.
Delivery ==
    \A e \in End :
        \A n \in 1 .. MaxSend[e] :
            queued[e] >= n ~> \/ Len(delivered[Peer(e)]) >= n
                              \/ ~Up \/ overflow[e]

-----------------------------------------------------------------------------
(* The abstract channels.                                                  *)

Channel == INSTANCE ReliableChannel WITH
    intact <- [e \in End |-> Intact(e)]

\* Each direction is a first-in first-out channel for as long as it is intact.
ImplementsChannel == Channel!Spec
=============================================================================
