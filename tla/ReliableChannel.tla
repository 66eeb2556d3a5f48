--------------------------- MODULE ReliableChannel ---------------------------
(***************************************************************************)
(* What a pair of CNetConnections promises for vital chunks: in each        *)
(* direction a first-in first-out channel of unbounded capacity.  The n-th  *)
(* chunk queued carries n.  A direction may break for good: then nothing is *)
(* promised of it any more.                                                 *)
(***************************************************************************)
EXTENDS Naturals, Sequences

CONSTANTS Client, Server

VARIABLES
    queued,     \* how many chunks each end has queued
    delivered,  \* what each end's application has received
    intact      \* whether the direction into the end still keeps its promise

channelVars == <<queued, delivered, intact>>

Ends == {Client, Server}

Other(e) == IF e = Client THEN Server ELSE Client

Init ==
    /\ queued = [e \in Ends |-> 0]
    /\ delivered = [e \in Ends |-> <<>>]
    /\ intact = [e \in Ends |-> TRUE]

\* An end queues a chunk; that may be one chunk too many, and break the
\* direction it travels in.
Queue(e) ==
    /\ queued' = [queued EXCEPT ![e] = @ + 1]
    /\ \/ UNCHANGED intact
       \/ intact' = [intact EXCEPT ![Other(e)] = FALSE]
    /\ UNCHANGED delivered

\* The next chunk arrives; on a broken direction, any that was ever queued.
Deliver(e) ==
    /\ \E n \in 1 .. queued[Other(e)] :
          /\ intact[e] => n = Len(delivered[e]) + 1
          /\ delivered' = [delivered EXCEPT ![e] = Append(@, n)]
    /\ UNCHANGED <<queued, intact>>

\* An end closes the session.
Close(e) ==
    /\ intact' = [intact EXCEPT ![e] = FALSE]
    /\ UNCHANGED <<queued, delivered>>

Next == \E e \in Ends : Queue(e) \/ Deliver(e) \/ Close(e)

Spec == Init /\ [][Next]_channelVars
=============================================================================
