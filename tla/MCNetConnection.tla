--------------------------- MODULE MCNetConnection ---------------------------
(* Small instances of NetConnection for TLC. *)
EXTENDS NetConnection

\* Only the client sends vital chunks; the server acknowledges.
OneWay == [e \in End |-> IF e = Client THEN 5 ELSE 0]

TwoOneWay == [e \in End |-> IF e = Client THEN 2 ELSE 0]

\* Both ends send.
BothWays == [e \in End |-> IF e = Client THEN 2 ELSE 1]

\* Packets in flight.
Wires == [e \in End |-> 2]

One == [e \in End |-> 1]
=============================================================================
