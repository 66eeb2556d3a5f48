----------------------------- MODULE ServerSlots -----------------------------
(***************************************************************************)
(* The slots of a server: the connection of a slot (CNetServer), the client *)
(* that has it (CServer) and the player the game keeps for it               *)
(* (CGameContext), from the first packet of an address until the slot is    *)
(* free again.  A client that has asked for it keeps its player when it     *)
(* times out, and gets it back, from whatever slot it comes in again, by    *)
(* the code it gave.                                                       *)
(*                                                                         *)
(* NetConnection.tla has what goes over an open connection and Rooms.tla    *)
(* what happens to players in the game.  0.7 clients, which cannot take a   *)
(* player back, leaving a fng match, passwords and the limit on connections *)
(* in a short time are left out; so is what the token handshake decides: an *)
(* address that is let in has answered it.                                 *)
(***************************************************************************)
EXTENDS Integers, FiniteSets, FiniteSetsExt

CONSTANTS
    Slots,             \* the client ids
    Addrs,             \* addresses with their ports
    Ip,                \* the address without the port, for each address
    MaxClientsPerIP,   \* sv_max_clients_per_ip
    Codes,             \* the codes clients give to /timeout
    NoCode, NoAddr, NoPlayer

Player == [code : Codes \cup {NoCode}, named : BOOLEAN]
NewPlayer == [code |-> NoCode, named |-> FALSE]

ASSUME SlotsAssumption ==
    /\ Slots \subseteq Nat /\ IsFiniteSet(Slots)
    /\ MaxClientsPerIP \in Nat \ {0}
    /\ NoAddr \notin Addrs /\ NoCode \notin Codes /\ NoPlayer \notin Player

VARIABLES
    conn,        \* m_State of the connection of each slot
    peer,        \* m_PeerAddr; of an offline slot, where nothing reads it, NoAddr
    protected,   \* the slots with m_TimeoutProtected
    situation,   \* the slots with m_TimeoutSituation
    client,      \* m_State of the client of each slot
    player,      \* m_apPlayers
    members      \* the clients that CGameTeams has been told of

slotVars == <<conn, peer, protected, situation, client, player, members>>

SlotsTypeOK ==
    /\ conn \in [Slots -> {"offline", "online", "error"}]
    /\ peer \in [Slots -> Addrs \cup {NoAddr}]
    /\ \A s \in Slots : peer[s] = NoAddr <=> conn[s] = "offline"
    /\ protected \subseteq Slots
    /\ situation \subseteq Slots
    /\ client \in [Slots -> {"empty", "preauth", "auth", "connecting", "ready", "ingame"}]
    /\ player \in [Slots -> Player \cup {NoPlayer}]
    /\ members \subseteq Slots

SlotsInit ==
    /\ conn = [s \in Slots |-> "offline"]
    /\ peer = [s \in Slots |-> NoAddr]
    /\ protected = {} /\ situation = {}
    /\ client = [s \in Slots |-> "empty"]
    /\ player = [s \in Slots |-> NoPlayer]
    /\ members = {}

Online == {s \in Slots : conn[s] = "online"}

\* Timed out, and waiting for its client to come back.
Kept == {s \in protected \cap situation : conn[s] = "error"}

-----------------------------------------------------------------------------
(* The ends of connections.                                                *)

\* DelClientCallback, which tells the game of clients that it knows.
DelClient(D) ==
    /\ client' = [s \in Slots |-> IF s \in D THEN "empty" ELSE client[s]]
    /\ player' = [s \in Slots |-> IF s \in D /\ client[s] \in {"ready", "ingame"}
                                  THEN NoPlayer ELSE player[s]]
    /\ members' = members \ {s \in D : client[s] = "ingame"}

\* Mutant: only who times out loses its protection with its slot.
DropProtected(D) ==
    /\ DelClient(D)
    /\ conn' = [s \in Slots |-> IF s \in D THEN "offline" ELSE conn[s]]
    /\ peer' = [s \in Slots |-> IF s \in D THEN NoAddr ELSE peer[s]]
    /\ situation' = situation \ D
    /\ UNCHANGED protected

\* CNetServer::Drop of the slots in D
Drop(D) ==
    /\ DelClient(D)
    /\ conn' = [s \in Slots |-> IF s \in D THEN "offline" ELSE conn[s]]
    /\ peer' = [s \in Slots |-> IF s \in D THEN NoAddr ELSE peer[s]]
    /\ protected' = protected \ D
    /\ situation' = situation \ D

\* CNetServer::Update when the connections in T have timed out and the protection
\* of those in O is over.
Update(T, O) ==
    LET failed == {s \in Slots : conn[s] = "error" /\ s \notin Kept \ O} \cup (T \ protected)
    IN  /\ T \subseteq Online /\ O \subseteq Kept
        /\ DelClient(failed)
        /\ conn' = [s \in Slots |-> IF s \in failed THEN "offline"
                                    ELSE IF s \in T THEN "error" ELSE conn[s]]
        /\ peer' = [s \in Slots |-> IF s \in failed THEN NoAddr ELSE peer[s]]
        /\ protected' = protected \ failed
        /\ situation' = (T \cup (situation \ Online)) \ failed

\* The client closes the connection; the next Update drops it.
Close(s) ==
    /\ s \in Online
    /\ conn' = [conn EXCEPT ![s] = "error"]
    /\ UNCHANGED <<peer, protected, situation, client, player, members>>

\* Kick, a password that is wrong, a version that does not fit
Kick(s) == client[s] # "empty" /\ Drop({s})

\* A ban drops everybody with the address.
Ban(a) ==
    LET D == {s \in Slots : client[s] # "empty" /\ Ip[peer[s]] = Ip[a]}
    IN  D # {} /\ Drop(D)

-----------------------------------------------------------------------------
(* From the first packet to the game.                                      *)

\* Mutant: clients that have timed out do not count.
NumOnlineWithAddr(a) == Cardinality({s \in Online : Ip[peer[s]] = Ip[a]})

NumClientsWithAddr(a) == Cardinality({s \in Online \cup Kept : Ip[peer[s]] = Ip[a]})

\* GetClientSlot: slots in error are not found.
ClientExists(a) == \E s \in Online : peer[s] = a

\* Mutant: an address that has a slot is let in again.
TryAcceptAgain(a, state) ==
    LET free == {s \in Slots : conn[s] = "offline"}
        slot == Min(free)
    IN  /\ NumClientsWithAddr(a) + 1 <= MaxClientsPerIP
        /\ free # {}
        /\ conn' = [conn EXCEPT ![slot] = "online"]
        /\ peer' = [peer EXCEPT ![slot] = a]
        /\ client' = [client EXCEPT ![slot] = state]
        /\ UNCHANGED <<protected, situation, player, members>>

\* TryAcceptClient with one of the callbacks for new clients
TryAccept(a, state) ==
    LET free == {s \in Slots : conn[s] = "offline"}
        slot == Min(free)
    IN  /\ ~ClientExists(a)
        /\ NumClientsWithAddr(a) + 1 <= MaxClientsPerIP
        /\ free # {}
        /\ conn' = [conn EXCEPT ![slot] = "online"]
        /\ peer' = [peer EXCEPT ![slot] = a]
        /\ client' = [client EXCEPT ![slot] = state]
        /\ UNCHANGED <<protected, situation, player, members>>

\* By a token, or at once
NewClient(a) == TryAccept(a, "preauth")

\* By the handshake that old clients take for a game
NewClientNoAuth(a) == TryAccept(a, "connecting")

Becomes(s, states, state) ==
    /\ s \in Online /\ client[s] \in states
    /\ client' = [client EXCEPT ![s] = state]
    /\ UNCHANGED <<conn, peer, protected, situation>>

ClientVer(s) == Becomes(s, {"preauth"}, "auth") /\ UNCHANGED <<player, members>>
Info(s) == Becomes(s, {"preauth", "auth"}, "connecting") /\ UNCHANGED <<player, members>>

Ready(s) ==
    /\ Becomes(s, {"connecting"}, "ready")
    /\ player' = [player EXCEPT ![s] = NewPlayer]
    /\ UNCHANGED members

StartInfo(s) ==
    /\ s \in Online /\ client[s] \in {"ready", "ingame"} /\ ~player[s].named
    /\ player' = [player EXCEPT ![s].named = TRUE]
    /\ UNCHANGED <<conn, peer, protected, situation, client, members>>

EnterGame(s) ==
    /\ player[s] # NoPlayer /\ player[s].named
    /\ Becomes(s, {"ready"}, "ingame")
    /\ members' = members \cup {s}
    /\ UNCHANGED player

\* OnClientEnter kicks a client of a version that is not wanted before it tells
\* the rooms of it.
EnterUnwanted(s) ==
    /\ s \in Online /\ client[s] = "ready"
    /\ player[s] # NoPlayer /\ player[s].named
    /\ Drop({s})

-----------------------------------------------------------------------------
(* In the game.                                                            *)

\* Mutant: the old slot gives its address up before the new one has it.
TakeOverReset(s, t) ==
    /\ DelClient({s})
    /\ conn' = [conn EXCEPT ![t] = "online", ![s] = "offline"]
    /\ peer' = [peer EXCEPT ![s] = NoAddr, ![t] = NoAddr]
    /\ protected' = protected \ {s}
    /\ situation' = situation \ {s}

\* The slot t, whose client has timed out, gets the connection of s: SetTimedOut.
TakeOver(s, t) ==
    /\ DelClient({s})
    /\ conn' = [conn EXCEPT ![t] = "online", ![s] = "offline"]
    /\ peer' = [peer EXCEPT ![t] = peer[s], ![s] = NoAddr]
    /\ protected' = protected \ {s}
    /\ situation' = situation \ {s}

Protect(s, code) ==
    /\ protected' = protected \cup {s}
    /\ player' = [player EXCEPT ![s].code = code]
    /\ UNCHANGED <<conn, peer, situation, client, members>>

\* /timeout, where NoCode stands for no argument
ConTimeout(s, code) ==
    LET given == IF code = NoCode THEN player[s].code ELSE code
        found == {t \in Slots \ {s} : /\ player[t] # NoPlayer
                                      /\ player[t].code = given
                                      /\ conn[t] = "error"}
    IN  /\ s \in Online /\ client[s] = "ingame"
        /\ IF found # {} THEN TakeOver(s, Min(found)) ELSE Protect(s, code)

\* Mutant: clients that are not in the game yet keep their state.
MapReloadOfPlayers ==
    /\ client' = [s \in Slots |-> IF client[s] = "ingame" THEN "connecting" ELSE client[s]]
    /\ player' = [s \in Slots |-> NoPlayer]
    /\ members' = {}
    /\ UNCHANGED <<conn, peer, protected, situation>>

\* The server changes its map: the game starts anew.
MapReload ==
    /\ client' = [s \in Slots |-> IF client[s] \in {"empty", "preauth", "auth"}
                                  THEN client[s] ELSE "connecting"]
    /\ player' = [s \in Slots |-> NoPlayer]
    /\ members' = {}
    /\ UNCHANGED <<conn, peer, protected, situation>>

SlotsNext ==
    \/ \E T \in SUBSET Online, O \in SUBSET Kept : Update(T, O)
    \/ \E a \in Addrs : NewClient(a) \/ NewClientNoAuth(a) \/ Ban(a)
    \/ \E s \in Slots :
        \/ Close(s)
        \/ Kick(s)
        \/ ClientVer(s)
        \/ Info(s)
        \/ Ready(s)
        \/ StartInfo(s)
        \/ EnterGame(s)
        \/ EnterUnwanted(s)
        \/ \E code \in Codes \cup {NoCode} : ConTimeout(s, code)
    \/ MapReload

SlotsSpec == SlotsInit /\ [][SlotsNext]_slotVars
-----------------------------------------------------------------------------
(* Properties                                                              *)

\* No address has two connections: GetClientSlot, which takes the last one that
\* fits, has none to choose from.
OneSlotPerAddress == \A s, t \in Online : peer[s] = peer[t] => s = t

\* The connection, the client and the player of a slot go together: a slot is free
\* for all of them or for none, the game has a player for exactly the clients that
\* are ready or in the game, and the rooms know exactly those in the game, whether
\* a slot was dropped, taken over, taken back or caught by a change of the map.
SlotsAgree ==
    \A s \in Slots : /\ conn[s] = "offline" <=> client[s] = "empty"
                     /\ player[s] # NoPlayer <=> client[s] \in {"ready", "ingame"}
                     /\ s \in members <=> client[s] = "ingame"

\* However clients time out, come back and take their players over, nobody gets
\* more slots than the limit, those kept for clients that timed out included.
AddressLimit ==
    \A a \in Addrs :
        Cardinality({s \in Online \cup Kept : Ip[peer[s]] = Ip[a]}) <= MaxClientsPerIP

\* A client that has just come in is not protected by what its predecessor in the
\* slot asked for, nor taken for one that has timed out.
NewClientsUnprotected ==
    \A s \in Slots :
        client[s] \in {"empty", "preauth", "auth"} => s \notin protected \cup situation
=============================================================================
