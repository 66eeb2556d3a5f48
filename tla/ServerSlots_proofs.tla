-------------------------- MODULE ServerSlots_proofs --------------------------
(***************************************************************************)
(* Proofs about ServerSlots, for any number of slots, addresses and codes  *)
(* and any limit on the clients of one address.                            *)
(***************************************************************************)
EXTENDS ServerSlots, FiniteSetTheorems, WellFoundedInduction, TLAPS

SlotsInv ==
    /\ SlotsTypeOK
    /\ SlotsAgree
    /\ OneSlotPerAddress
    /\ NewClientsUnprotected
    /\ AddressLimit

\* The slots that count against the limit of an address.
Holders == Online \cup Kept
HoldersWith(a) == {s \in Holders : Ip[peer[s]] = Ip[a]}

-----------------------------------------------------------------------------
(* Facts about sets of slots.                                              *)

LEMMA MinIsIn == ASSUME NEW S \in SUBSET Slots, S # {} PROVE Min(S) \in S
<1>1. S \subseteq Nat  BY SlotsAssumption
<1>2. \E x \in S : \A y \in S : ~ (<<y, x>> \in OpToRel(<, Nat))
  <2>1. IsWellFoundedOn(OpToRel(<, Nat), Nat)  BY NatLessThanWellFounded
  <2>. QED  BY <1>1, <2>1, WFMin, Zenon
<1>3. \A x \in Nat, y \in Nat : <<y, x>> \in OpToRel(<, Nat) <=> y < x
  BY Zenon DEF OpToRel
<1>4. \E x \in S : \A y \in S : x <= y
  <2>1. PICK x \in S : \A y \in S : ~ (<<y, x>> \in OpToRel(<, Nat))  BY <1>2
  <2>2. \A y \in S : ~ (y < x)  BY <1>1, <1>3, <2>1, Zenon
  <2>. QED  BY <1>1, <2>2
<1>. QED  BY <1>4 DEF Min

LEMMA HoldersFinite ==
    ASSUME SlotsTypeOK, NEW a
    PROVE  IsFiniteSet(HoldersWith(a)) /\ Cardinality(HoldersWith(a)) \in Nat
<1>1. HoldersWith(a) \in SUBSET Slots
  BY DEF HoldersWith, Holders, Online, Kept, SlotsTypeOK
<1>2. IsFiniteSet(HoldersWith(a))  BY <1>1, SlotsAssumption, FS_Subset
<1>. QED  BY <1>2, FS_CardinalityType

LEMMA LimitOfHolders ==
    AddressLimit <=> \A a \in Addrs : Cardinality(HoldersWith(a)) <= MaxClientsPerIP
  BY DEF AddressLimit, HoldersWith, Holders

\* The limit is kept by a step that gives nobody a slot.
LEMMA NoNewHolder ==
    ASSUME SlotsTypeOK, AddressLimit,
           Holders' \subseteq Holders,
           \A s \in Holders' : peer'[s] = peer[s]
    PROVE  AddressLimit'
<1> SUFFICES ASSUME NEW a \in Addrs
             PROVE  Cardinality(HoldersWith(a)') <= MaxClientsPerIP
  BY DEF AddressLimit, HoldersWith, Holders
<1>1. HoldersWith(a)' \in SUBSET HoldersWith(a)  BY DEF HoldersWith
<1>2. Cardinality(HoldersWith(a)') <= Cardinality(HoldersWith(a))
  BY <1>1, HoldersFinite, FS_Subset
<1>3. IsFiniteSet(HoldersWith(a)') /\ Cardinality(HoldersWith(a)') \in Nat
  BY <1>1, HoldersFinite, FS_Subset, FS_CardinalityType
<1>4. Cardinality(HoldersWith(a)) <= MaxClientsPerIP  BY LimitOfHolders
<1>. QED  BY <1>2, <1>3, <1>4, HoldersFinite, SlotsAssumption

-----------------------------------------------------------------------------
(* Steps.                                                                  *)

LEMMA InitStep == SlotsInit => SlotsInv
<1> SUFFICES ASSUME SlotsInit PROVE SlotsInv
  OBVIOUS
<1>1. SlotsTypeOK  BY SlotsAssumption DEF SlotsInit, SlotsTypeOK
<1>2. Online = {} /\ Kept = {}  BY DEF SlotsInit, Online, Kept
<1>3. SlotsAgree  BY DEF SlotsInit, SlotsAgree
<1>4. OneSlotPerAddress  BY <1>2 DEF OneSlotPerAddress
<1>5. NewClientsUnprotected  BY DEF SlotsInit, NewClientsUnprotected
<1>6. AddressLimit
  <2>1. \A a : HoldersWith(a) = {}  BY <1>2 DEF HoldersWith, Holders
  <2>. QED  BY <2>1, FS_EmptySet, SlotsAssumption, LimitOfHolders
<1>. QED  BY <1>1, <1>3, <1>4, <1>5, <1>6 DEF SlotsInv

\* Connections end: the clients of the slots in D are dropped, others may only go
\* from online to error, and those that are then marked as timed out were protected.
LEMMA EndStep ==
    ASSUME SlotsInv, NEW D \in SUBSET Slots, DelClient(D),
           conn' \in [Slots -> {"offline", "online", "error"}],
           \A s \in Slots : conn'[s] = "offline" <=> s \in D \/ conn[s] = "offline",
           \A s \in Slots : conn'[s] = "online" => conn[s] = "online",
           peer' = [s \in Slots |-> IF s \in D THEN NoAddr ELSE peer[s]],
           protected' = protected \ D,
           situation' \subseteq (situation \cup (protected \cap Online)) \ D
    PROVE  SlotsInv'
<1>1. SlotsTypeOK /\ SlotsAgree /\ OneSlotPerAddress /\ NewClientsUnprotected /\ AddressLimit
  BY DEF SlotsInv
<1>2. /\ client' = [s \in Slots |-> IF s \in D THEN "empty" ELSE client[s]]
      /\ player' = [s \in Slots |-> IF s \in D /\ client[s] \in {"ready", "ingame"}
                                    THEN NoPlayer ELSE player[s]]
      /\ members' = members \ {s \in D : client[s] = "ingame"}
  BY DEF DelClient
<1>3. SlotsTypeOK'
  <2>1. \A s \in Slots : peer'[s] = NoAddr <=> conn'[s] = "offline"
    BY <1>1 DEF SlotsTypeOK
  <2>2. peer' \in [Slots -> Addrs \cup {NoAddr}]  BY <1>1 DEF SlotsTypeOK
  <2>3. /\ client' \in [Slots -> {"empty", "preauth", "auth", "connecting", "ready", "ingame"}]
        /\ player' \in [Slots -> Player \cup {NoPlayer}]
    BY <1>1, <1>2 DEF SlotsTypeOK
  <2>4. members' \subseteq Slots /\ protected' \subseteq Slots /\ situation' \subseteq Slots
    BY <1>1, <1>2 DEF SlotsTypeOK
  <2>. QED  BY <2>1, <2>2, <2>3, <2>4 DEF SlotsTypeOK
<1>4. SlotsAgree'
  <2> SUFFICES ASSUME NEW s \in Slots
               PROVE  /\ conn'[s] = "offline" <=> client'[s] = "empty"
                      /\ player'[s] # NoPlayer <=> client'[s] \in {"ready", "ingame"}
                      /\ s \in members' <=> client'[s] = "ingame"
    BY DEF SlotsAgree
  <2>1. /\ conn[s] = "offline" <=> client[s] = "empty"
        /\ player[s] # NoPlayer <=> client[s] \in {"ready", "ingame"}
        /\ s \in members <=> client[s] = "ingame"
    BY <1>1 DEF SlotsAgree
  <2>. QED  BY <1>2, <2>1
<1>5. \A s \in Online' : s \in Online /\ peer'[s] = peer[s]
  BY DEF Online
<1>6. OneSlotPerAddress'
  BY <1>1, <1>5 DEF OneSlotPerAddress
<1>7. NewClientsUnprotected'
  BY <1>1, <1>2, <1>3 DEF NewClientsUnprotected
<1>8. AddressLimit'
  <2>1. Holders' \subseteq Holders  BY <1>1 DEF Holders, Online, Kept, SlotsTypeOK
  <2>2. \A s \in Holders' : peer'[s] = peer[s]
    BY <1>3 DEF Holders, Online, Kept, SlotsTypeOK
  <2>. QED  BY <1>1, <2>1, <2>2, NoNewHolder
<1>. QED  BY <1>3, <1>4, <1>6, <1>7, <1>8 DEF SlotsInv

LEMMA DropStep ==
    ASSUME SlotsInv, NEW D \in SUBSET Slots, Drop(D)
    PROVE  SlotsInv'
<1>1. SlotsTypeOK  BY DEF SlotsInv
<1>2. conn' = [s \in Slots |-> IF s \in D THEN "offline" ELSE conn[s]]  BY DEF Drop
<1>3. conn' \in [Slots -> {"offline", "online", "error"}]  BY <1>1, <1>2 DEF SlotsTypeOK
<1>4. situation' \subseteq (situation \cup (protected \cap Online)) \ D  BY DEF Drop
<1>. QED  BY <1>2, <1>3, <1>4, EndStep DEF Drop

LEMMA UpdateStep ==
    ASSUME SlotsInv, NEW T \in SUBSET Online, NEW O \in SUBSET Kept, Update(T, O)
    PROVE  SlotsInv'
<1> DEFINE failed == {s \in Slots : conn[s] = "error" /\ s \notin Kept \ O} \cup (T \ protected)
<1>1. SlotsTypeOK /\ T \subseteq Slots  BY DEF SlotsInv, Online
<1>2. /\ DelClient(failed)
      /\ conn' = [s \in Slots |-> IF s \in failed THEN "offline"
                                  ELSE IF s \in T THEN "error" ELSE conn[s]]
      /\ peer' = [s \in Slots |-> IF s \in failed THEN NoAddr ELSE peer[s]]
      /\ protected' = protected \ failed
      /\ situation' = (T \cup (situation \ Online)) \ failed
  BY DEF Update
<1>3. failed \in SUBSET Slots  BY <1>1
<1>4. T \ failed \subseteq protected \cap Online  OBVIOUS
<1>5. situation' \subseteq (situation \cup (protected \cap Online)) \ failed
  BY <1>2, <1>4
<1> HIDE DEF failed
<1>6. conn' \in [Slots -> {"offline", "online", "error"}]  BY <1>1, <1>2 DEF SlotsTypeOK
<1>7. \A s \in T : conn[s] = "online"  BY DEF Online
<1>8. /\ \A s \in Slots : conn'[s] = "offline" <=> s \in failed \/ conn[s] = "offline"
      /\ \A s \in Slots : conn'[s] = "online" => conn[s] = "online"
  BY <1>2, <1>7
<1>. QED  BY <1>2, <1>3, <1>5, <1>6, <1>8, EndStep

LEMMA CloseStep == ASSUME SlotsInv, NEW s \in Slots, Close(s) PROVE SlotsInv'
<1>1. SlotsTypeOK  BY DEF SlotsInv
<1>2. /\ conn' = [conn EXCEPT ![s] = "error"] /\ conn[s] = "online"
      /\ UNCHANGED <<peer, protected, situation, client, player, members>>
  BY DEF Close, Online
<1>3. DelClient({})  BY <1>1, <1>2 DEF DelClient, SlotsTypeOK
<1>4. /\ conn' \in [Slots -> {"offline", "online", "error"}]
      /\ \A t \in Slots : conn'[t] = "offline" <=> t \in {} \/ conn[t] = "offline"
      /\ \A t \in Slots : conn'[t] = "online" => conn[t] = "online"
  BY <1>1, <1>2 DEF SlotsTypeOK
<1>5. peer' = [t \in Slots |-> IF t \in {} THEN NoAddr ELSE peer[t]]
  BY <1>1, <1>2 DEF SlotsTypeOK
<1>6. protected' = protected \ {} /\ situation' \subseteq (situation \cup (protected \cap Online)) \ {}
  BY <1>2
<1>. QED  BY <1>3, <1>4, <1>5, <1>6, EndStep

\* A client moves on, or the game forgets the players: no connection changes.
LEMMA ClientStep ==
    ASSUME SlotsInv,
           UNCHANGED <<conn, peer, situation>>,
           protected \subseteq protected', protected' \ protected \subseteq Online,
           client' \in [Slots -> {"empty", "preauth", "auth", "connecting", "ready", "ingame"}],
           player' \in [Slots -> Player \cup {NoPlayer}],
           members' \subseteq Slots,
           \A s \in Slots : client'[s] = "empty" <=> client[s] = "empty",
           \A s \in Slots : client'[s] \in {"preauth", "auth"}
                => client[s] \in {"preauth", "auth"} /\ s \notin protected' \ protected,
           \A s \in Slots : player'[s] # NoPlayer <=> client'[s] \in {"ready", "ingame"},
           \A s \in Slots : s \in members' <=> client'[s] = "ingame"
    PROVE  SlotsInv'
<1>1. SlotsTypeOK /\ SlotsAgree /\ OneSlotPerAddress /\ NewClientsUnprotected /\ AddressLimit
  BY DEF SlotsInv
<1>2. SlotsTypeOK'
  BY <1>1 DEF SlotsTypeOK, Online
<1>3. SlotsAgree'
  BY <1>1 DEF SlotsAgree
<1>4. Online' = Online  BY DEF Online
<1>5. OneSlotPerAddress'
  BY <1>1, <1>4 DEF OneSlotPerAddress
<1>6. NewClientsUnprotected'
  <2> SUFFICES ASSUME NEW s \in Slots, client'[s] \in {"empty", "preauth", "auth"}
               PROVE  s \notin protected' \cup situation'
    BY DEF NewClientsUnprotected
  <2>1. client[s] \in {"empty", "preauth", "auth"}  OBVIOUS
  <2>2. s \notin protected \cup situation  BY <1>1, <2>1 DEF NewClientsUnprotected
  <2>3. client[s] = "empty" => s \notin Online  BY <1>1 DEF SlotsAgree, Online
  <2>. QED  BY <2>1, <2>2, <2>3
<1>7. AddressLimit'
  <2>1. Holders' \subseteq Holders  BY DEF Holders, Online, Kept
  <2>. QED  BY <1>1, <2>1, NoNewHolder
<1>. QED  BY <1>2, <1>3, <1>5, <1>6, <1>7 DEF SlotsInv

\* A step of ClientStep that moves one client.
LEMMA BecomesStep ==
    ASSUME SlotsInv, NEW s \in Slots, NEW states, NEW state,
           Becomes(s, states, state),
           \/ state = "auth" /\ states = {"preauth"} /\ UNCHANGED <<player, members>>
           \/ /\ state = "connecting" /\ states = {"preauth", "auth"}
              /\ UNCHANGED <<player, members>>
           \/ /\ state = "ready" /\ states = {"connecting"}
              /\ player' = [player EXCEPT ![s] = NewPlayer] /\ UNCHANGED members
           \/ /\ state = "ingame" /\ states = {"ready"} /\ player[s] # NoPlayer
              /\ members' = members \cup {s} /\ UNCHANGED player
    PROVE  SlotsInv'
<1>1. SlotsTypeOK /\ SlotsAgree  BY DEF SlotsInv
<1>2. /\ client[s] \in states /\ client' = [client EXCEPT ![s] = state]
      /\ UNCHANGED <<conn, peer, protected, situation>>
  BY DEF Becomes
<1>3. NewPlayer \in Player  BY DEF NewPlayer, Player
<1>4. /\ client' \in [Slots -> {"empty", "preauth", "auth", "connecting", "ready", "ingame"}]
      /\ player' \in [Slots -> Player \cup {NoPlayer}]
      /\ members' \subseteq Slots
  BY <1>1, <1>2, <1>3 DEF SlotsTypeOK
<1>5. NewPlayer # NoPlayer
  BY <1>3, SlotsAssumption
<1>6. /\ \A t \in Slots : client'[t] = "empty" <=> client[t] = "empty"
      /\ \A t \in Slots : client'[t] \in {"preauth", "auth"} => client[t] \in {"preauth", "auth"}
  BY <1>1, <1>2 DEF SlotsTypeOK
<1>7. ASSUME NEW t \in Slots
      PROVE  /\ player'[t] # NoPlayer <=> client'[t] \in {"ready", "ingame"}
             /\ t \in members' <=> client'[t] = "ingame"
  <2>1. /\ player[t] # NoPlayer <=> client[t] \in {"ready", "ingame"}
        /\ t \in members <=> client[t] = "ingame"
    BY <1>1 DEF SlotsAgree
  <2>. QED  BY <1>1, <1>2, <1>5, <2>1 DEF SlotsTypeOK
<1>. QED  BY <1>2, <1>4, <1>6, <1>7, ClientStep

LEMMA StartInfoStep == ASSUME SlotsInv, NEW s \in Slots, StartInfo(s) PROVE SlotsInv'
<1>1. SlotsTypeOK /\ SlotsAgree  BY DEF SlotsInv
<1>2. /\ client[s] \in {"ready", "ingame"}
      /\ player' = [player EXCEPT ![s].named = TRUE]
      /\ UNCHANGED <<conn, peer, protected, situation, client, members>>
  BY DEF StartInfo
<1>3. player[s] \in Player  BY <1>1, <1>2 DEF SlotsAgree, SlotsTypeOK
<1>4. [player[s] EXCEPT !.named = TRUE] \in Player  BY <1>3 DEF Player
<1>5. player' = [player EXCEPT ![s] = [player[s] EXCEPT !.named = TRUE]]  BY <1>2
<1> HIDE DEF StartInfo
<1>6. player' \in [Slots -> Player \cup {NoPlayer}]
  BY <1>1, <1>4, <1>5 DEF SlotsTypeOK
<1>7. \A t \in Slots : player'[t] # NoPlayer <=> player[t] # NoPlayer
  BY <1>1, <1>3, <1>4, <1>5, SlotsAssumption DEF SlotsTypeOK
<1>. QED  BY <1>1, <1>2, <1>6, <1>7, ClientStep DEF SlotsTypeOK, SlotsAgree

LEMMA MapReloadStep == ASSUME SlotsInv, MapReload PROVE SlotsInv'
<1>1. SlotsTypeOK /\ SlotsAgree  BY DEF SlotsInv
<1>2. client' \in [Slots -> {"empty", "preauth", "auth", "connecting", "ready", "ingame"}]
  BY <1>1 DEF MapReload, SlotsTypeOK
<1>3. /\ player' \in [Slots -> Player \cup {NoPlayer}]
      /\ \A s \in Slots : player'[s] = NoPlayer
      /\ members' = {}
  BY DEF MapReload
<1>4. \A s \in Slots : /\ client'[s] \notin {"ready", "ingame"}
                       /\ client'[s] = "empty" <=> client[s] = "empty"
                       /\ client'[s] \in {"preauth", "auth"} => client[s] \in {"preauth", "auth"}
  BY <1>1 DEF MapReload, SlotsTypeOK
<1>5. UNCHANGED <<conn, peer, protected, situation>>  BY DEF MapReload
<1>. QED  BY <1>2, <1>3, <1>4, <1>5, ClientStep

\* The slot that an address gets was free for everybody, and is one more to count.
LEMMA AcceptStep ==
    ASSUME SlotsInv, NEW a \in Addrs, NEW state \in {"preauth", "connecting"},
           TryAccept(a, state)
    PROVE  SlotsInv'
<1> DEFINE free == {s \in Slots : conn[s] = "offline"}
           slot == Min(free)
<1>1. SlotsTypeOK /\ SlotsAgree /\ OneSlotPerAddress /\ NewClientsUnprotected /\ AddressLimit
  BY DEF SlotsInv
<1>2. /\ ~ClientExists(a) /\ NumClientsWithAddr(a) + 1 <= MaxClientsPerIP /\ free # {}
      /\ conn' = [conn EXCEPT ![slot] = "online"]
      /\ peer' = [peer EXCEPT ![slot] = a]
      /\ client' = [client EXCEPT ![slot] = state]
      /\ UNCHANGED <<protected, situation, player, members>>
  BY DEF TryAccept
<1>3. slot \in free  BY <1>2, MinIsIn
<1>4. slot \in Slots /\ conn[slot] = "offline"  BY <1>3
<1> HIDE DEF free, slot
<1>5. SlotsTypeOK'
  BY <1>1, <1>2, <1>4, SlotsAssumption DEF SlotsTypeOK
<1>6. client[slot] = "empty"  BY <1>1, <1>4 DEF SlotsAgree
<1>7. SlotsAgree'
  <2> SUFFICES ASSUME NEW s \in Slots
               PROVE  /\ conn'[s] = "offline" <=> client'[s] = "empty"
                      /\ player'[s] # NoPlayer <=> client'[s] \in {"ready", "ingame"}
                      /\ s \in members' <=> client'[s] = "ingame"
    BY DEF SlotsAgree
  <2>1. /\ conn[s] = "offline" <=> client[s] = "empty"
        /\ player[s] # NoPlayer <=> client[s] \in {"ready", "ingame"}
        /\ s \in members <=> client[s] = "ingame"
    BY <1>1 DEF SlotsAgree
  <2>. QED  BY <1>1, <1>2, <1>6, <2>1 DEF SlotsTypeOK
<1>8. Online' = Online \cup {slot} /\ slot \notin Online
  BY <1>1, <1>2, <1>4 DEF Online, SlotsTypeOK
<1>9. \A s \in Slots : s # slot => peer'[s] = peer[s]
  BY <1>1, <1>2 DEF SlotsTypeOK
<1>10. peer'[slot] = a  BY <1>1, <1>2, <1>4 DEF SlotsTypeOK
<1>11. OneSlotPerAddress'
  <2>1. \A s \in Online : s \in Slots /\ peer[s] # a  BY <1>2 DEF ClientExists, Online
  <2>. QED  BY <1>1, <1>8, <1>9, <1>10, <2>1 DEF OneSlotPerAddress
<1>12. NewClientsUnprotected'
  <2>1. slot \notin protected \cup situation
    BY <1>1, <1>4, <1>6 DEF NewClientsUnprotected
  <2>. QED  BY <1>1, <1>2, <2>1 DEF NewClientsUnprotected, SlotsTypeOK
<1>13. AddressLimit'
  <2>1. Kept' = Kept /\ slot \notin Kept
    BY <1>1, <1>2, <1>4 DEF Kept, SlotsTypeOK
  <2>2. Holders' = Holders \cup {slot} /\ Holders \subseteq Slots \ {slot}
    BY <1>1, <1>4, <1>8, <2>1 DEF Holders, Online, Kept, SlotsTypeOK
  <2> SUFFICES ASSUME NEW b \in Addrs
               PROVE  Cardinality(HoldersWith(b)') <= MaxClientsPerIP
    BY DEF AddressLimit, HoldersWith, Holders
  <2>3. CASE Ip[b] = Ip[a]
    <3>1. HoldersWith(b)' = HoldersWith(b) \cup {slot}
      BY <1>9, <1>10, <2>2, <2>3 DEF HoldersWith
    <3>2. slot \notin HoldersWith(b)  BY <2>2 DEF HoldersWith
    <3>3. Cardinality(HoldersWith(b)') = Cardinality(HoldersWith(b)) + 1
      BY <1>1, <3>1, <3>2, HoldersFinite, FS_AddElement
    <3>4. HoldersWith(b) = {s \in Online \cup Kept : Ip[peer[s]] = Ip[a]}
      BY <2>3 DEF HoldersWith, Holders
    <3>5. Cardinality(HoldersWith(b)) + 1 <= MaxClientsPerIP
      BY <1>2, <3>4 DEF NumClientsWithAddr
    <3>. QED  BY <3>3, <3>5
  <2>4. CASE Ip[b] # Ip[a]
    <3>1. HoldersWith(b)' = HoldersWith(b)
      BY <1>9, <1>10, <2>2, <2>4 DEF HoldersWith
    <3>. QED  BY <1>1, <3>1, LimitOfHolders
  <2>. QED  BY <2>3, <2>4
<1>. QED  BY <1>5, <1>7, <1>11, <1>12, <1>13 DEF SlotsInv

\* The slot t takes the place of s.
LEMMA TakeOverStep ==
    ASSUME SlotsInv, NEW s \in Slots, NEW t \in Slots, s # t,
           conn[s] = "online", conn[t] = "error", player[t] # NoPlayer,
           TakeOver(s, t)
    PROVE  SlotsInv'
<1>1. SlotsTypeOK /\ SlotsAgree /\ OneSlotPerAddress /\ NewClientsUnprotected /\ AddressLimit
  BY DEF SlotsInv
<1>2. /\ client' = [u \in Slots |-> IF u \in {s} THEN "empty" ELSE client[u]]
      /\ player' = [u \in Slots |-> IF u \in {s} /\ client[u] \in {"ready", "ingame"}
                                    THEN NoPlayer ELSE player[u]]
      /\ members' = members \ {u \in {s} : client[u] = "ingame"}
      /\ conn' = [conn EXCEPT ![t] = "online", ![s] = "offline"]
      /\ peer' = [peer EXCEPT ![t] = peer[s], ![s] = NoAddr]
      /\ protected' = protected \ {s}
      /\ situation' = situation \ {s}
  BY DEF TakeOver, DelClient
<1>3. peer[s] \in Addrs  BY <1>1 DEF SlotsTypeOK
<1>4. client[t] \in {"ready", "ingame"}  BY <1>1 DEF SlotsAgree
<1>5. /\ conn'[s] = "offline" /\ conn'[t] = "online"
      /\ peer'[s] = NoAddr /\ peer'[t] = peer[s]
      /\ \A u \in Slots \ {s, t} : conn'[u] = conn[u] /\ peer'[u] = peer[u]
  BY <1>1, <1>2 DEF SlotsTypeOK
<1>6. SlotsTypeOK'
  <2>1. \A u \in Slots : peer'[u] = NoAddr <=> conn'[u] = "offline"
    BY <1>1, <1>3, <1>5, SlotsAssumption DEF SlotsTypeOK
  <2>2. /\ conn' \in [Slots -> {"offline", "online", "error"}]
        /\ peer' \in [Slots -> Addrs \cup {NoAddr}]
    BY <1>1, <1>2, <1>3 DEF SlotsTypeOK
  <2>3. /\ client' \in [Slots -> {"empty", "preauth", "auth", "connecting", "ready", "ingame"}]
        /\ player' \in [Slots -> Player \cup {NoPlayer}]
    BY <1>1, <1>2 DEF SlotsTypeOK
  <2>. QED  BY <1>1, <1>2, <2>1, <2>2, <2>3 DEF SlotsTypeOK
<1>7. SlotsAgree'
  <2> SUFFICES ASSUME NEW u \in Slots
               PROVE  /\ conn'[u] = "offline" <=> client'[u] = "empty"
                      /\ player'[u] # NoPlayer <=> client'[u] \in {"ready", "ingame"}
                      /\ u \in members' <=> client'[u] = "ingame"
    BY DEF SlotsAgree
  <2>1. /\ conn[u] = "offline" <=> client[u] = "empty"
        /\ player[u] # NoPlayer <=> client[u] \in {"ready", "ingame"}
        /\ u \in members <=> client[u] = "ingame"
    BY <1>1 DEF SlotsAgree
  <2>. QED  BY <1>2, <1>4, <1>5, <2>1
<1>8. Online' = (Online \ {s}) \cup {t} /\ s \in Online
  BY <1>1, <1>5 DEF Online, SlotsTypeOK
<1>9. OneSlotPerAddress'
  <2>1. \A u \in Online \ {s, t} : u \in Slots /\ peer'[u] = peer[u] /\ peer[u] # peer[s]
    BY <1>1, <1>5, <1>8 DEF OneSlotPerAddress, Online
  <2>. QED  BY <1>1, <1>5, <1>8, <2>1 DEF OneSlotPerAddress
<1>10. NewClientsUnprotected'
  BY <1>1, <1>2, <1>4 DEF NewClientsUnprotected
<1>11. AddressLimit'
  <2>1. /\ Holders' \subseteq (Holders \ {s}) \cup {t}
        /\ Holders \subseteq Slots /\ s \in Holders /\ s \notin Holders'
    BY <1>1, <1>2, <1>5, <1>8 DEF Holders, Online, Kept, SlotsTypeOK
  <2> SUFFICES ASSUME NEW b \in Addrs
               PROVE  Cardinality(HoldersWith(b)') <= MaxClientsPerIP
    BY DEF AddressLimit, HoldersWith, Holders
  <2>2. /\ IsFiniteSet(HoldersWith(b)) /\ Cardinality(HoldersWith(b)) \in Nat
        /\ Cardinality(HoldersWith(b)) <= MaxClientsPerIP
    BY <1>1, HoldersFinite, LimitOfHolders
  <2>3. CASE Ip[peer[s]] = Ip[b]
    <3> DEFINE rest == HoldersWith(b) \ {s}
    <3>1. s \in HoldersWith(b)  BY <2>1, <2>3 DEF HoldersWith
    <3>2. IsFiniteSet(rest) /\ Cardinality(rest) = Cardinality(HoldersWith(b)) - 1
      BY <2>2, <3>1, FS_RemoveElement
    <3>3. /\ IsFiniteSet(rest \cup {t})
          /\ Cardinality(rest \cup {t}) \in {Cardinality(rest), Cardinality(rest) + 1}
      BY <3>2, FS_AddElement
    <3>4. HoldersWith(b)' \in SUBSET (rest \cup {t})
      BY <1>5, <2>1 DEF HoldersWith
    <3> HIDE DEF rest
    <3>5. /\ Cardinality(HoldersWith(b)') <= Cardinality(rest \cup {t})
          /\ Cardinality(HoldersWith(b)') \in Nat
      BY <3>3, <3>4, FS_Subset, FS_CardinalityType
    <3>. QED  BY <2>2, <3>2, <3>3, <3>5, SlotsAssumption
  <2>4. CASE Ip[peer[s]] # Ip[b]
    <3>1. HoldersWith(b)' \in SUBSET HoldersWith(b)
      BY <1>5, <2>1, <2>4 DEF HoldersWith
    <3>2. /\ Cardinality(HoldersWith(b)') <= Cardinality(HoldersWith(b))
          /\ Cardinality(HoldersWith(b)') \in Nat
      BY <2>2, <3>1, FS_Subset, FS_CardinalityType
    <3>. QED  BY <2>2, <3>2, SlotsAssumption
  <2>. QED  BY <2>3, <2>4
<1>. QED  BY <1>6, <1>7, <1>9, <1>10, <1>11 DEF SlotsInv

LEMMA ProtectStep ==
    ASSUME SlotsInv, NEW s \in Slots, NEW code \in Codes \cup {NoCode},
           conn[s] = "online", client[s] = "ingame", Protect(s, code)
    PROVE  SlotsInv'
<1>1. SlotsTypeOK /\ SlotsAgree  BY DEF SlotsInv
<1>2. /\ protected' = protected \cup {s}
      /\ player' = [player EXCEPT ![s] = [player[s] EXCEPT !.code = code]]
      /\ UNCHANGED <<conn, peer, situation, client, members>>
  BY DEF Protect
<1>3. player[s] \in Player  BY <1>1 DEF SlotsAgree, SlotsTypeOK
<1>4. [player[s] EXCEPT !.code = code] \in Player  BY <1>3 DEF Player
<1>5. player' \in [Slots -> Player \cup {NoPlayer}]
  BY <1>1, <1>2, <1>4 DEF SlotsTypeOK
<1>6. \A t \in Slots : player'[t] # NoPlayer <=> player[t] # NoPlayer
  BY <1>1, <1>2, <1>3, <1>4, SlotsAssumption DEF SlotsTypeOK
<1>7. protected' \ protected \subseteq {s} /\ s \in Online  BY <1>2 DEF Online
<1>8. \A t \in Slots : client'[t] \in {"preauth", "auth"} => t # s  BY <1>2
<1>. QED
  BY <1>1, <1>2, <1>5, <1>6, <1>7, <1>8, ClientStep DEF SlotsTypeOK, SlotsAgree

LEMMA ConTimeoutStep ==
    ASSUME SlotsInv, NEW s \in Slots, NEW code \in Codes \cup {NoCode}, ConTimeout(s, code)
    PROVE  SlotsInv'
<1> DEFINE given == IF code = NoCode THEN player[s].code ELSE code
           found == {t \in Slots \ {s} : /\ player[t] # NoPlayer
                                         /\ player[t].code = given
                                         /\ conn[t] = "error"}
<1>1. /\ conn[s] = "online" /\ client[s] = "ingame"
      /\ IF found # {} THEN TakeOver(s, Min(found)) ELSE Protect(s, code)
  BY DEF ConTimeout, Online
<1>2. CASE found # {}
  <2>1. Min(found) \in found  BY <1>2, MinIsIn
  <2>2. /\ Min(found) \in Slots /\ Min(found) # s
        /\ player[Min(found)] # NoPlayer /\ conn[Min(found)] = "error"
    BY <2>1
  <2> HIDE DEF found
  <2>. QED  BY <1>1, <1>2, <2>2, TakeOverStep
<1>3. CASE found = {}
  BY <1>1, <1>3, ProtectStep
<1>. QED  BY <1>2, <1>3

LEMMA StutterStep == ASSUME SlotsInv, UNCHANGED slotVars PROVE SlotsInv'
  BY DEF SlotsInv, slotVars, SlotsTypeOK, SlotsAgree, OneSlotPerAddress,
         NewClientsUnprotected, AddressLimit, Online, Kept

LEMMA NextStep == ASSUME SlotsInv, [SlotsNext]_slotVars PROVE SlotsInv'
<1>1. ASSUME NEW T \in SUBSET Online, NEW O \in SUBSET Kept, Update(T, O) PROVE SlotsInv'
  BY <1>1, UpdateStep
<1>2. ASSUME NEW a \in Addrs, NewClient(a) \/ NewClientNoAuth(a) \/ Ban(a) PROVE SlotsInv'
  <2>1. CASE NewClient(a)  BY <2>1, AcceptStep DEF NewClient
  <2>2. CASE NewClientNoAuth(a)  BY <2>2, AcceptStep DEF NewClientNoAuth
  <2>3. CASE Ban(a)  BY <2>3, DropStep DEF Ban
  <2>. QED  BY <1>2, <2>1, <2>2, <2>3
<1>3. ASSUME NEW s \in Slots,
             \/ Close(s) \/ Kick(s) \/ ClientVer(s) \/ Info(s) \/ Ready(s)
             \/ StartInfo(s) \/ EnterGame(s) \/ EnterUnwanted(s)
             \/ \E code \in Codes \cup {NoCode} : ConTimeout(s, code)
      PROVE  SlotsInv'
  <2>1. CASE Close(s)  BY <2>1, CloseStep
  <2>2. CASE Kick(s)  BY <2>2, DropStep DEF Kick
  <2>3. CASE ClientVer(s)  BY <2>3, BecomesStep DEF ClientVer
  <2>4. CASE Info(s)  BY <2>4, BecomesStep DEF Info
  <2>5. CASE Ready(s)  BY <2>5, BecomesStep DEF Ready
  <2>6. CASE StartInfo(s)  BY <2>6, StartInfoStep
  <2>7. CASE EnterGame(s)  BY <2>7, BecomesStep DEF EnterGame
  <2>8. CASE EnterUnwanted(s)  BY <2>8, DropStep DEF EnterUnwanted
  <2>9. CASE \E code \in Codes \cup {NoCode} : ConTimeout(s, code)  BY <2>9, ConTimeoutStep
  <2>. QED  BY <1>3, <2>1, <2>2, <2>3, <2>4, <2>5, <2>6, <2>7, <2>8, <2>9
<1>4. CASE MapReload  BY <1>4, MapReloadStep
<1>5. CASE UNCHANGED slotVars  BY <1>5, StutterStep
<1>. QED  BY <1>1, <1>2, <1>3, <1>4, <1>5 DEF SlotsNext

-----------------------------------------------------------------------------

\* The parts of the invariant hold together in every state.
THEOREM SlotsInvariant == SlotsSpec => []SlotsInv
  BY InitStep, NextStep, PTL DEF SlotsSpec

\* The variables keep their types, and a connection has an address exactly while its
\* slot is in use.
THEOREM SlotsTypeCorrect == SlotsSpec => []SlotsTypeOK
  BY SlotsInvariant, PTL DEF SlotsInv

\* However slots are dropped, taken over, taken back or caught by a change of the
\* map, CNetServer, CServer, CGameContext and CGameTeams agree on what a slot is.
THEOREM LayersAgree == SlotsSpec => []SlotsAgree
  BY SlotsInvariant, PTL DEF SlotsInv

\* GetClientSlot has never two connections to choose from.
THEOREM AddressesAreUnique == SlotsSpec => []OneSlotPerAddress
  BY SlotsInvariant, PTL DEF SlotsInv

\* Nobody inherits the protection of its predecessor in the slot.
THEOREM ProtectionEnds == SlotsSpec => []NewClientsUnprotected
  BY SlotsInvariant, PTL DEF SlotsInv

\* sv_max_clients_per_ip holds, though a client that comes back is moved to its old
\* slot without a look at the limit.
THEOREM LimitIsKept == SlotsSpec => []AddressLimit
  BY SlotsInvariant, PTL DEF SlotsInv
=============================================================================
