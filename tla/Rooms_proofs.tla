----------------------------- MODULE Rooms_proofs -----------------------------
(***************************************************************************)
(* Proofs about Rooms, for any number of slots and rooms, any map and any  *)
(* settings.                                                               *)
(***************************************************************************)
EXTENDS Rooms, FiniteSetTheorems, WellFoundedInduction, TLAPS

\* The types the other parts of the invariant need.
Types ==
    /\ client \in [Clients -> {"out", "connecting", "ingame"}]
    /\ team \in [Clients -> Rooms]
    /\ size \in [Rooms -> Int]
    /\ open \subseteq Rooms /\ locked \subseteq Rooms
    /\ invited \in [Rooms -> SUBSET Clients]
    /\ created \subseteq Rooms
    /\ joined \in [Rooms -> [Clients -> Int]]

\* A slot that is not in the game belongs to the lobby: Leave puts it there, and
\* nobody can be moved elsewhere without being in the game.
LobbyOwnsTheRest == \A c \in Clients : client[c] # "ingame" => team[c] = TEAM_FLOCK

LobbyExists == TEAM_FLOCK \in created

\* The lobby's controller is never told of a leave without a join before it.
NoLeaveWithoutJoin == \A c \in Clients : joined[TEAM_FLOCK][c] >= 0

IInv ==
    /\ Types
    /\ LobbyOwnsTheRest
    /\ LobbyExists
    /\ RoomSizes
    /\ RoomsFollowMembers
    /\ ControllersKnowMembers
    /\ NoLeaveWithoutJoin

-----------------------------------------------------------------------------

LEMMA LobbyIsARoom == TEAM_FLOCK \in Rooms /\ Rooms \subseteq Int
  BY SizeAssumption DEF Rooms, TEAM_FLOCK

LEMMA MembersFinite == ASSUME NEW r PROVE IsFiniteSet(Members(r)) /\ Cardinality(Members(r)) \in Nat
<1>1. Members(r) \in SUBSET Clients  BY DEF Members
<1>2. IsFiniteSet(Members(r))  BY <1>1, SizeAssumption, FS_Subset
<1>. QED  BY <1>2, FS_CardinalityType

\* A client's departure destroys its room exactly when it is the last member of
\* a room other than the lobby: the count of the room can be trusted.
LEMMA LastMember ==
    ASSUME IInv, NEW c \in Clients, client[c] = "ingame"
    PROVE  /\ c \in Members(team[c])
           /\ size[team[c]] >= 1
           /\ Deserted(c) = {r \in {team[c]} : r # TEAM_FLOCK /\ Members(r) = {c}}
<1> DEFINE S == Members(team[c])
<1>1. c \in S /\ team[c] \in Rooms /\ size[team[c]] = Cardinality(S)
  BY DEF IInv, Types, Members, RoomSizes
<1>2. IsFiniteSet(S) /\ Cardinality(S) \in Nat  BY MembersFinite
<1>3. Cardinality(S) # 0  BY <1>1, <1>2, FS_EmptySet
<1>4. Cardinality(S) = 1 <=> S = {c}
  <2>1. Cardinality(S) = 1 <=> \E x : S = {x}  BY <1>2, FS_Singleton
  <2>. QED  BY <2>1, <1>1
<1>5. size[team[c]] <= 1 <=> S = {c}  BY <1>1, <1>2, <1>3, <1>4
<1>6. team[c] # TEAM_FLOCK => team[c] \in open
  BY <1>1 DEF IInv, RoomsFollowMembers
<1>. QED  BY <1>1, <1>2, <1>3, <1>5, <1>6 DEF Deserted

\* One member more, and one less.
LEMMA OneMore ==
    ASSUME NEW r, NEW c, c \notin Members(r)
    PROVE  Cardinality(Members(r) \cup {c}) = Cardinality(Members(r)) + 1
  BY MembersFinite, FS_AddElement

LEMMA OneLess ==
    ASSUME NEW r, NEW c, c \in Members(r)
    PROVE  Cardinality(Members(r) \ {c}) = Cardinality(Members(r)) - 1
  BY MembersFinite, FS_RemoveElement

-----------------------------------------------------------------------------
(* The steps that move a client. *)

\* SetForcePlayerTeam keeps the rooms in order.
LEMMA MoveStep ==
    ASSUME IInv, NEW c \in Clients, client[c] = "ingame",
           NEW r \in Rooms, team[c] # r,
           NEW guests \in [Rooms -> SUBSET Clients],
           \A s \in Rooms \ {TEAM_FLOCK} : s \notin created => guests[s] = {},
           SetForcePlayerTeam(c, r, guests)
    PROVE  IInv'
<1> DEFINE old == team[c]
           gone == Deserted(c)
<1>1. /\ Types /\ LobbyOwnsTheRest /\ LobbyExists /\ RoomSizes
      /\ RoomsFollowMembers /\ ControllersKnowMembers /\ NoLeaveWithoutJoin
      /\ old \in Rooms
  BY DEF IInv, Types
<1>2. /\ created' = (created \ gone) \cup {r}
      /\ open' = (open \ gone) \cup {r}
      /\ size' = [size EXCEPT ![old] = @ - 1, ![r] = @ + 1]
      /\ team' = [team EXCEPT ![c] = r]
      /\ joined' = Told(c, {r}, gone)
      /\ locked' = locked \ gone
      /\ invited' = [s \in Rooms |-> IF s \in gone THEN {} ELSE guests[s]]
      /\ client' = client
  BY DEF SetForcePlayerTeam, Destroy
<1>3. /\ c \in Members(old) /\ c \notin Members(r)
      /\ gone = {s \in {old} : s # TEAM_FLOCK /\ Members(s) = {c}}
  BY LastMember DEF Members
<1>4. \A s \in Rooms :
         Members(s)' = IF s = old THEN Members(s) \ {c}
                       ELSE IF s = r THEN Members(s) \cup {c} ELSE Members(s)
  BY <1>1, <1>2 DEF Types, Members
<1> HIDE DEF gone
<1>5. Types'
  <2>1. joined' \in [Rooms -> [Clients -> Int]]
    BY <1>1, <1>2 DEF Types, Told, Nobody
  <2>2. team' \in [Clients -> Rooms]  BY <1>1, <1>2 DEF Types
  <2>3. size' \in [Rooms -> Int]  BY <1>1, <1>2 DEF Types
  <2>4. invited' \in [Rooms -> SUBSET Clients]  BY <1>2
  <2>. QED  BY <1>1, <1>2, <2>1, <2>2, <2>3, <2>4 DEF Types
<1>6. LobbyOwnsTheRest'
  BY <1>1, <1>2 DEF LobbyOwnsTheRest, Types
<1>7. LobbyExists'
  BY <1>1, <1>2, <1>3 DEF LobbyExists
<1>8. RoomSizes'
  <2> SUFFICES ASSUME NEW s \in Rooms PROVE size'[s] = Cardinality(Members(s)')
    BY DEF RoomSizes
  <2>1. size[s] = Cardinality(Members(s)) /\ size[s] \in Int
    BY <1>1 DEF RoomSizes, Types
  <2>2. CASE s = old
    <3>1. size'[s] = size[s] - 1  BY <1>1, <1>2, <2>2 DEF Types
    <3>2. Cardinality(Members(s) \ {c}) = Cardinality(Members(s)) - 1
      BY <1>3, <2>2, OneLess
    <3>. QED  BY <1>4, <2>1, <2>2, <3>1, <3>2
  <2>3. CASE s = r
    <3>1. size'[s] = size[s] + 1  BY <1>1, <1>2, <2>3 DEF Types
    <3>2. Cardinality(Members(s) \cup {c}) = Cardinality(Members(s)) + 1
      BY <1>3, <2>3, OneMore
    <3>. QED  BY <1>4, <2>1, <2>3, <3>1, <3>2
  <2>4. CASE s # old /\ s # r
    BY <1>1, <1>2, <1>4, <2>1, <2>4 DEF Types
  <2>. QED  BY <2>2, <2>3, <2>4
<1>9. RoomsFollowMembers'
  <2> SUFFICES ASSUME NEW s \in Rooms \ {TEAM_FLOCK}
               PROVE  /\ s \in created' <=> Members(s)' # {}
                      /\ s \in open' <=> s \in created'
                      /\ s \notin created' => s \notin locked' /\ invited'[s] = {}
    BY DEF RoomsFollowMembers
  <2>1. /\ s \in created <=> Members(s) # {}
        /\ s \in open <=> s \in created
        /\ s \notin created => s \notin locked
    BY <1>1 DEF RoomsFollowMembers
  <2>2. s \in gone <=> s = old /\ Members(s) \ {c} = {}
    BY <1>3
  <2>3. invited'[s] = IF s \in gone THEN {} ELSE guests[s]
    BY <1>2
  <2>. QED  BY <1>2, <1>3, <1>4, <2>1, <2>2, <2>3
<1>10. ControllersKnowMembers' /\ NoLeaveWithoutJoin'
  <2>1. ASSUME NEW s \in Rooms, NEW d \in Clients, s \notin gone
        PROVE  joined'[s][d] = IF d = c THEN joined[s][c] + (IF s = r THEN 1 ELSE 0)
                                                          - (IF s = old THEN 1 ELSE 0)
                               ELSE joined[s][d]
    BY <1>1, <1>2, <2>1 DEF Types, Told
  <2>2. ASSUME NEW s \in Rooms \ {TEAM_FLOCK}, NEW d \in Clients
        PROVE  joined'[s][d] = IF d \in Members(s)' THEN 1 ELSE 0
    <3>1. joined[s][d] = IF d \in Members(s) THEN 1 ELSE 0
      BY <1>1 DEF ControllersKnowMembers
    <3>2. CASE s \in gone
      <4>1. joined'[s][d] = 0  BY <1>2, <3>2 DEF Told, Nobody
      <4>2. Members(s)' = {}  BY <1>3, <1>4, <3>2
      <4>. QED  BY <4>1, <4>2
    <3>3. CASE s \notin gone
      BY <1>3, <1>4, <2>1, <3>1, <3>3
    <3>. QED  BY <3>2, <3>3
  <2>3. ASSUME NEW d \in Clients
        PROVE  /\ joined'[TEAM_FLOCK][d] >= 0
               /\ d \in Members(TEAM_FLOCK)' => joined'[TEAM_FLOCK][d] >= 1
    <3>1. TEAM_FLOCK \in Rooms /\ TEAM_FLOCK \notin gone  BY <1>3, LobbyIsARoom
    <3>2. joined[TEAM_FLOCK][d] \in Int  BY <1>1, <3>1 DEF Types
    <3>3. /\ joined[TEAM_FLOCK][d] >= 0
          /\ d \in Members(TEAM_FLOCK) => joined[TEAM_FLOCK][d] >= 1
      BY <1>1 DEF ControllersKnowMembers, NoLeaveWithoutJoin
    <3>. QED  BY <1>3, <1>4, <2>1, <3>1, <3>2, <3>3
  <2>4. Members(TEAM_FLOCK)' \subseteq Clients  BY DEF Members
  <2>. QED  BY <2>2, <2>3, <2>4 DEF ControllersKnowMembers, NoLeaveWithoutJoin
<1>. QED  BY <1>5, <1>6, <1>7, <1>8, <1>9, <1>10 DEF IInv

\* A client that disconnects leaves the rooms in order.
LEMMA LeaveStep ==
    ASSUME IInv, NEW c \in Clients, OnPlayerDisconnect(c)
    PROVE  IInv'
<1> DEFINE old == team[c]
           gone == Deserted(c)
<1>1. /\ Types /\ LobbyOwnsTheRest /\ LobbyExists /\ RoomSizes
      /\ RoomsFollowMembers /\ ControllersKnowMembers /\ NoLeaveWithoutJoin
      /\ old \in Rooms /\ client[c] = "ingame" /\ TEAM_FLOCK \in Rooms
  BY LobbyIsARoom DEF IInv, Types, OnPlayerDisconnect
<1>2. /\ client' = [client EXCEPT ![c] = "out"]
      /\ created' = created \ gone
      /\ open' = (open \ gone) \cup {TEAM_FLOCK}
      /\ size' = [size EXCEPT ![old] = @ - 1]
      /\ team' = [team EXCEPT ![c] = TEAM_FLOCK]
      /\ joined' = Told(c, {}, gone)
      /\ locked' = locked \ gone
      /\ invited' = [s \in Rooms |-> IF s \in gone THEN {} ELSE invited[s]]
  BY DEF OnPlayerDisconnect, Destroy
<1>3. /\ c \in Members(old)
      /\ gone = {s \in {old} : s # TEAM_FLOCK /\ Members(s) = {c}}
  BY <1>1, LastMember
<1>4. \A s \in Rooms :
         Members(s)' = IF s = old THEN Members(s) \ {c} ELSE Members(s)
  BY <1>1, <1>2 DEF Types, Members
<1> HIDE DEF gone
<1>5. Types'
  <2>1. joined' \in [Rooms -> [Clients -> Int]]
    BY <1>1, <1>2 DEF Types, Told, Nobody
  <2>2. team' \in [Clients -> Rooms]  BY <1>1, <1>2 DEF Types
  <2>3. size' \in [Rooms -> Int]  BY <1>1, <1>2 DEF Types
  <2>4. invited' \in [Rooms -> SUBSET Clients]  BY <1>1, <1>2 DEF Types
  <2>. QED  BY <1>1, <1>2, <2>1, <2>2, <2>3, <2>4 DEF Types
<1>6. LobbyOwnsTheRest'
  BY <1>1, <1>2 DEF LobbyOwnsTheRest, Types
<1>7. LobbyExists'
  BY <1>1, <1>2, <1>3 DEF LobbyExists
<1>8. RoomSizes'
  <2> SUFFICES ASSUME NEW s \in Rooms PROVE size'[s] = Cardinality(Members(s)')
    BY DEF RoomSizes
  <2>1. size[s] = Cardinality(Members(s)) /\ size[s] \in Int
    BY <1>1 DEF RoomSizes, Types
  <2>2. CASE s = old
    <3>1. size'[s] = size[s] - 1  BY <1>1, <1>2, <2>2 DEF Types
    <3>2. Cardinality(Members(s) \ {c}) = Cardinality(Members(s)) - 1
      BY <1>3, <2>2, OneLess
    <3>. QED  BY <1>4, <2>1, <2>2, <3>1, <3>2
  <2>3. CASE s # old
    BY <1>1, <1>2, <1>4, <2>1, <2>3 DEF Types
  <2>. QED  BY <2>2, <2>3
<1>9. RoomsFollowMembers'
  <2> SUFFICES ASSUME NEW s \in Rooms \ {TEAM_FLOCK}
               PROVE  /\ s \in created' <=> Members(s)' # {}
                      /\ s \in open' <=> s \in created'
                      /\ s \notin created' => s \notin locked' /\ invited'[s] = {}
    BY DEF RoomsFollowMembers
  <2>1. /\ s \in created <=> Members(s) # {}
        /\ s \in open <=> s \in created
        /\ s \notin created => s \notin locked /\ invited[s] = {}
    BY <1>1 DEF RoomsFollowMembers
  <2>2. s \in gone <=> s = old /\ Members(s) \ {c} = {}
    BY <1>3
  <2>. QED  BY <1>2, <1>3, <1>4, <2>1, <2>2
<1>10. ControllersKnowMembers' /\ NoLeaveWithoutJoin'
  <2>1. ASSUME NEW s \in Rooms, NEW d \in Clients, s \notin gone
        PROVE  joined'[s][d] = IF d = c /\ s = old THEN joined[s][c] - 1 ELSE joined[s][d]
    <3>1. joined'[s] = [joined[s] EXCEPT ![c] = @ + 0 - (IF s = old THEN 1 ELSE 0)]
      BY <1>2, <2>1 DEF Told
    <3>2. joined[s] \in [Clients -> Int]  BY <1>1 DEF Types
    <3>. QED  BY <3>1, <3>2
  <2>2. ASSUME NEW s \in Rooms \ {TEAM_FLOCK}, NEW d \in Clients
        PROVE  joined'[s][d] = IF d \in Members(s)' THEN 1 ELSE 0
    <3>1. joined[s][d] = IF d \in Members(s) THEN 1 ELSE 0
      BY <1>1 DEF ControllersKnowMembers
    <3>2. CASE s \in gone
      <4>1. joined'[s][d] = 0  BY <1>2, <3>2 DEF Told, Nobody
      <4>2. Members(s)' = {}  BY <1>3, <1>4, <3>2
      <4>. QED  BY <4>1, <4>2
    <3>3. CASE s \notin gone
      BY <1>3, <1>4, <2>1, <3>1, <3>3
    <3>. QED  BY <3>2, <3>3
  <2>3. ASSUME NEW d \in Clients
        PROVE  /\ joined'[TEAM_FLOCK][d] >= 0
               /\ d \in Members(TEAM_FLOCK)' => joined'[TEAM_FLOCK][d] >= 1
    <3>1. TEAM_FLOCK \notin gone  BY <1>3
    <3>2. joined[TEAM_FLOCK][d] \in Int  BY <1>1 DEF Types
    <3>3. /\ joined[TEAM_FLOCK][d] >= 0
          /\ d \in Members(TEAM_FLOCK) => joined[TEAM_FLOCK][d] >= 1
      BY <1>1 DEF ControllersKnowMembers, NoLeaveWithoutJoin
    <3>. QED  BY <1>1, <1>3, <1>4, <2>1, <3>1, <3>2, <3>3
  <2>4. Members(TEAM_FLOCK)' \subseteq Clients  BY DEF Members
  <2>. QED  BY <2>2, <2>3, <2>4 DEF ControllersKnowMembers, NoLeaveWithoutJoin
<1>. QED  BY <1>5, <1>6, <1>7, <1>8, <1>9, <1>10 DEF IInv

\* A client that enters the game becomes a member of the lobby.
LEMMA EnterStep ==
    ASSUME IInv, NEW c \in Clients, OnPlayerConnect(c)
    PROVE  IInv'
<1>1. /\ Types /\ LobbyOwnsTheRest /\ LobbyExists /\ RoomSizes
      /\ RoomsFollowMembers /\ ControllersKnowMembers /\ NoLeaveWithoutJoin
      /\ client[c] # "ingame" /\ team[c] = TEAM_FLOCK /\ TEAM_FLOCK \in Rooms
  BY LobbyIsARoom DEF IInv, LobbyOwnsTheRest, OnPlayerConnect
<1>2. /\ client' = [client EXCEPT ![c] = "ingame"]
      /\ team' = team
      /\ size' = [size EXCEPT ![TEAM_FLOCK] = @ + 1]
      /\ open' = open \cup {TEAM_FLOCK}
      /\ joined' = [joined EXCEPT ![TEAM_FLOCK][c] = @ + 1]
      /\ UNCHANGED <<locked, invited, created>>
  BY <1>1 DEF OnPlayerConnect, Types
<1>3. c \notin Members(TEAM_FLOCK)  BY <1>1 DEF Members
<1>4. \A s \in Rooms :
         Members(s)' = IF s = TEAM_FLOCK THEN Members(s) \cup {c} ELSE Members(s)
  BY <1>1, <1>2 DEF Types, Members
<1>5. Types'
  BY <1>1, <1>2 DEF Types
<1>6. LobbyOwnsTheRest' /\ LobbyExists'
  BY <1>1, <1>2 DEF LobbyOwnsTheRest, LobbyExists, Types
<1>7. RoomSizes'
  <2> SUFFICES ASSUME NEW s \in Rooms PROVE size'[s] = Cardinality(Members(s)')
    BY DEF RoomSizes
  <2>1. size[s] = Cardinality(Members(s)) /\ size[s] \in Int
    BY <1>1 DEF RoomSizes, Types
  <2>2. Cardinality(Members(TEAM_FLOCK) \cup {c}) = Cardinality(Members(TEAM_FLOCK)) + 1
    BY <1>3, OneMore
  <2>. QED  BY <1>1, <1>2, <1>4, <2>1, <2>2 DEF Types
<1>8. RoomsFollowMembers'
  BY <1>1, <1>2, <1>4 DEF RoomsFollowMembers
<1>9. ControllersKnowMembers' /\ NoLeaveWithoutJoin'
  <2>1. ASSUME NEW s \in Rooms, NEW d \in Clients
        PROVE  joined'[s][d] = IF s = TEAM_FLOCK /\ d = c THEN joined[s][d] + 1
                               ELSE joined[s][d]
    BY <1>1, <1>2 DEF Types
  <2>2. \A d \in Clients : joined[TEAM_FLOCK][d] \in Int
    BY <1>1 DEF Types
  <2>3. NoLeaveWithoutJoin'
    BY <1>1, <2>1, <2>2 DEF NoLeaveWithoutJoin
  <2>4. ASSUME NEW s \in Rooms \ {TEAM_FLOCK}, NEW d \in Clients
        PROVE  joined'[s][d] = IF d \in Members(s)' THEN 1 ELSE 0
    BY <1>1, <1>4, <2>1 DEF ControllersKnowMembers
  <2>5. ASSUME NEW d \in Members(TEAM_FLOCK)'
        PROVE  joined'[TEAM_FLOCK][d] >= 1
    <3>1. d \in Clients  BY DEF Members
    <3>2. /\ joined[TEAM_FLOCK][d] >= 0
          /\ d \in Members(TEAM_FLOCK) => joined[TEAM_FLOCK][d] >= 1
      BY <1>1, <3>1 DEF ControllersKnowMembers, NoLeaveWithoutJoin
    <3>. QED  BY <1>1, <1>4, <2>1, <2>2, <2>5, <3>1, <3>2
  <2>. QED  BY <2>3, <2>4, <2>5 DEF ControllersKnowMembers
<1>. QED  BY <1>5, <1>6, <1>7, <1>8, <1>9 DEF IInv

-----------------------------------------------------------------------------
(* Loading. *)

\* The least element of a set of numbers, from which inductions start.
LEMMA Least == ASSUME NEW S, S \subseteq Nat, S # {} PROVE \E x \in S : \A y \in S : x <= y
<1>2. \E x \in S : \A y \in S : ~ (<<y, x>> \in OpToRel(<, Nat))
  <2>1. IsWellFoundedOn(OpToRel(<, Nat), Nat)  BY NatLessThanWellFounded
  <2>. QED  BY <2>1, WFMin, Zenon
<1>3. \A x \in Nat, y \in Nat : <<y, x>> \in OpToRel(<, Nat) <=> y < x
  BY Zenon DEF OpToRel
<1>4. PICK x \in S : \A y \in S : ~ (<<y, x>> \in OpToRel(<, Nat))  BY <1>2
<1>5. \A y \in S : ~ (y < x)  BY <1>3, <1>4, Zenon
<1>6. \A y \in S : x <= y
  <2> TAKE y \in S
  <2>1. y \in Nat /\ x \in Nat  OBVIOUS
  <2>. QED  BY <1>5, <2>1
<1>. QED  BY <1>6

\* The function f is a loop: its values are those after 0, 1, ... n bodies.
Visits(f, start, n) ==
    f = [k \in 0 .. n |-> IF k = 0 THEN start ELSE LoadOne(f[k - 1], k - 1)]

Repeats(f, start, n) ==
    f = [k \in 0 .. n |-> IF k = 0 THEN start ELSE LoadRound(f[k - 1])]

LEMMA VisitsExist == ASSUME NEW start, NEW n \in Nat PROVE \E f : Visits(f, start, n)
<1> DEFINE started(k) == \E f : Visits(f, start, k)
           bad == {k \in Nat : ~ started(k)}
<1>1. ASSUME NEW k PROVE started(k) <=> \E f : Visits(f, start, k)  OBVIOUS
<1> HIDE DEF started
<1>2. bad = {}
  <2> SUFFICES ASSUME bad # {} PROVE FALSE
    OBVIOUS
  <2>1. PICK k \in bad : \A j \in bad : k <= j
    <3>1. bad \subseteq Nat  OBVIOUS
    <3>. QED  BY <3>1, Least
  <2>2. k \in Nat /\ ~ started(k)  BY <2>1
  <2>3. CASE k = 0
    <3> DEFINE f == [j \in 0 .. 0 |-> start]
    <3>1. Visits(f, start, 0)  BY DEF Visits
    <3>. QED  BY <1>1, <2>2, <2>3, <3>1
  <2>4. CASE k # 0
    <3>1. k - 1 \in Nat /\ k - 1 \notin bad  BY <2>1, <2>2, <2>4
    <3>2. PICK f : Visits(f, start, k - 1)
      <4>1. started(k - 1)  BY <3>1
      <4>. QED  BY <1>1, <4>1
    <3> DEFINE body(h, j) == IF j = 0 THEN start ELSE LoadOne(h[j - 1], j - 1)
               g == [j \in 0 .. k |-> IF j = k THEN body(f, k) ELSE f[j]]
    <3>3. ASSUME NEW j \in 0 .. k PROVE g[j] = body(g, j)
      <4>1. j # 0 => g[j - 1] = f[j - 1]  BY <2>2
      <4>2. body(g, j) = body(f, j)  BY <4>1
      <4>3. j # k => j \in 0 .. k - 1  BY <2>2
      <4>4. j # k => f[j] = body(f, j)  BY <3>2, <4>3 DEF Visits
      <4> HIDE DEF body
      <4>. QED  BY <4>2, <4>4
    <3>4. g = [j \in 0 .. k |-> g[j]]  OBVIOUS
    <3>5. g = [j \in 0 .. k |-> body(g, j)]
      <4> HIDE DEF g, body
      <4>. QED  BY <3>3, <3>4
    <3>6. Visits(g, start, k)
      <4> HIDE DEF g
      <4>. QED  BY <3>5 DEF Visits
    <3>. QED  BY <1>1, <2>2, <3>6
  <2>. QED  BY <2>3, <2>4
<1>3. started(n)  BY <1>2
<1>. QED  BY <1>1, <1>3

LEMMA RepeatsExist == ASSUME NEW start, NEW n \in Nat PROVE \E f : Repeats(f, start, n)
<1> DEFINE started(k) == \E f : Repeats(f, start, k)
           bad == {k \in Nat : ~ started(k)}
<1>1. ASSUME NEW k PROVE started(k) <=> \E f : Repeats(f, start, k)  OBVIOUS
<1> HIDE DEF started
<1>2. bad = {}
  <2> SUFFICES ASSUME bad # {} PROVE FALSE
    OBVIOUS
  <2>1. PICK k \in bad : \A j \in bad : k <= j
    <3>1. bad \subseteq Nat  OBVIOUS
    <3>. QED  BY <3>1, Least
  <2>2. k \in Nat /\ ~ started(k)  BY <2>1
  <2>3. CASE k = 0
    <3> DEFINE f == [j \in 0 .. 0 |-> start]
    <3>1. Repeats(f, start, 0)  BY DEF Repeats
    <3>. QED  BY <1>1, <2>2, <2>3, <3>1
  <2>4. CASE k # 0
    <3>1. k - 1 \in Nat /\ k - 1 \notin bad  BY <2>1, <2>2, <2>4
    <3>2. PICK f : Repeats(f, start, k - 1)
      <4>1. started(k - 1)  BY <3>1
      <4>. QED  BY <1>1, <4>1
    <3> DEFINE body(h, j) == IF j = 0 THEN start ELSE LoadRound(h[j - 1])
               g == [j \in 0 .. k |-> IF j = k THEN body(f, k) ELSE f[j]]
    <3>3. ASSUME NEW j \in 0 .. k PROVE g[j] = body(g, j)
      <4>1. j # 0 => g[j - 1] = f[j - 1]  BY <2>2
      <4>2. body(g, j) = body(f, j)  BY <4>1
      <4>3. j # k => j \in 0 .. k - 1  BY <2>2
      <4>4. j # k => f[j] = body(f, j)  BY <3>2, <4>3 DEF Repeats
      <4> HIDE DEF body
      <4>. QED  BY <4>2, <4>4
    <3>4. g = [j \in 0 .. k |-> g[j]]  OBVIOUS
    <3>5. g = [j \in 0 .. k |-> body(g, j)]
      <4> HIDE DEF g, body
      <4>. QED  BY <3>3, <3>4
    <3>6. Repeats(g, start, k)
      <4> HIDE DEF g
      <4>. QED  BY <3>5 DEF Repeats
    <3>. QED  BY <1>1, <2>2, <3>6
  <2>. QED  BY <2>3, <2>4
<1>3. started(n)  BY <1>2
<1>. QED  BY <1>1, <1>3

\* What loading keeps: counts within the map, and only instances that are there.
LoadTyped(load) ==
    load \in [entities : [Rooms -> 0 .. Entities], init : SUBSET created, spent : Nat,
              over : BOOLEAN, unready : SUBSET Rooms]

\* One room's turn, when the round is not over.
LEMMA OneIs ==
    ASSUME NEW load, NEW r \in Rooms, LoadTyped(load), ~ load.over, r \in created
    PROVE  \E count \in 0 .. Entities :
              /\ LoadOne(load, r).entities = [load.entities EXCEPT ![r] = count]
              /\ LoadOne(load, r).init
                    = load.init \cup (IF count = Entities THEN {r} ELSE {})
              /\ LoadOne(load, r).unready
                    = load.unready \cup ({r} \ LoadOne(load, r).init)
              /\ r \in load.init \/ load.entities[r] = Entities
                    => count = load.entities[r]
              /\ ~ (r \in load.init \/ load.entities[r] = Entities)
                    => count = load.entities[r] + 1
              /\ LoadTyped(LoadOne(load, r))
<1> DEFINE more == r \notin load.init /\ load.entities[r] < Entities
           count == load.entities[r] + (IF more THEN 1 ELSE 0)
           spent == load.spent + (IF more THEN 1 ELSE 0)
           ready == load.init \cup (IF count = Entities THEN {r} ELSE {})
           one == [entities |-> [load.entities EXCEPT ![r] = count],
                   init     |-> ready,
                   spent    |-> spent,
                   over     |-> spent >= EntitiesPerTick,
                   unready  |-> load.unready \cup ({r} \ ready)]
<1>1. LoadOne(load, r) = one  BY DEF LoadOne
<1>2. /\ load.entities \in [Rooms -> 0 .. Entities] /\ load.init \subseteq created
      /\ load.spent \in Nat /\ load.unready \subseteq Rooms /\ Entities \in Nat
      /\ load.entities[r] \in 0 .. Entities
  BY SizeAssumption DEF LoadTyped
<1>3. /\ count \in 0 .. Entities /\ spent \in Nat
      /\ r \in load.init \/ load.entities[r] = Entities => count = load.entities[r]
      /\ ~ (r \in load.init \/ load.entities[r] = Entities) => count = load.entities[r] + 1
  BY <1>2
<1>4. (spent >= EntitiesPerTick) \in BOOLEAN  OBVIOUS
<1> HIDE DEF count, spent
<1>5. [load.entities EXCEPT ![r] = count] \in [Rooms -> 0 .. Entities]  BY <1>2, <1>3
<1>6. ready \subseteq created /\ load.unready \cup ({r} \ ready) \subseteq Rooms  BY <1>2
<1>7. one.entities = [load.entities EXCEPT ![r] = count] /\ one.init = ready
      /\ one.unready = load.unready \cup ({r} \ ready)
  OBVIOUS
<1>8. LoadTyped(one)
  <2> HIDE DEF ready
  <2>. QED  BY <1>3, <1>4, <1>5, <1>6 DEF LoadTyped
<1> HIDE DEF one
<1>. QED  BY <1>1, <1>3, <1>7, <1>8

LEMMA OneTyped ==
    ASSUME NEW load, NEW r \in Rooms, LoadTyped(load)
    PROVE  LoadTyped(LoadOne(load, r))
<1>1. CASE load.over \/ r \notin created  BY <1>1 DEF LoadOne
<1>2. CASE ~ load.over /\ r \in created  BY <1>2, OneIs
<1>. QED  BY <1>1, <1>2

\* The lobby, when it is not started, is among the unready rooms that make the next
\* round necessary, and has loaded at least n entities.
LobbyLoads(load, n) ==
    \/ TEAM_FLOCK \in load.init
    \/ TEAM_FLOCK \in load.unready /\ load.entities[TEAM_FLOCK] >= n

LEMMA OneKeepsLobby ==
    ASSUME NEW load, NEW r \in Rooms, NEW n \in Nat, LoadTyped(load), LobbyLoads(load, n)
    PROVE  LobbyLoads(LoadOne(load, r), n)
<1>1. load.entities \in [Rooms -> 0 .. Entities] /\ TEAM_FLOCK \in Rooms
  BY LobbyIsARoom DEF LoadTyped
<1>2. CASE load.over \/ r \notin created  BY <1>2 DEF LoadOne
<1>3. CASE ~ load.over /\ r \in created
  <2> DEFINE one == LoadOne(load, r)
  <2>1. PICK count \in 0 .. Entities :
          /\ one.entities = [load.entities EXCEPT ![r] = count]
          /\ load.init \subseteq one.init /\ load.unready \subseteq one.unready
          /\ count = load.entities[r] \/ count = load.entities[r] + 1
    BY <1>3, OneIs
  <2> HIDE DEF one
  <2>2. one.entities[TEAM_FLOCK]
          = IF r = TEAM_FLOCK THEN count ELSE load.entities[TEAM_FLOCK]
    BY <1>1, <2>1
  <2>3. load.entities[TEAM_FLOCK] \in Int /\ (r = TEAM_FLOCK => count >= load.entities[TEAM_FLOCK])
    BY <1>1, <2>1
  <2>4. LobbyLoads(one, n)  BY <2>1, <2>2, <2>3 DEF LobbyLoads
  <2>. QED  BY <2>4 DEF one
<1>. QED  BY <1>2, <1>3

\* A round visits the lobby first, whatever has been spent before it.
LEMMA LobbyFirst ==
    ASSUME NEW load, NEW n \in Nat, LoadTyped(load), ~ load.over, LobbyExists,
           TEAM_FLOCK \in load.init \/ load.entities[TEAM_FLOCK] >= n
    PROVE  LobbyLoads(LoadOne(load, TEAM_FLOCK), n + 1)
<1> DEFINE one == LoadOne(load, TEAM_FLOCK)
<1>1. load.entities \in [Rooms -> 0 .. Entities] /\ TEAM_FLOCK \in Rooms
      /\ TEAM_FLOCK \in created
  BY LobbyIsARoom DEF LoadTyped, LobbyExists
<1>2. PICK count \in 0 .. Entities :
        /\ one.entities = [load.entities EXCEPT ![TEAM_FLOCK] = count]
        /\ one.init = load.init \cup (IF count = Entities THEN {TEAM_FLOCK} ELSE {})
        /\ one.unready = load.unready \cup ({TEAM_FLOCK} \ one.init)
        /\ TEAM_FLOCK \in load.init \/ load.entities[TEAM_FLOCK] = Entities
              => count = load.entities[TEAM_FLOCK]
        /\ ~ (TEAM_FLOCK \in load.init \/ load.entities[TEAM_FLOCK] = Entities)
              => count = load.entities[TEAM_FLOCK] + 1
  BY <1>1, OneIs
<1>3. one.entities[TEAM_FLOCK] = count /\ load.entities[TEAM_FLOCK] \in Int  BY <1>1, <1>2
<1> HIDE DEF one
<1>4. LobbyLoads(one, n + 1)
  <2>1. CASE TEAM_FLOCK \in one.init  BY <2>1 DEF LobbyLoads
  <2>2. CASE TEAM_FLOCK \notin one.init
    <3>1. count = load.entities[TEAM_FLOCK] + 1 /\ TEAM_FLOCK \notin load.init
      BY <1>2, <2>2
    <3>2. TEAM_FLOCK \in one.unready  BY <1>2, <2>2
    <3>. QED  BY <1>3, <3>1, <3>2 DEF LobbyLoads
  <2>. QED  BY <2>1, <2>2
<1>. QED  BY <1>4 DEF one

\* Every round brings the lobby one entity nearer to its start.
LEMMA RoundKeeps ==
    ASSUME NEW load, NEW n \in Nat, LoadTyped(load), LobbyExists, LobbyLoads(load, n)
    PROVE  LoadTyped(LoadRound(load)) /\ LobbyLoads(LoadRound(load), n + 1)
<1>1. CASE load.unready = {}
  <2>1. LoadRound(load) = load  BY <1>1 DEF LoadRound
  <2>2. TEAM_FLOCK \in load.init  BY <1>1 DEF LobbyLoads
  <2>. QED  BY <2>1, <2>2 DEF LobbyLoads
<1>2. CASE load.unready # {}
  <2> DEFINE start == [load EXCEPT !.over = FALSE, !.unready = {}]
             last == MaxRoom + 1
  <2>1. last \in Nat \ {0} /\ MaxRoom \in Nat  BY SizeAssumption
  <2>2. LoadTyped(start) /\ start.over = FALSE /\ start.init = load.init
        /\ start.entities = load.entities
    BY DEF LoadTyped
  <2> HIDE DEF start
  <2> DEFINE f == CHOOSE f : Visits(f, start, last)
  <2>3. Visits(f, start, last)  BY <2>1, VisitsExist
  <2>4. LoadRound(load) = f[last]
    BY <1>2 DEF LoadRound, start, Visits
  <2> HIDE DEF f, last
  <2>5. f[0] = start /\ \A k \in 1 .. last : f[k] = LoadOne(f[k - 1], k - 1)
    <3>1. \A k \in 0 .. last : f[k] = IF k = 0 THEN start ELSE LoadOne(f[k - 1], k - 1)
      BY <2>3, Zenon DEF Visits
    <3>. QED  BY <2>1, <3>1
  <2> DEFINE right(k) == LoadTyped(f[k]) /\ (k > 0 => LobbyLoads(f[k], n + 1))
             wrong == {k \in 0 .. last : ~ right(k)}
  <2>6. ASSUME NEW k \in 0 .. last, k \in wrong, \A j \in wrong : k <= j PROVE FALSE
    <3>1. CASE k = 0  BY <2>2, <2>5, <2>6, <3>1
    <3>2. CASE k # 0
      <4>1. k - 1 \in 0 .. last /\ k \in 1 .. last /\ ~ (k <= k - 1)  BY <2>1, <3>2
      <4>2. right(k - 1)  BY <2>6, <4>1
      <4>3. k - 1 \in Rooms  BY <2>1, <4>1 DEF Rooms, TEAM_FLOCK, last
      <4>4. LoadTyped(f[k])  BY <2>5, <4>1, <4>2, <4>3, OneTyped
      <4>5. LobbyLoads(f[k], n + 1)
        <5>1. CASE k = 1
          <6>1. f[1] = LoadOne(start, TEAM_FLOCK)  BY <2>5, <4>1, <5>1 DEF TEAM_FLOCK
          <6>2. TEAM_FLOCK \in start.init \/ start.entities[TEAM_FLOCK] >= n
            BY <2>2 DEF LobbyLoads
          <6>. QED  BY <2>2, <5>1, <6>1, <6>2, LobbyFirst
        <5>2. CASE k # 1
          <6>1. k - 1 > 0 /\ n + 1 \in Nat  BY <4>1, <5>2
          <6>. QED  BY <2>5, <4>1, <4>2, <4>3, <6>1, OneKeepsLobby
        <5>. QED  BY <5>1, <5>2
      <4>. QED  BY <2>6, <4>4, <4>5
    <3>. QED  BY <3>1, <3>2
  <2> HIDE DEF right
  <2>7. wrong = {}
    <3>1. wrong \subseteq Nat /\ wrong \subseteq 0 .. last  BY <2>1
    <3>. QED  BY <2>6, <3>1, Least
  <2>8. right(last)  BY <2>1, <2>7
  <2>. QED  BY <2>1, <2>4, <2>8 DEF right
<1>. QED  BY <1>1, <1>2

\* The lobby is started when a tick has loaded what it can, whatever it was before.
LEMMA LobbyLoaded ==
    ASSUME NEW counts \in [Rooms -> 0 .. Entities], NEW ready \in SUBSET created,
           created \subseteq Rooms, LobbyExists
    PROVE  /\ Loaded(counts, ready).entities \in [Rooms -> 0 .. Entities]
           /\ Loaded(counts, ready).init \subseteq created
           /\ TEAM_FLOCK \in Loaded(counts, ready).init
<1> DEFINE start == [entities |-> counts, init |-> ready, spent |-> 0,
                     over |-> FALSE, unready |-> created \ ready]
<1>1. /\ Entities \in Nat /\ MaxRoom \in Nat \ {0} /\ MaxRounds \in Nat
      /\ MaxRounds >= Entities + 1
  <2>1. Entities \in Nat /\ MaxRoom \in Nat \ {0}  BY SizeAssumption
  <2>2. (Entities + 1) * (MaxRoom + 1) = (Entities + 1) * MaxRoom + (Entities + 1)
    BY <2>1
  <2>3. (Entities + 1) * MaxRoom \in Nat  BY <2>1
  <2>. QED  BY <2>1, <2>2, <2>3 DEF MaxRounds
<1>2. LoadTyped(start) /\ LobbyLoads(start, 0)
  <2>1. LoadTyped(start)  BY <1>1 DEF LoadTyped
  <2>2. counts[TEAM_FLOCK] >= 0  BY <1>1, LobbyIsARoom
  <2>. QED  BY <2>1, <2>2 DEF LobbyLoads, LobbyExists
<1> DEFINE f == CHOOSE f : Repeats(f, start, MaxRounds)
<1>3. Repeats(f, start, MaxRounds)
  <2> HIDE DEF start
  <2>. QED  BY <1>1, RepeatsExist
<1>4. Loaded(counts, ready) = f[MaxRounds]
  BY DEF Loaded, Repeats
<1> HIDE DEF f, start
<1>5. f[0] = start /\ \A k \in 1 .. MaxRounds : f[k] = LoadRound(f[k - 1])
  <2>1. \A k \in 0 .. MaxRounds : f[k] = IF k = 0 THEN start ELSE LoadRound(f[k - 1])
    BY <1>3, Zenon DEF Repeats
  <2>. QED  BY <1>1, <2>1
<1> DEFINE right(k) == LoadTyped(f[k]) /\ LobbyLoads(f[k], k)
           wrong == {k \in 0 .. MaxRounds : ~ right(k)}
<1>6. ASSUME NEW k \in 0 .. MaxRounds, k \in wrong, \A j \in wrong : k <= j PROVE FALSE
  <2>1. CASE k = 0  BY <1>2, <1>5, <1>6, <2>1
  <2>2. CASE k # 0
    <3>1. k - 1 \in 0 .. MaxRounds /\ k \in 1 .. MaxRounds /\ ~ (k <= k - 1)
          /\ k - 1 \in Nat /\ (k - 1) + 1 = k
      BY <1>1, <2>2
    <3>2. right(k - 1)  BY <1>6, <3>1
    <3>3. LoadTyped(LoadRound(f[k - 1])) /\ LobbyLoads(LoadRound(f[k - 1]), (k - 1) + 1)
      BY <3>1, <3>2, RoundKeeps
    <3>. QED  BY <1>5, <1>6, <3>1, <3>3
  <2>. QED  BY <2>1, <2>2
<1> HIDE DEF right
<1>7. wrong = {}
  <2>1. wrong \subseteq Nat /\ wrong \subseteq 0 .. MaxRounds  BY <1>1
  <2>. QED  BY <1>6, <2>1, Least
<1>8. LoadTyped(f[MaxRounds]) /\ LobbyLoads(f[MaxRounds], MaxRounds)
  <2>1. right(MaxRounds)  BY <1>1, <1>7
  <2>. QED  BY <2>1 DEF right
<1>9. f[MaxRounds].entities[TEAM_FLOCK] \in 0 .. Entities
  BY <1>8, LobbyIsARoom DEF LoadTyped
<1>10. TEAM_FLOCK \in f[MaxRounds].init
  BY <1>1, <1>8, <1>9 DEF LobbyLoads
<1>. QED  BY <1>4, <1>8, <1>10 DEF LoadTyped

-----------------------------------------------------------------------------
(* The other steps. *)

\* Ticks replace controllers, and tell the new ones of those they find.
LEMMA TickStep == ASSUME IInv, OnTick PROVE IInv'
<1>1. /\ Types /\ LobbyOwnsTheRest /\ LobbyExists /\ RoomSizes
      /\ RoomsFollowMembers /\ ControllersKnowMembers /\ NoLeaveWithoutJoin
  BY DEF IInv
<1>2. UNCHANGED <<client, team, size, open, locked, invited, created>>
  BY DEF OnTick, core, access
<1>3. joined' = [r \in Rooms |->
                   IF r \in Hard
                   THEN [c \in Clients |-> IF client[c] # "out" /\ team[c] = r THEN 1 ELSE 0]
                   ELSE joined[r]]
  BY DEF OnTick
<1>4. \A r : Members(r)' = Members(r)  BY <1>2 DEF Members
<1>5. Types'
  <2>1. joined' \in [Rooms -> [Clients -> Int]]  BY <1>1, <1>3 DEF Types
  <2>. QED  BY <1>1, <1>2, <2>1 DEF Types
<1>6. LobbyOwnsTheRest' /\ LobbyExists' /\ RoomSizes' /\ RoomsFollowMembers'
  BY <1>1, <1>2, <1>4 DEF LobbyOwnsTheRest, LobbyExists, RoomSizes, RoomsFollowMembers
<1>7. ControllersKnowMembers' /\ NoLeaveWithoutJoin'
  <2>1. ASSUME NEW r \in Rooms \ {TEAM_FLOCK}, NEW c \in Clients
        PROVE  joined'[r][c] = IF c \in Members(r)' THEN 1 ELSE 0
    <3>1. c \in Members(r) <=> client[c] # "out" /\ team[c] = r
      BY <1>1 DEF Members, LobbyOwnsTheRest
    <3>2. joined[r][c] = IF c \in Members(r) THEN 1 ELSE 0
      BY <1>1 DEF ControllersKnowMembers
    <3>. QED  BY <1>3, <1>4, <3>1, <3>2
  <2>2. ASSUME NEW c \in Clients
        PROVE  /\ joined'[TEAM_FLOCK][c] >= 0
               /\ c \in Members(TEAM_FLOCK)' => joined'[TEAM_FLOCK][c] >= 1
    <3>1. TEAM_FLOCK \in Rooms  BY LobbyIsARoom
    <3>2. /\ joined[TEAM_FLOCK][c] >= 0
          /\ c \in Members(TEAM_FLOCK) => joined[TEAM_FLOCK][c] >= 1
      BY <1>1 DEF ControllersKnowMembers, NoLeaveWithoutJoin
    <3>3. c \in Members(TEAM_FLOCK) => client[c] # "out" /\ team[c] = TEAM_FLOCK
      BY DEF Members
    <3>. QED  BY <1>3, <1>4, <3>1, <3>2, <3>3
  <2>3. Members(TEAM_FLOCK)' \subseteq Clients  BY DEF Members
  <2>. QED  BY <2>1, <2>2, <2>3 DEF ControllersKnowMembers, NoLeaveWithoutJoin
<1>. QED  BY <1>5, <1>6, <1>7 DEF IInv

\* Connections that do not enter, locks and invitations touch no member, and
\* only a room that has members is locked or invited into by its commands.
LEMMA AccessStep ==
    ASSUME IInv, NEW c \in Clients,
           \/ Connect(c) \/ DropConnecting(c) \/ ConLockTeam(c)
           \/ \E target \in Clients : ConInviteTeam(c, target)
           \/ \E r \in Rooms : ConUninvite(r, c)
    PROVE  IInv'
<1>1. /\ Types /\ LobbyOwnsTheRest /\ LobbyExists /\ RoomSizes
      /\ RoomsFollowMembers /\ ControllersKnowMembers /\ NoLeaveWithoutJoin
      /\ team[c] \in Rooms
  BY DEF IInv, Types
<1>2. CASE Connect(c) \/ DropConnecting(c)
  <2>1. /\ client[c] # "ingame" /\ client'[c] # "ingame"
        /\ client' \in [Clients -> {"out", "connecting", "ingame"}]
        /\ \A d \in Clients \ {c} : client'[d] = client[d]
        /\ UNCHANGED <<team, size, open, locked, invited, created, joined>>
    BY <1>1, <1>2 DEF Connect, DropConnecting, access, instances, Types
  <2>2. \A r : Members(r)' = Members(r)  BY <2>1 DEF Members
  <2>. QED  BY <1>1, <2>1, <2>2 DEF IInv, Types, LobbyOwnsTheRest, LobbyExists, RoomSizes,
                 RoomsFollowMembers, ControllersKnowMembers, NoLeaveWithoutJoin
<1>3. CASE ConLockTeam(c) \/ \E target \in Clients : ConInviteTeam(c, target)
  <2>1. /\ client[c] = "ingame" /\ team[c] # TEAM_FLOCK
        /\ locked' \subseteq locked \cup {team[c]}
        /\ invited' \in [Rooms -> SUBSET Clients]
        /\ \A r \in Rooms \ {team[c]} : invited'[r] = invited[r]
        /\ UNCHANGED <<client, team, size, open, created, joined>>
    BY <1>1, <1>3 DEF ConLockTeam, ConInviteTeam, core, instances, Types
  <2>2. \A r : Members(r)' = Members(r)  BY <2>1 DEF Members
  <2>3. team[c] \in created
    BY <1>1, <2>1 DEF RoomsFollowMembers, Members
  <2>. QED  BY <1>1, <2>1, <2>2, <2>3 DEF IInv, Types, LobbyOwnsTheRest, LobbyExists, RoomSizes,
                 RoomsFollowMembers, ControllersKnowMembers, NoLeaveWithoutJoin
<1>4. CASE \E r \in Rooms : ConUninvite(r, c)
  <2>1. /\ invited' \in [Rooms -> SUBSET Clients]
        /\ \A r \in Rooms : invited'[r] \subseteq invited[r]
        /\ UNCHANGED <<client, team, size, open, locked, created, joined>>
    BY <1>1, <1>4 DEF ConUninvite, Uninvited, core, instances, Types
  <2>2. \A r : Members(r)' = Members(r)  BY <2>1 DEF Members
  <2>. QED  BY <1>1, <2>1, <2>2 DEF IInv, Types, LobbyOwnsTheRest, LobbyExists, RoomSizes,
                 RoomsFollowMembers, ControllersKnowMembers, NoLeaveWithoutJoin
<1>. QED  BY <1>2, <1>3, <1>4

\* FindAEmptyTeam finds one, if there is one.
LEMMA EmptyRoomFound ==
    ASSUME EmptyRooms # {}
    PROVE  FindAEmptyTeam \in Rooms
<1>1. EmptyRooms \subseteq Nat /\ EmptyRooms \subseteq Rooms
  BY SizeAssumption DEF EmptyRooms, Rooms, TEAM_FLOCK
<1>2. PICK m \in EmptyRooms : \A r \in EmptyRooms : ~(<<r, m>> \in OpToRel(<, Nat))
  <2>1. IsWellFoundedOn(OpToRel(<, Nat), Nat)  BY NatLessThanWellFounded
  <2>. QED  BY <1>1, <2>1, WFMin, Zenon
<1>3. ASSUME NEW r \in EmptyRooms PROVE m <= r
  <2>1. r \in Nat /\ m \in Nat  BY <1>1
  <2>2. ~(r < m)  BY <1>2, <2>1 DEF OpToRel
  <2>. QED  BY <2>1, <2>2
<1>. QED  BY <1>1, <1>3 DEF FindAEmptyTeam

\* /join, /create and vote_kick move a client; a kick of somebody in the lobby
\* only takes the invitation back.
LEMMA CommandStep ==
    ASSUME IInv, NEW c \in Clients,
           \/ \E r \in Rooms : ConJoinTeam(c, r)
           \/ ConCreateTeam(c)
           \/ \E r \in Rooms : ConKick(r, c)
    PROVE  IInv'
<1>1. /\ Types /\ LobbyOwnsTheRest /\ LobbyExists /\ RoomSizes
      /\ RoomsFollowMembers /\ ControllersKnowMembers /\ NoLeaveWithoutJoin
  BY DEF IInv
<1>2. \A s \in Rooms \ {TEAM_FLOCK} : s \notin created => invited[s] = {}
  BY <1>1 DEF RoomsFollowMembers
<1>3. ASSUME NEW r \in Rooms, NEW gametype, client[c] = "ingame",
             SetPlayerTeam(c, r, gametype)
      PROVE  IInv'
  <2>1. team[c] # r /\ SetForcePlayerTeam(c, r, invited)
    BY <1>3 DEF SetPlayerTeam
  <2>2. invited \in [Rooms -> SUBSET Clients]  BY <1>1 DEF Types
  <2>. QED  BY <1>2, <1>3, <2>1, <2>2, MoveStep
<1>4. CASE \E r \in Rooms : ConJoinTeam(c, r)
  BY <1>3, <1>4 DEF ConJoinTeam
<1>5. CASE ConCreateTeam(c)
  BY <1>3, <1>5, EmptyRoomFound DEF ConCreateTeam
<1>6. CASE \E r \in Rooms : ConKick(r, c)
  <2>1. PICK r \in Rooms : ConKick(r, c)  BY <1>6
  <2>2. ASSUME NEW s \in Rooms
        PROVE  /\ Uninvited(s, c) \in [Rooms -> SUBSET Clients]
               /\ \A t \in Rooms \ {TEAM_FLOCK} : t \notin created => Uninvited(s, c)[t] = {}
    BY <1>1, <1>2 DEF Types, Uninvited
  <2>3. CASE /\ team[c] # TEAM_FLOCK
             /\ \E s \in Rooms : SetForcePlayerTeam(c, TEAM_FLOCK, Uninvited(s, c))
    <3>1. PICK s \in Rooms : SetForcePlayerTeam(c, TEAM_FLOCK, Uninvited(s, c))  BY <2>3
    <3>2. client[c] = "ingame"  BY <1>1, <2>3 DEF LobbyOwnsTheRest
    <3>. QED  BY <2>2, <2>3, <3>1, <3>2, LobbyIsARoom, MoveStep
  <2>4. CASE invited' = Uninvited(r, c) /\ UNCHANGED <<core, open, locked, reload, instances>>
    <3>1. /\ invited' \in [Rooms -> SUBSET Clients]
          /\ \A t \in Rooms \ {TEAM_FLOCK} : t \notin created => invited'[t] = {}
          /\ UNCHANGED <<client, team, size, open, locked, created, joined>>
      BY <2>2, <2>4 DEF core, instances
    <3>2. \A t : Members(t)' = Members(t)  BY <3>1 DEF Members
    <3>. QED  BY <1>1, <3>1, <3>2 DEF IInv, Types, LobbyOwnsTheRest, LobbyExists, RoomSizes,
                   RoomsFollowMembers, ControllersKnowMembers, NoLeaveWithoutJoin
  <2>. QED  BY <2>1, <2>3, <2>4 DEF ConKick
<1>. QED  BY <1>4, <1>5, <1>6

\* At first the lobby is the only room, and nobody is there.
LEMMA InitStep == ASSUME Init PROVE IInv
<1>1. \A r \in Rooms : Members(r) = {}  BY DEF Init, Members
<1>2. Types
  <2>1. joined \in [Rooms -> [Clients -> Int]]  BY DEF Init, Nobody
  <2>. QED  BY <2>1, LobbyIsARoom DEF Init, Types
<1>3. RoomSizes
  BY <1>1, FS_EmptySet DEF Init, RoomSizes
<1>4. ControllersKnowMembers /\ NoLeaveWithoutJoin
  BY <1>1, LobbyIsARoom DEF Init, ControllersKnowMembers, NoLeaveWithoutJoin, Nobody
<1>5. RoomsFollowMembers
  BY <1>1 DEF Init, RoomsFollowMembers
<1>. QED  BY <1>2, <1>3, <1>4, <1>5 DEF Init, IInv, LobbyOwnsTheRest, LobbyExists

\* Steps that change none of the variables IInv speaks of.
LEMMA IdleStep ==
    ASSUME IInv, UNCHANGED <<client, team, size, open, locked, invited, created, joined>>
    PROVE  IInv'
<1>1. \A r : Members(r)' = Members(r)  BY DEF Members
<1>. QED  BY <1>1 DEF IInv, Types, LobbyOwnsTheRest, LobbyExists, RoomSizes,
               RoomsFollowMembers, ControllersKnowMembers, NoLeaveWithoutJoin

LEMMA NextStep == ASSUME IInv, [Next]_vars PROVE IInv'
<1>1. ASSUME NEW c \in Clients,
             \/ Connect(c) \/ DropConnecting(c) \/ ConLockTeam(c)
             \/ \E target \in Clients : ConInviteTeam(c, target)
             \/ \E r \in Rooms : ConUninvite(r, c)
      PROVE  IInv'
  BY <1>1, AccessStep
<1>2. ASSUME NEW c \in Clients, OnPlayerConnect(c) PROVE IInv'
  BY <1>2, EnterStep
<1>3. ASSUME NEW c \in Clients, OnPlayerDisconnect(c) PROVE IInv'
  BY <1>3, LeaveStep
<1>4. ASSUME NEW c \in Clients,
             \/ \E r \in Rooms : ConJoinTeam(c, r)
             \/ ConCreateTeam(c)
             \/ \E r \in Rooms : ConKick(r, c)
      PROVE  IInv'
  BY <1>4, CommandStep
<1>5. CASE ClientStep
  BY <1>1, <1>2, <1>3, <1>4, <1>5 DEF ClientStep
<1>6. CASE ReloadRequest
  BY <1>6, IdleStep DEF ReloadRequest, ConChangeMap, ConChangeGameType, core, access, instances
<1>7. CASE OnTick
  BY <1>7, TickStep
<1>8. CASE UNCHANGED vars
  BY <1>8, IdleStep DEF vars
<1>. QED  BY <1>5, <1>6, <1>7, <1>8 DEF Next

-----------------------------------------------------------------------------

\* The strengthened invariant: rooms, sizes and controllers agree on who is
\* where after any sequence of entries, moves, kicks, reloads and disconnects.
THEOREM Invariant == Spec => []IInv
<1>1. Init => IInv  BY InitStep
<1>2. IInv /\ [Next]_vars => IInv'  BY NextStep
<1>. QED  BY <1>1, <1>2, PTL DEF Spec

\* The counts that decide whether a departure destroys a room are right.
THEOREM SizesAreRight == Spec => []RoomSizes
  BY Invariant, PTL DEF IInv

\* A room exists exactly while it has members, and a new one starts unlocked
\* with nobody invited.
THEOREM RoomsAreTheirMembers == Spec => []RoomsFollowMembers
  BY Invariant, PTL DEF IInv

\* No controller misses or repeats the arrival or departure of a member.
THEOREM ControllersAreTold == Spec => []ControllersKnowMembers
  BY Invariant, PTL DEF IInv

-----------------------------------------------------------------------------
(* Types, and the lobby. *)

\* No step but a tick puts an instance out of work that stays, and a tick starts
\* the lobby.
LEMMA TypeStep ==
    ASSUME IInv, TypeOK, [Next]_vars
    PROVE  TypeOK' /\ (TEAM_FLOCK \in init => TEAM_FLOCK \in init')
<1>1. /\ Types /\ LobbyExists /\ init \subseteq created
      /\ locked \subseteq Rooms \ {TEAM_FLOCK}
      /\ reload \in [Rooms -> {"no", "soft", "hard"}]
      /\ entities \in [Rooms -> 0 .. Entities] /\ 0 \in 0 .. Entities
      /\ TEAM_FLOCK \in Rooms
  BY SizeAssumption, LobbyIsARoom DEF IInv, TypeOK
<1>2. Types'
  <2>1. IInv'  BY NextStep
  <2>. QED  BY <2>1 DEF IInv
<1> DEFINE Rest == /\ locked' \subseteq Rooms \ {TEAM_FLOCK}
                   /\ reload' \in [Rooms -> {"no", "soft", "hard"}]
                   /\ init' \subseteq created'
                   /\ entities' \in [Rooms -> 0 .. Entities]
                   /\ TEAM_FLOCK \in init => TEAM_FLOCK \in init'
<1> SUFFICES Rest
  BY <1>2 DEF Types, TypeOK
<1>3. ASSUME NEW c \in Clients, NEW guests,
             created \ Deserted(c) \subseteq created', Destroy(Deserted(c), guests),
             reload' = reload
      PROVE  Rest
  <2>1. TEAM_FLOCK \notin Deserted(c)  BY DEF Deserted
  <2>. QED  BY <1>1, <1>3, <2>1 DEF Destroy
<1>4. ASSUME NEW c \in Clients, NEW r, NEW guests, SetForcePlayerTeam(c, r, guests)
      PROVE  Rest
  BY <1>3, <1>4 DEF SetForcePlayerTeam
<1>5. CASE ClientStep
  <2>1. PICK c \in Clients :
           \/ Connect(c) \/ DropConnecting(c) \/ OnPlayerConnect(c)
           \/ OnPlayerDisconnect(c) \/ (\E r \in Rooms : ConJoinTeam(c, r))
           \/ ConCreateTeam(c) \/ ConLockTeam(c)
           \/ (\E target \in Clients : ConInviteTeam(c, target))
           \/ \E r \in Rooms : ConUninvite(r, c) \/ ConKick(r, c)
    BY <1>5 DEF ClientStep
  <2>2. CASE \/ Connect(c) \/ DropConnecting(c) \/ OnPlayerConnect(c)
             \/ (\E target \in Clients : ConInviteTeam(c, target))
             \/ (\E r \in Rooms : ConUninvite(r, c))
    BY <1>1, <2>2 DEF Connect, DropConnecting, OnPlayerConnect, ConInviteTeam, ConUninvite,
                      core, access, instances
  <2>3. CASE OnPlayerDisconnect(c)
    BY <1>3, <2>3 DEF OnPlayerDisconnect
  <2>4. CASE (\E r \in Rooms : ConJoinTeam(c, r)) \/ ConCreateTeam(c)
    BY <1>4, <2>4 DEF ConJoinTeam, ConCreateTeam, SetPlayerTeam
  <2>5. CASE ConLockTeam(c)
    BY <1>1, <2>5 DEF ConLockTeam, core, instances, Types
  <2>6. CASE \E r \in Rooms : ConKick(r, c)
    <3>1. PICK r \in Rooms : ConKick(r, c)  BY <2>6
    <3>2. CASE UNCHANGED <<core, open, locked, reload, instances>>
      BY <1>1, <3>2 DEF core, instances
    <3>3. CASE \E s \in Rooms : SetForcePlayerTeam(c, TEAM_FLOCK, Uninvited(s, c))
      BY <1>4, <3>3
    <3>. QED  BY <3>1, <3>2, <3>3 DEF ConKick
  <2>. QED  BY <2>1, <2>2, <2>3, <2>4, <2>5, <2>6
<1>6. CASE ReloadRequest
  <2>1. PICK r \in Rooms : ConChangeMap(r) \/ ConChangeGameType(r)
    BY <1>6 DEF ReloadRequest
  <2>. QED  BY <1>1, <2>1 DEF ConChangeMap, ConChangeGameType, core, access, instances
<1>7. CASE OnTick
  <2> DEFINE counts == [r \in Rooms |-> IF r \in Hard \cup Soft THEN 0 ELSE entities[r]]
             ready == init \ (Hard \cup Soft)
  <2>1. counts \in [Rooms -> 0 .. Entities]  BY <1>1
  <2>2. ready \in SUBSET created /\ created \subseteq Rooms  BY <1>1 DEF Types
  <2> HIDE DEF counts, ready
  <2>3. /\ Loaded(counts, ready).entities \in [Rooms -> 0 .. Entities]
        /\ Loaded(counts, ready).init \subseteq created
        /\ TEAM_FLOCK \in Loaded(counts, ready).init
    BY <1>1, <2>1, <2>2, LobbyLoaded
  <2>4. /\ entities' = Loaded(counts, ready).entities /\ init' = Loaded(counts, ready).init
        /\ reload' = [r \in Rooms |-> IF r \in init THEN "no" ELSE reload[r]]
        /\ locked' = locked /\ created' = created
    BY <1>7 DEF OnTick, counts, ready, core, access
  <2>5. reload' \in [Rooms -> {"no", "soft", "hard"}]  BY <1>1, <2>4
  <2>. QED  BY <1>1, <2>3, <2>4, <2>5
<1>8. CASE UNCHANGED vars
  BY <1>1, <1>8 DEF vars
<1>. QED  BY <1>5, <1>6, <1>7, <1>8 DEF Next

LEMMA InitTyped == Init => TypeOK
  BY SizeAssumption, LobbyIsARoom DEF Init, TypeOK, Nobody

\* Every variable of the rooms keeps its type: among others, only instances that are
\* there are started, and none has loaded more than the map has.
THEOREM RoomsTypeCorrect == Spec => []TypeOK
<1>1. IInv /\ TypeOK /\ [Next]_vars => TypeOK'  BY TypeStep
<1>. QED  BY <1>1, InitTyped, Invariant, PTL DEF Spec

\* A client in the lobby can always leave for another room once the server has
\* loaded the map for the first time: a tick that replaces the lobby's map or its
\* controller loads all of it, however large the map, however few entities a tick may
\* load and however many other rooms are loading.
THEOREM LobbyIsReady == Spec => LobbyStaysReady
<1>1. IInv /\ TypeOK /\ [Next]_vars => (TEAM_FLOCK \in init => TEAM_FLOCK \in init')
  BY TypeStep
<1>2. IInv /\ TypeOK /\ [Next]_vars => [(TEAM_FLOCK \in init) => (TEAM_FLOCK \in init')]_vars
  BY <1>1
<1>. QED  BY <1>2, Invariant, RoomsTypeCorrect, PTL DEF Spec, LobbyStaysReady

=============================================================================
