-------------------------------- MODULE Rooms --------------------------------
(***************************************************************************)
(* CGameTeams: the rooms of one server.  A client enters room 0, the lobby, *)
(* and goes from there to rooms that clients create, lock, invite each      *)
(* other into and leave; a room is destroyed when its last member leaves.   *)
(* Each room has an instance (a game controller and a world) that loads the *)
(* entities of the map a few per tick and is started when all are loaded;   *)
(* its map can be reloaded (soft) or the whole instance replaced (hard) by  *)
(* the next tick that finds the room started.                              *)
(*                                                                         *)
(* Delays between commands, chat and vote menus are left out, and so is     *)
(* TEAM_SUPER, the room past the last.  A move that a game mode refuses     *)
(* (IsDisruptiveLeave) is a step that is not taken.                         *)
(***************************************************************************)
EXTENDS Integers, FiniteSets

CONSTANTS
    Clients,          \* the client slots
    MaxRoom,          \* the last room: MAX_CLIENTS - 1 in the code
    Entities,         \* m_Entities.size(): entities of the map
    EntitiesPerTick,  \* ENTITIES_PER_TICK
    OneGameType,      \* m_GameTypes.size() <= 1: /join creates a room
    SvLock,           \* sv_lock: rooms may be locked
    SvInvite          \* sv_invite: clients may be invited to rooms

TEAM_FLOCK == 0
Rooms == TEAM_FLOCK .. MaxRoom

ASSUME SizeAssumption ==
    /\ IsFiniteSet(Clients)
    /\ {MaxRoom, EntitiesPerTick} \subseteq Nat \ {0}
    /\ Entities \in Nat
    /\ {OneGameType, SvLock, SvInvite} \subseteq BOOLEAN

VARIABLES
    client,     \* m_aClients[c].m_State; there is a CPlayer unless it is "out"
    team,       \* m_Core.m_Team
    size,       \* m_Core.m_TeamSize
    open,       \* the rooms whose m_aTeamState is not TEAMSTATE_EMPTY
    locked,     \* the rooms with m_aTeamLocked
    invited,    \* m_aInvited
    reload,     \* m_aTeamReload
    created,    \* the rooms whose instance has m_IsCreated
    init,       \* ... and m_Init
    entities,   \* m_Entities of the instance: how many have been loaded
    joined      \* joins less leaves, of each client, that the room's present
                \* controller was told of: what its team sizes are made of

core      == <<client, team, size>>
access    == <<open, locked, invited>>
instances == <<created, init, entities, joined>>
vars      == <<client, team, size, open, locked, invited, reload,
               created, init, entities, joined>>

TypeOK ==
    /\ client \in [Clients -> {"out", "connecting", "ingame"}]
    /\ team \in [Clients -> Rooms]
    /\ size \in [Rooms -> Int]
    /\ open \subseteq Rooms /\ locked \subseteq Rooms \ {TEAM_FLOCK}
    /\ invited \in [Rooms -> SUBSET Clients]
    /\ reload \in [Rooms -> {"no", "soft", "hard"}]
    /\ created \subseteq Rooms /\ init \subseteq created
    /\ entities \in [Rooms -> 0 .. Entities]
    /\ joined \in [Rooms -> [Clients -> Int]]

Nobody == [c \in Clients |-> 0]

Init ==
    /\ client = [c \in Clients |-> "out"]
    /\ team = [c \in Clients |-> TEAM_FLOCK]
    /\ size = [r \in Rooms |-> 0]
    /\ open = {} /\ locked = {}
    /\ invited = [r \in Rooms |-> {}]
    /\ reload = [r \in Rooms |-> "no"]
    /\ created = {TEAM_FLOCK} /\ init = {}
    /\ entities = [r \in Rooms |-> 0]
    /\ joined = [r \in Rooms |-> Nobody]

-----------------------------------------------------------------------------
(* Moving a client that is in the game. *)

Members(r) == {c \in Clients : client[c] = "ingame" /\ team[c] = r}

\* The room c's departure destroys, if it does.
Deserted(c) ==
    {r \in {team[c]} : r # TEAM_FLOCK /\ r \in open /\ size[r] <= 1}

\* Mutant: m_Init outlives the instance.
DestroyKeepingInit(gone, guests) ==
    /\ locked' = locked \ gone
    /\ invited' = [r \in Rooms |-> IF r \in gone THEN {} ELSE guests[r]]
    /\ entities' = [r \in Rooms |-> IF r \in gone THEN 0 ELSE entities[r]]
    /\ UNCHANGED init

\* Destroying a room unlocks it and forgets its invitations (`guests' are those
\* of the other rooms); a reload that was asked for is not forgotten.
Destroy(gone, guests) ==
    /\ locked' = locked \ gone
    /\ invited' = [r \in Rooms |-> IF r \in gone THEN {} ELSE guests[r]]
    /\ init' = init \ gone
    /\ entities' = [r \in Rooms |-> IF r \in gone THEN 0 ELSE entities[r]]

\* Mutant: a controller is not told of those who leave.
ToldOfJoins(c, to, gone) ==
    [r \in Rooms |->
        IF r \in gone THEN Nobody
        ELSE [joined[r] EXCEPT ![c] = @ + (IF r \in to THEN 1 ELSE 0)]]

\* What the controllers know once c has left its room and joined the rooms `to'.
Told(c, to, gone) ==
    [r \in Rooms |->
        IF r \in gone THEN Nobody
        ELSE [joined[r] EXCEPT ![c] = @ + (IF r \in to THEN 1 ELSE 0)
                                        - (IF r = team[c] THEN 1 ELSE 0)]]

\* TEAM_REASON_NORMAL and TEAM_REASON_FORCE, to another room.
SetForcePlayerTeam(c, r, guests) ==
    LET gone == Deserted(c)
    IN  /\ created' = (created \ gone) \cup {r}
        /\ open' = (open \ gone) \cup {r}
        /\ size' = [size EXCEPT ![team[c]] = @ - 1, ![r] = @ + 1]
        /\ team' = [team EXCEPT ![c] = r]
        /\ joined' = Told(c, {r}, gone)
        /\ Destroy(gone, guests)
        /\ UNCHANGED <<client, reload>>

CanSwitchTeam(c) == team[c] \in init

\* SetPlayerTeam: /join passes no game type, /create passes a known one.
SetPlayerTeam(c, r, gametype) ==
    /\ team[c] # r
    /\ r \in created \/ gametype \/ OneGameType
    /\ SetForcePlayerTeam(c, r, invited)

-----------------------------------------------------------------------------
(* Clients come and go. *)

Connect(c) ==
    /\ client[c] = "out"
    /\ client' = [client EXCEPT ![c] = "connecting"]
    /\ UNCHANGED <<team, size, access, reload, instances>>

\* Mutant: the client is counted out although it never entered.
DropConnectingCounting(c) ==
    /\ client[c] = "connecting"
    /\ client' = [client EXCEPT ![c] = "out"]
    /\ size' = [size EXCEPT ![team[c]] = @ - 1]
    /\ UNCHANGED <<team, access, reload, instances>>

DropConnecting(c) ==
    /\ client[c] = "connecting"
    /\ client' = [client EXCEPT ![c] = "out"]
    /\ UNCHANGED <<team, size, access, reload, instances>>

OnPlayerConnect(c) ==
    /\ client[c] = "connecting"
    /\ client' = [client EXCEPT ![c] = "ingame"]
    /\ team' = [team EXCEPT ![c] = TEAM_FLOCK]
    /\ size' = [size EXCEPT ![TEAM_FLOCK] = @ + 1]
    /\ open' = open \cup {TEAM_FLOCK}
    /\ joined' = [joined EXCEPT ![TEAM_FLOCK][c] = @ + 1]
    /\ UNCHANGED <<locked, invited, reload, created, init, entities>>

\* Mutant: the room is kept when its last member disconnects.
OnPlayerDisconnectKeeping(c) ==
    /\ client[c] = "ingame"
    /\ client' = [client EXCEPT ![c] = "out"]
    /\ size' = [size EXCEPT ![team[c]] = @ - 1]
    /\ team' = [team EXCEPT ![c] = TEAM_FLOCK]
    /\ joined' = Told(c, {}, {})
    /\ UNCHANGED <<access, reload, created, init, entities>>

\* The controller is told first; the invitations of c stay.
OnPlayerDisconnect(c) ==
    LET gone == Deserted(c)
    IN  /\ client[c] = "ingame"
        /\ client' = [client EXCEPT ![c] = "out"]
        /\ created' = created \ gone
        /\ open' = (open \ gone) \cup {TEAM_FLOCK}
        /\ size' = [size EXCEPT ![team[c]] = @ - 1]
        /\ team' = [team EXCEPT ![c] = TEAM_FLOCK]
        /\ joined' = Told(c, {}, gone)
        /\ Destroy(gone, invited)
        /\ UNCHANGED reload

-----------------------------------------------------------------------------
(* Chat commands of a client in the game. *)

\* /join
ConJoinTeam(c, r) ==
    /\ client[c] = "ingame" /\ CanSwitchTeam(c)
    /\ r \in locked => c \in invited[r]
    /\ SetPlayerTeam(c, r, FALSE)

EmptyRooms == {r \in Rooms \ {TEAM_FLOCK} : r \notin open}

\* The smallest of the empty rooms.
FindAEmptyTeam == CHOOSE r \in EmptyRooms : \A s \in EmptyRooms : r <= s

\* /create
ConCreateTeam(c) ==
    /\ client[c] = "ingame" /\ CanSwitchTeam(c)
    /\ EmptyRooms # {}
    /\ SetPlayerTeam(c, FindAEmptyTeam, TRUE)

\* /lock and /unlock
ConLockTeam(c) ==
    /\ client[c] = "ingame" /\ team[c] # TEAM_FLOCK
    /\ \/ team[c] \in locked /\ locked' = locked \ {team[c]}
       \/ SvLock /\ locked' = locked \cup {team[c]}
    /\ UNCHANGED <<core, open, invited, reload, instances>>

\* /invite, which looks the name up in every slot; one that is not in the game
\* answers to "(connecting)" or "(invalid)".
ConInviteTeam(c, target) ==
    /\ SvInvite
    /\ client[c] = "ingame" /\ team[c] # TEAM_FLOCK
    /\ target \notin invited[team[c]]
    /\ invited' = [invited EXCEPT ![team[c]] = @ \cup {target}]
    /\ UNCHANGED <<core, open, locked, reload, instances>>

-----------------------------------------------------------------------------
(* Commands of the server or of a room, given by a vote or an administrator. *)

Uninvited(r, c) == [invited EXCEPT ![r] = @ \ {c}]

\* uninvite
ConUninvite(r, c) ==
    /\ r # TEAM_FLOCK
    /\ invited' = Uninvited(r, c)
    /\ UNCHANGED <<core, open, locked, reload, instances>>

\* vote_kick.  In the lobby it runs a server command instead, and so it does
\* for an empty slot.  The victim need not be in this room.  When the kick
\* destroys this room, it asks the deleted controller which room it is for
\* before it takes the invitation back: whatever room it answers, s.
ConKick(r, victim) ==
    /\ r \in created \ {TEAM_FLOCK}
    /\ client[victim] # "out"
    /\ \/ /\ team[victim] # TEAM_FLOCK
          /\ \E s \in Rooms :
                /\ r \in Deserted(victim) \/ s = r
                /\ SetForcePlayerTeam(victim, TEAM_FLOCK, Uninvited(s, victim))
       \/ /\ team[victim] = TEAM_FLOCK
          /\ invited' = Uninvited(r, victim)
          /\ UNCHANGED <<core, open, locked, reload, instances>>

\* change_map to another map, once the room has begun to load.
ConChangeMap(r) ==
    /\ r \in created /\ entities[r] # 0
    /\ reload' = [reload EXCEPT ![r] = "soft"]
    /\ UNCHANGED <<core, access, instances>>

\* change_gametype to a known one.
ConChangeGameType(r) ==
    /\ r \in created
    /\ reload' = [reload EXCEPT ![r] = "hard"]
    /\ UNCHANGED <<core, access, instances>>

-----------------------------------------------------------------------------
(* OnTick. *)

Hard == {r \in init : reload[r] = "hard"}
Soft == {r \in init : reload[r] = "soft"}

\* Mutant: a room that has nothing left to load uses up the tick's entities too.
LoadOneCountingVisits(load, r) ==
    IF load.over \/ r \notin created THEN load
    ELSE LET more  == r \notin load.init /\ load.entities[r] < Entities
             count == load.entities[r] + (IF more THEN 1 ELSE 0)
             spent == load.spent + 1
             ready == load.init \cup (IF count = Entities THEN {r} ELSE {})
         IN  [entities |-> [load.entities EXCEPT ![r] = count],
              init     |-> ready,
              spent    |-> spent,
              over     |-> spent >= EntitiesPerTick,
              unready  |-> load.unready \cup ({r} \ ready)]

\* One room's turn to load: at most one entity, and the room is started when
\* it was the last.  `unready' collects the rooms of this round that are not
\* started, and the round ends once the entities of this tick are spent.
LoadOne(load, r) ==
    IF load.over \/ r \notin created THEN load
    ELSE LET more  == r \notin load.init /\ load.entities[r] < Entities
             count == load.entities[r] + (IF more THEN 1 ELSE 0)
             spent == load.spent + (IF more THEN 1 ELSE 0)
             ready == load.init \cup (IF count = Entities THEN {r} ELSE {})
         IN  [entities |-> [load.entities EXCEPT ![r] = count],
              init     |-> ready,
              spent    |-> spent,
              over     |-> spent >= EntitiesPerTick,
              unready  |-> load.unready \cup ({r} \ ready)]

\* Mutant: no round is begun once the entities of this tick are spent.
LoadRoundWithinLimit(load) ==
    IF load.unready = {} \/ load.spent >= EntitiesPerTick THEN load
    ELSE LET visited[n \in 0 .. MaxRoom + 1] ==
                IF n = 0 THEN [load EXCEPT !.over = FALSE, !.unready = {}]
                ELSE LoadOne(visited[n - 1], n - 1)
         IN  visited[MaxRoom + 1]

\* Rounds are repeated until all the rooms that one has come to are started.
LoadRound(load) ==
    IF load.unready = {} THEN load
    ELSE LET visited[n \in 0 .. MaxRoom + 1] ==
                IF n = 0 THEN [load EXCEPT !.over = FALSE, !.unready = {}]
                ELSE LoadOne(visited[n - 1], n - 1)
         IN  visited[MaxRoom + 1]

\* A round with unready rooms loads an entity of one of them or ends loading.
MaxRounds == (Entities + 1) * (MaxRoom + 1)

Loaded(counts, ready) ==
    LET rounds[n \in 0 .. MaxRounds] ==
            IF n = 0 THEN [entities |-> counts, init |-> ready, spent |-> 0,
                           over |-> FALSE, unready |-> created \ ready]
            ELSE LoadRound(rounds[n - 1])
    IN  rounds[MaxRounds]

\* The first loop reloads rooms (or lets them play), the second loads entities.
\* A new controller is told of every player of the room, entered or not.
OnTick ==
    LET load == Loaded([r \in Rooms |-> IF r \in Hard \cup Soft THEN 0 ELSE entities[r]],
                       init \ (Hard \cup Soft))
    IN  /\ reload' = [r \in Rooms |-> IF r \in init THEN "no" ELSE reload[r]]
        /\ joined' = [r \in Rooms |->
                         IF r \in Hard
                         THEN [c \in Clients |->
                                 IF client[c] # "out" /\ team[c] = r THEN 1 ELSE 0]
                         ELSE joined[r]]
        /\ entities' = load.entities
        /\ init' = load.init
        /\ UNCHANGED <<core, access, created>>

ClientStep ==
    \E c \in Clients :
        \/ Connect(c)
        \/ DropConnecting(c)
        \/ OnPlayerConnect(c)
        \/ OnPlayerDisconnect(c)
        \/ \E r \in Rooms : ConJoinTeam(c, r)
        \/ ConCreateTeam(c)
        \/ ConLockTeam(c)
        \/ \E target \in Clients : ConInviteTeam(c, target)
        \/ \E r \in Rooms : ConUninvite(r, c) \/ ConKick(r, c)

ReloadRequest == \E r \in Rooms : ConChangeMap(r) \/ ConChangeGameType(r)

Next == ClientStep \/ ReloadRequest \/ OnTick

Spec == Init /\ [][Next]_vars

-----------------------------------------------------------------------------
(* Properties. *)

\* The size of a room that CTeamsCore counts up and down is the number of
\* clients in it (CTeamsCore::Team, Join, Leave): rooms are destroyed by it.
RoomSizes == \A r \in Rooms : size[r] = Cardinality(Members(r))

\* A room other than the lobby is there exactly while it has members, and
\* nothing of the previous occupants' access outlives them: SetForcePlayerTeam
\* neither leaves a client in a destroyed room nor keeps an empty one, and the
\* next creator of a room finds it unlocked with nobody invited.
RoomsFollowMembers ==
    \A r \in Rooms \ {TEAM_FLOCK} :
        /\ r \in created <=> Members(r) # {}
        /\ r \in open <=> r \in created
        /\ r \notin created => r \notin locked /\ invited[r] = {}

\* The controller of a room has been told of each of its members exactly once,
\* across moves, kicks, reloads and the replacement of the controller: its team
\* sizes are counted from these calls.  In the lobby a member may have been
\* announced twice, by a replacement while it was still loading the map and
\* again when it entered; it is never forgotten.
ControllersKnowMembers ==
    /\ \A r \in Rooms \ {TEAM_FLOCK} : \A c \in Clients :
          joined[r][c] = IF c \in Members(r) THEN 1 ELSE 0
    /\ \A c \in Members(TEAM_FLOCK) : joined[TEAM_FLOCK][c] >= 1

\* Once started the lobby is ready between any two ticks, even when its map or
\* its controller is replaced and however many entities other rooms load in the
\* same tick: a client that enters can always leave for another room.
LobbyStaysReady == [][(TEAM_FLOCK \in init) => (TEAM_FLOCK \in init')]_vars

=============================================================================
