-------------------------------- MODULE Votes --------------------------------
(***************************************************************************)
(* The votes of a server: one ballot of the whole server (CGameContext) and *)
(* one of every room (IGameController).  Votes to kick a player, to move a  *)
(* player to the spectators and to change a setting of a room are held in   *)
(* the room of the caller, the others by the whole server.                 *)
(*                                                                         *)
(* Every tick each open ballot is counted again if something changed, and   *)
(* ends when the count, the clock or an administrator has decided it; the   *)
(* command of a ballot that passed runs inside that tick.  A command names   *)
(* its player by client id.                                                *)
(*                                                                         *)
(* Rooms.tla has the rest of a room's life.  Here a room is started as soon *)
(* as it has a member.  The delays before and between votes of one client,  *)
(* players that are away, the list of blocked addresses and                 *)
(* sv_vote_max_total (off by default) are left out.  A change of the map    *)
(* begins anew: CGameContext::Clear zeroes what Init has as zero.           *)
(***************************************************************************)
EXTENDS Integers, FiniteSets

CONSTANTS
    Clients,        \* the client ids
    MaxRoom,        \* the last room
    YesPercentage,  \* sv_vote_yes_percentage
    MaxVotes,       \* bound of the counter m_VotePos
    Configs         \* what may vary and stays as it is (see Config)

Lobby == 0
Rooms == Lobby .. MaxRoom
Server == -1        \* the ballot of the whole server
Ballots == Rooms \cup {Server}
Out == -1           \* the place of a client that is not in the game
Nobody == -1        \* no client id

(* addr: the address of each client; majority: sv_vote_majority;            *)
(* moderating, forcing: the clients whose rights have the commands moderate *)
(* and vote; calling: the ballots that are called (a bound).                *)
Config == [addr : [Clients -> Clients], majority : BOOLEAN,
           moderating : SUBSET Clients, forcing : SUBSET Clients,
           calling : SUBSET Ballots]

ASSUME VotesAssumption ==
    /\ Clients \subseteq Nat /\ IsFiniteSet(Clients) /\ Cardinality(Clients) <= 64
    /\ MaxRoom \in Nat
    /\ YesPercentage \in 1..100
    /\ MaxVotes \in Nat \ {0}
    /\ Configs \subseteq Config

VARIABLES
    room,        \* the room of each client, or Out
    spec,        \* the clients that are spectators
    moderators,  \* the clients with m_Moderating
    cast,        \* m_Vote and m_VotePos of each client, and who has voted since
    votePos,     \* CGameContext::m_VotePos (nothing reads that of a controller)
    ballot,      \* the vote fields of the server and of every controller
    config       \* one of Configs

vars == <<room, spec, moderators, cast, votePos, ballot, config>>

Types == {"unknown", "option", "kick", "spectate"}
Decisions == {"unknown", "yes", "no", "yes_admin", "no_admin"}
NoCommand == [do |-> "set", who |-> Nobody]
Commands == [do : {"kick", "spectate"}, who : Clients] \cup {NoCommand}

(* since is history: the clients of its address that have voted after it *)
Votes == [vote : {-1, 0, 1}, pos : 0 .. MaxVotes, since : SUBSET Clients]
NoVote == [vote |-> 0, pos |-> 0, since |-> {}]

(* What StartVote and the first tick after it set anew before it is read   *)
(* (everything but the type and the victim, and the votes of the members)  *)
(* is cleared here when a ballot closes.  held is history: a count has      *)
(* found the votes, and waited because somebody moderated.                 *)
Ballot == [open : BOOLEAN, type : Types, victim : Clients \cup {Nobody},
           command : Commands, enforce : Decisions,
           willPass : BOOLEAN, update : BOOLEAN, expired : BOOLEAN, held : BOOLEAN]
NewBallot == [open |-> FALSE, type |-> "unknown", victim |-> Nobody,
              command |-> NoCommand, enforce |-> "unknown",
              willPass |-> FALSE, update |-> FALSE, expired |-> FALSE, held |-> FALSE]

TypeOK ==
    /\ room \in [Clients -> Rooms \cup {Out}]
    /\ spec \subseteq Clients /\ moderators \subseteq Clients
    /\ cast \in [Clients -> Votes] /\ votePos \in 0 .. MaxVotes
    /\ ballot \in [Ballots -> Ballot]
    /\ config \in Configs

Init ==
    /\ config \in Configs
    /\ room = [c \in Clients |-> Out]
    /\ spec = {} /\ moderators = {}
    /\ cast = [c \in Clients |-> NoVote] /\ votePos = 0
    /\ ballot = [b \in Ballots |-> NewBallot]

InGame(c) == room[c] # Out
Members(b) == {c \in Clients : InGame(c) /\ (b = Server \/ room[c] = b)}

-----------------------------------------------------------------------------
(* Ballots open and close.                                                 *)

(* Mutant: EndVote leaves client id 0 as the victim. *)
EndedOnClientZero(v) == [NewBallot EXCEPT !.type = v.type, !.victim = 0]

(* EndVote *)
Ended(v) == [NewBallot EXCEPT !.type = v.type]

(* The votes of the clients in S are reset *)
Without(S) ==
    [c \in Clients |-> IF c \in S THEN NoVote ELSE [cast[c] EXCEPT !.since = @ \ S]]

(* c votes at the position n *)
WithVote(C, c, choice, n) ==
    [d \in Clients |-> IF d = c THEN [vote |-> choice, pos |-> n, since |-> {}]
                       ELSE IF C[d].vote = 0 \/ config.addr[d] # config.addr[c] THEN C[d]
                       ELSE [C[d] EXCEPT !.since = @ \cup {c}]]

(* m_VoteUpdate: count again at the next tick *)
Touched(v) == [v EXCEPT !.update = v.open]

(* StartVote *)
Started(v, cmd) ==
    [v EXCEPT !.open = TRUE, !.command = cmd, !.enforce = "unknown",
              !.update = TRUE, !.expired = FALSE, !.held = FALSE]

(* CallVote: the votes of the members are reset, the caller votes yes at 1 *)
VotesReset(b, c) == WithVote(Without(Members(b)), c, 1, 1)

(* A vote of a room: the type and the victim are set whether or not a      *)
(* ballot is open, and CallVote returns if one is.                         *)
CallRoomVote(c, type, victim, cmd) ==
    LET r == room[c]
        named == [ballot[r] EXCEPT !.type = type,
                                   !.victim = IF victim # Nobody THEN victim ELSE @]
    IN  /\ r \in Rooms \cap config.calling
        /\ ~ballot[Server].open
        /\ UNCHANGED <<room, spec, moderators, votePos, config>>
        /\ IF named.open
           THEN ballot' = [ballot EXCEPT ![r] = named] /\ UNCHANGED cast
           ELSE /\ ballot' = [ballot EXCEPT ![r] = Started(named, cmd)]
                /\ cast' = VotesReset(r, c)

(* Only players with characters in the same room can be kicked *)
CallKick(c, v) ==
    /\ v # c /\ room[v] = room[c] /\ {c, v} \cap spec = {}
    /\ CallRoomVote(c, "kick", v, [do |-> "kick", who |-> v])

CallSpectate(c, v) ==
    /\ v # c /\ room[v] = room[c] /\ v \notin spec
    /\ CallRoomVote(c, "spectate", v, [do |-> "spectate", who |-> v])

CallOption(c) == CallRoomVote(c, "option", Nobody, NoCommand)

(* /setting calls CallVote of the controller and leaves the type as it is *)
CallSetting(c) ==
    /\ room[c] \notin {Out, Lobby}
    /\ CallRoomVote(c, ballot[room[c]].type, Nobody, NoCommand)

(* Mutant: a vote of the server leaves the votes of the rooms open. *)
CallServerVoteOnly(c) ==
    /\ InGame(c) /\ ~ballot[Server].open /\ Server \in config.calling
    /\ ballot' = [ballot EXCEPT ![Server] = Started([@ EXCEPT !.type = "option"], NoCommand)]
    /\ cast' = VotesReset(Server, c) /\ votePos' = 1
    /\ UNCHANGED <<room, spec, moderators, config>>

(* A vote of the server cancels the votes of all rooms *)
CallServerVote(c) ==
    /\ InGame(c) /\ ~ballot[Server].open /\ Server \in config.calling
    /\ ballot' = [b \in Ballots |->
                    IF b = Server
                    THEN Started([ballot[b] EXCEPT !.type = "option"], NoCommand)
                    ELSE IF ballot[b].open THEN Ended(ballot[b]) ELSE ballot[b]]
    /\ cast' = VotesReset(Server, c) /\ votePos' = 1
    /\ UNCHANGED <<room, spec, moderators, config>>

-----------------------------------------------------------------------------
(* Members come and go.                                                    *)

(* Mutant: only who disconnects ends the vote against it. *)
LeftUnlessMoving(B, c, disconnects) ==
    LET r == room[c]
        v == B[r]
    IN  [B EXCEPT ![r] = IF r # Lobby /\ Members(r) = {c} THEN NewBallot
                         ELSE IF v.victim = c /\ disconnects THEN Ended(v)
                         ELSE Touched(v)]

(* OnInternalPlayerLeave in the ballots B when c leaves its room, and the   *)
(* room of a last member with it                                           *)
Left(B, c, disconnects) ==
    LET r == room[c]
        v == B[r]
        aborted == v.victim = c /\ (r # Lobby \/ disconnects)
    IN  [B EXCEPT ![r] = IF r # Lobby /\ Members(r) = {c} THEN NewBallot
                         ELSE IF aborted THEN Ended(v)
                         ELSE Touched(v)]

(* The ballots after c has gone to another room, and after it has gone *)
AfterMove(B, c, r) == LET L == Left(B, c, FALSE) IN [L EXCEPT ![r] = Touched(@)]
AfterDrop(B, c) == LET L == Left(B, c, TRUE) IN [L EXCEPT ![Server] = Touched(@)]

Enter(c) ==
    /\ ~InGame(c)
    /\ room' = [room EXCEPT ![c] = Lobby]
    /\ ballot' = [ballot EXCEPT ![Lobby] = Touched(@), ![Server] = Touched(@)]
    /\ UNCHANGED <<spec, moderators, cast, votePos, config>>

(* OnInternalPlayerJoin: a player that has not voted *)
GoTo(c, r) ==
    /\ room' = [room EXCEPT ![c] = r]
    /\ spec' = spec \ {c}
    /\ cast' = Without({c})
    /\ UNCHANGED <<moderators, votePos, config>>

Move(c, r) ==
    /\ InGame(c) /\ r # room[c]
    /\ GoTo(c, r)
    /\ ballot' = AfterMove(ballot, c, r)

Drop(c) ==
    /\ room' = [room EXCEPT ![c] = Out]
    /\ spec' = spec \ {c}
    /\ moderators' = moderators \ {c}
    /\ cast' = Without({c})
    /\ UNCHANGED <<votePos, config>>

Disconnect(c) ==
    /\ InGame(c)
    /\ Drop(c)
    /\ ballot' = AfterDrop(ballot, c)

Toggled(S, c) == IF c \in S THEN S \ {c} ELSE S \cup {c}

(* DoTeamChange between the players and the spectators of a room *)
ChangeTeam(c) ==
    /\ InGame(c)
    /\ spec' = Toggled(spec, c)
    /\ ballot' = [ballot EXCEPT ![room[c]] = Touched(@), ![Server] = Touched(@)]
    /\ UNCHANGED <<room, moderators, cast, votePos, config>>

(* Moderating, until the command is given again or the player is away *)
Moderate(c) ==
    /\ InGame(c) /\ c \in config.moderating
    /\ moderators' = Toggled(moderators, c)
    /\ UNCHANGED <<room, spec, cast, votePos, ballot, config>>

-----------------------------------------------------------------------------
(* Voting and counting.                                                    *)

(* NETMSGTYPE_CL_VOTE.  What is cast while no ballot is open to the client  *)
(* is reset before any ballot counts it, and only takes a position.        *)
Vote(c, choice) ==
    /\ InGame(c) /\ votePos < MaxVotes
    /\ votePos' = votePos + 1
    /\ IF ballot[room[c]].open \/ ballot[Server].open
       THEN /\ cast' = WithVote(cast, c, choice, votePos')
            /\ ballot' = [ballot EXCEPT ![room[c]] = Touched(@), ![Server] = Touched(@)]
       ELSE UNCHANGED <<cast, ballot>>
    /\ UNCHANGED <<room, spec, moderators, config>>

(* ForceVote, in the room of the client and of the server *)
Forced(v, yes) ==
    IF v.open THEN [v EXCEPT !.enforce = IF yes THEN "yes_admin" ELSE "no_admin"] ELSE v
ForceVote(c, yes) ==
    /\ InGame(c) /\ c \in config.forcing
    /\ ballot' = [ballot EXCEPT ![room[c]] = Forced(@, yes), ![Server] = Forced(@, yes)]
    /\ UNCHANGED <<room, spec, moderators, cast, votePos, config>>

(* m_VoteCloseTime has passed *)
TimeUp(b) ==
    /\ ballot[b].open /\ ~ballot[b].expired
    /\ ballot' = [ballot EXCEPT ![b].expired = TRUE]
    /\ UNCHANGED <<room, spec, moderators, cast, votePos, config>>

OfPlayer(v) == v.type \in {"kick", "spectate"}

MayVote(b, c) == b = Server \/ c \notin spec

SameAddr(b, c) == {d \in Members(b) : config.addr[d] = config.addr[c]}

(* Who stands for an address: its first client that may vote *)
Voters(b) ==
    {c \in Members(b) : /\ MayVote(b, c)
                        /\ \A d \in SameAddr(b, c) : d < c => ~MayVote(b, d)}

(* The clients of an address that are heard: c, who stands for it, and those *)
(* after c                                                                 *)
Heard(b, c) == {d \in SameAddr(b, c) : c <= d}

(* Mutant: "only use the vote of the one who voted first" (2014). *)
ChoiceOfFirst(b, c) ==
    LET d == CHOOSE d \in Heard(b, c) : \A e \in Heard(b, c) :
                \/ cast[e].pos > cast[d].pos
                \/ cast[e].pos = cast[d].pos /\ d <= e
    IN  cast[d].vote

(* An address votes what the one of them with the highest position has      *)
(* voted, the first of several                                             *)
Choice(b, c) ==
    LET d == CHOOSE d \in Heard(b, c) : \A e \in Heard(b, c) :
                \/ cast[e].pos < cast[d].pos
                \/ cast[e].pos = cast[d].pos /\ d <= e
    IN  cast[d].vote

Yes(b) == Cardinality({c \in Voters(b) : Choice(b, c) = 1})
No(b) == Cardinality({c \in Voters(b) : Choice(b, c) = -1})
Total(b) == Cardinality(Voters(b))

(* Total / (100.0f / percentage), in single precision, is less than a share *)
(* that is a whole number at these totals and percentages, and exact or    *)
(* beyond doubt at all others up to MAX_CLIENTS.  At 45 percent of 60 the    *)
(* difference is lost again when Total - ... is rounded.                   *)
ShareIsLess == {<<60, 45>>, <<60, 85>>, <<30, 90>>, <<50, 90>>, <<60, 90>>, <<60, 95>>}
RestIsMore == ShareIsLess \ {<<60, 45>>}

(* yes > total / (100.0f / YesPercentage) *)
Enough(yes, total) ==
    \/ yes * 100 > total * YesPercentage
    \/ yes * 100 = total * YesPercentage /\ <<total, YesPercentage>> \in ShareIsLess

(* no >= total - total / (100.0f / YesPercentage) *)
TooMany(no, total) ==
    \/ no * 100 > total * (100 - YesPercentage)
    \/ no * 100 = total * (100 - YesPercentage) /\ <<total, YesPercentage>> \notin RestIsMore

Counted(b) ==
    IF ~ballot[b].update THEN ballot[b]
    ELSE LET yes == Yes(b)
             no == No(b)
             total == Total(b)
         IN  [ballot[b] EXCEPT
                !.enforce = IF Enough(yes, total) THEN "yes"
                            ELSE IF TooMany(no, total) THEN "no"
                            ELSE @,
                !.willPass = ~config.majority /\ Enough(yes, yes + no)]

(* The clock decides by the last count unless sv_vote_majority is set *)
Clocked(v) ==
    IF v.expired /\ ~config.majority
    THEN [v EXCEPT !.enforce = IF v.willPass THEN "yes" ELSE "no"]
    ELSE v

Result(b) == Clocked(Counted(b))

(* Mutant: a moderated vote waits for an administrator, not for its time. *)
PassesUnmoderated(v) ==
    \/ v.enforce = "yes_admin"
    \/ v.enforce = "yes" /\ ~(moderators # {} /\ OfPlayer(v))

(* A moderated vote about a player keeps its time *)
Passes(v) ==
    \/ v.enforce = "yes_admin"
    \/ v.enforce = "yes" /\ ~(moderators # {} /\ OfPlayer(v) /\ ~v.expired)
Fails(v) ==
    /\ ~Passes(v)
    /\ v.enforce \in {"no", "no_admin"} \/ (v.expired /\ config.majority)

(* History, not code: more than the share of the addresses that may vote    *)
(* have voted yes.  What an address has voted last counts; where two of its *)
(* clients have the same position either vote may.                          *)
LastIs(b, c, choice) ==
    \E d \in Heard(b, c) : cast[d].vote = choice /\ cast[d].since \cap Heard(b, c) = {}
Tied(b, c) ==
    \E d, e \in Heard(b, c) : d # e /\ cast[d].pos = 1 /\ cast[e].pos = 1
HasVotes(b) ==
    LET yes == {config.addr[c] : c \in {d \in Voters(b) : LastIs(b, d, 1) \/ Tied(b, d)}}
        all == {config.addr[c] : c \in {d \in Members(b) : MayVote(b, d)}}
    IN  Enough(Cardinality(yes), Cardinality(all))

(* The command of a ballot that passed is run, then EndVote *)
EndIn(B, b) == [B EXCEPT ![b] = Ended(@)]
Passing(b, do) == ballot[b].open /\ ballot[b].command.do = do /\ Passes(Result(b))
Target(b) == ballot[b].command.who

TickSet(b) ==
    /\ Passing(b, "set")
    /\ ballot' = EndIn(ballot, b)
    /\ cast' = Without(Members(b))
    /\ UNCHANGED <<room, spec, moderators, votePos, config>>

(* vote_kick in room 0 drops the client that now has the id *)
TickKick ==
    LET c == Target(Lobby) IN
    /\ Passing(Lobby, "kick")
    /\ IF InGame(c)
       THEN /\ Drop(c)
            /\ ballot' = EndIn(AfterDrop(ballot, c), Lobby)
       ELSE /\ ballot' = EndIn(ballot, Lobby)
            /\ UNCHANGED <<room, spec, moderators, cast, votePos, config>>

(* vote_kick in another room sends the client to room 0, from where it is *)
TickRoomKick(b) ==
    LET c == Target(b) IN
    /\ b # Lobby /\ Passing(b, "kick")
    /\ IF InGame(c) /\ room[c] # Lobby
       THEN /\ GoTo(c, Lobby)
            /\ ballot' = EndIn(AfterMove(ballot, c, Lobby), b)
       ELSE /\ ballot' = EndIn(ballot, b)
            /\ UNCHANGED <<room, spec, moderators, cast, votePos, config>>

(* set_team *)
TickSpectate(b) ==
    LET c == Target(b) IN
    /\ Passing(b, "spectate")
    /\ IF InGame(c) /\ c \notin spec
       THEN /\ spec' = spec \cup {c}
            /\ ballot' = EndIn([ballot EXCEPT ![room[c]] = Touched(@)], b)
       ELSE ballot' = EndIn(ballot, b) /\ UNCHANGED spec
    /\ UNCHANGED <<room, moderators, cast, votePos, config>>

TickFails(b) ==
    /\ ballot[b].open /\ Fails(Result(b))
    /\ ballot' = EndIn(ballot, b)
    /\ cast' = Without(Members(b))
    /\ UNCHANGED <<room, spec, moderators, votePos, config>>

TickWaits(b) ==
    LET v == Result(b) IN
    /\ ballot[b].open /\ ~Passes(v) /\ ~Fails(v)
    /\ ballot' = [ballot EXCEPT ![b] =
                    [v EXCEPT !.update = FALSE,
                              !.held = @ \/ (v.update /\ moderators # {} /\ HasVotes(b))]]
    /\ UNCHANGED <<room, spec, moderators, cast, votePos, config>>

Tick(b) ==
    \/ TickSet(b)
    \/ b = Lobby /\ TickKick
    \/ TickRoomKick(b)
    \/ TickSpectate(b)
    \/ TickFails(b)
    \/ TickWaits(b)

Next ==
    \/ \E c, v \in Clients : CallKick(c, v) \/ CallSpectate(c, v)
    \/ \E c \in Clients :
        \/ CallOption(c)
        \/ CallSetting(c)
        \/ CallServerVote(c)
        \/ Enter(c)
        \/ Disconnect(c)
        \/ ChangeTeam(c)
        \/ Moderate(c)
        \/ \E r \in Rooms : Move(c, r)
        \/ \E choice \in {-1, 1} : Vote(c, choice)
        \/ \E yes \in BOOLEAN : ForceVote(c, yes)
    \/ \E b \in Ballots : Tick(b) \/ TimeUp(b)

Spec == Init /\ [][Next]_vars
-----------------------------------------------------------------------------
(* Properties                                                              *)

(* A vote of the server and votes of rooms are never open together: the     *)
(* client is shown one vote, and a member has one vote to give.             *)
OneBallotToAClient == ballot[Server].open => \A r \in Rooms : ~ballot[r].open

(* The player whose leaving ends the vote of a room is in that room.  (Not  *)
(* so in room 0: who goes from there to another room and leaves the server  *)
(* from it ends no vote of room 0.)                                        *)
VictimIsThere ==
    \A r \in Rooms \ {Lobby} : LET c == ballot[r].victim IN
        c # Nobody => ballot[r].open /\ room[c] = r

(* Of the votes that the clients of an address have cast the latest counts   *)
(* ("count the latest vote by this ip", gamecontroller.cpp:2021), unless the *)
(* caller and the first voter after a change of the map have one position.  *)
LatestVoteCounts ==
    \A b \in Ballots : ballot[b].open => \A c \in Voters(b) :
        LET choice == Choice(b, c) IN
        IF choice = 0 THEN \A d \in Heard(b, c) : cast[d].vote = 0
        ELSE LastIs(b, c, choice) \/ Tied(b, c)

(* A vote that no administrator decides passes only by more than the share  *)
(* of the addresses of the players present, which have voted yes last: in   *)
(* the tick that passes it or, while somebody moderated, in an earlier one.  *)
(* (Without sv_vote_majority the last count decides at the end; it may be   *)
(* older than the last change of room, which takes back a vote of the       *)
(* server without a new count.)                                            *)
PassedByThoseHere ==
    \A b \in Ballots : LET v == ballot[b] IN
        v.open /\ Result(b).enforce = "yes"
            => HasVotes(b) \/ v.held \/ (v.expired /\ ~config.majority)

(* A vote ends in the first tick after its time, whoever came, went, voted, *)
(* moderates or tried to start another vote meanwhile.                      *)
EndsInTime ==
    \A b \in Ballots :
        ballot[b].open /\ ballot[b].expired => Passes(Result(b)) \/ Fails(Result(b))
==============================================================================
