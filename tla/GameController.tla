--------------------------- MODULE GameController ---------------------------
(***************************************************************************)
(* IGameController: the match of one room, in the modes without survival   *)
(* (dm, tdm, ctf, fng), from the creation of the room through warm-up,      *)
(* countdown, game, pause and end of match, while players join, leave,     *)
(* change team and say they are ready, room commands pause, restart and    *)
(* configure it, and the map is reloaded under it.                         *)
(*                                                                         *)
(* The controller and its world are one record: the code's operations call *)
(* each other several levels deep, and each is here an operator from room  *)
(* to room.  Scores are abstracted to "the match is decided", and the      *)
(* order in which scores or rand() make a loop visit the players to an     *)
(* `order' of the players.  The balancer may move everybody: no flag is     *)
(* carried and nobody is frozen (CanBeMovedOnBalance).  Time is in ticks.   *)
(***************************************************************************)
EXTENDS Integers, FiniteSets

CONSTANTS
    Players,            \* the clients that may enter the room
    Teamplay,           \* m_GameFlags has IGF_TEAMS
    TickSpeed,          \* ticks per second
    EndSeconds,         \* TIMER_END
    TeambalanceTime,    \* m_TeambalanceTime, in ticks (0: no balancing)
    PlayerSlots,        \* m_PlayerSlots
    MatchSwap,          \* m_MatchSwap: 0, 1 (swap) or 2 (shuffle)
    ResetOnMatchEnd,    \* m_ResetOnMatchEnd
    Warmups,            \* the values m_Warmup may be given
    Countdowns,         \* the values m_Countdown may be given
    ReadyModes,         \* the values m_PlayerReadyMode may be given
    Minimums,           \* the values m_MinimumPlayers may be given
    Commands,           \* the commands anyone will use in this room
    Seconds,            \* arguments of the commands pause and restart
    Lobby,              \* the room is room 0, where clients are put that still load the map
    MaxMiscount,        \* bound: no client connects while the sizes are further off
    Reloads,            \* whether the room's map is ever reloaded
    Orders              \* orders of the players: score or rand() decides

TIMER_INFINITE == -1
TBALANCE_CHECK == -2
TBALANCE_OK    == -1

Sides == IF Teamplay THEN {"red", "blue"} ELSE {"red"}
Teams == Sides \cup {"spectators"}

GameState == {"warmup_game", "warmup_user", "start_countdown", "game_paused",
              "game_running", "end_match"}

ASSUME SettingAssumption ==
    /\ {Teamplay, Reloads, Lobby, ResetOnMatchEnd} \subseteq BOOLEAN
    /\ MaxMiscount \in Nat
    /\ Commands \subseteq {"set_team", "pause", "restart", "swap_teams", "shuffle_teams",
                           "set_team_all", "warmup", "player_ready_mode",
                           "minimum_players", "countdown"}
    /\ {TickSpeed, EndSeconds} \subseteq Nat \ {0}
    /\ {TeambalanceTime, PlayerSlots} \subseteq Nat /\ MatchSwap \in 0 .. 2
    /\ Warmups \subseteq Nat /\ Minimums \subseteq Nat
    /\ Countdowns \subseteq Int /\ ReadyModes \subseteq 0 .. 3
    /\ Seconds \subseteq {s \in Int : s >= -1}

ASSUME PlayerAssumption ==
    /\ IsFiniteSet(Players)
    /\ \A order \in Orders :
          order \in [Players -> Nat] /\ \A p, q \in Players :
             order[p] = order[q] => p = q

VARIABLE room

Room == [state : GameState, timer : Int, started : BOOLEAN, paused : BOOLEAN,
         reset : BOOLEAN, request : BOOLEAN, unbalanced : Int,
         size : [Sides -> Int], team : [Players -> Teams \cup {"out"}],
         connecting : SUBSET Players,
         ready : [Players -> BOOLEAN], warmup : Warmups, countdown : Countdowns,
         readyMode : ReadyModes, minimumPlayers : Minimums]

-----------------------------------------------------------------------------
(* Questions the code asks of the room. *)

\* A client that still loads the map is in the room as well, but not counted.
InRoom(g)  == {p \in Players : g.team[p] # "out"}
Playing(g) == {p \in Players : g.team[p] \in Sides}
OfTeam(g, t) == {p \in Players : g.team[p] = t}

Entered(g, t) == {p \in Players \ g.connecting : g.team[p] = t}

RealPlayerNum(g) == IF Teamplay THEN g.size["red"] + g.size["blue"] ELSE g.size["red"]

HasEnoughPlayers(g) ==
    /\ g.minimumPlayers > 0
    /\ \A t \in Sides : g.size[t] > 0
    /\ RealPlayerNum(g) >= g.minimumPlayers

HasNoPlayers(g) == \A t \in Sides : g.size[t] = 0

\* m_Started is false from InitController to StartController.
IsWarmup(g) == ~g.started \/ g.state \in {"warmup_game", "warmup_user"}

ReadyStartsMatch(g) == g.readyMode % 2 = 1        \* m_PlayerReadyMode & 1
ReadyPausesMatch(g) == g.readyMode \div 2 = 1     \* m_PlayerReadyMode & 2

IsPlayerReadyMode(g) ==
    /\ g.timer = TIMER_INFINITE
    /\ \/ ReadyStartsMatch(g) /\ g.state = "warmup_user"
       \/ ReadyPausesMatch(g) /\ g.state = "game_paused"

AllReady(g, without) == \A p \in Playing(g) \ without : g.ready[p]

AreTeamsUnbalanced(g) ==
    Teamplay /\ (g.size["red"] - g.size["blue"] \notin -1 .. 1)

First(S, order) == CHOOSE p \in S : \A q \in S : order[p] <= order[q]

\* A loop: what n times `step' makes of x
Times(n, step, x) ==
    LET after[i \in 0 .. n] == IF i = 0 THEN x ELSE step[after[i - 1]] IN after[n]

-----------------------------------------------------------------------------
(* SetGameState, a state at a time.  None of these calls TryStartWarmup. *)

SetPlayersReadyState(g, ready) ==
    [g EXCEPT !.ready = [p \in Players |-> IF p \in Playing(g) THEN ready ELSE @[p]]]

\* Mutant: the world stays paused.
GameRunningStillPaused(g) ==
    SetPlayersReadyState([g EXCEPT !.state = "game_running", !.timer = TIMER_INFINITE,
                                   !.request = FALSE], TRUE)

GameRunning(g) ==
    SetPlayersReadyState([g EXCEPT !.state = "game_running", !.timer = TIMER_INFINITE,
                                   !.paused = FALSE, !.request = FALSE], TRUE)

\* Only ever asked for with TIMER_INFINITE.
WarmupGame(g) ==
    IF g.state \in {"game_running", "warmup_game", "warmup_user"}
    THEN [g EXCEPT !.state = "warmup_game", !.timer = TIMER_INFINITE]
    ELSE g

\* IGS_WARMUP_USER with a timer that is not 0.
BeginWarmupUser(g, seconds) ==
    LET h == [g EXCEPT !.state = "warmup_user", !.paused = FALSE, !.request = FALSE]
    IN  IF seconds > 0
        THEN SetPlayersReadyState([h EXCEPT !.timer = seconds * TickSpeed], TRUE)
        ELSE IF ReadyStartsMatch(g)
        THEN SetPlayersReadyState([h EXCEPT !.timer = TIMER_INFINITE], FALSE)
        ELSE [h EXCEPT !.timer = TIMER_INFINITE]

StartCountdown(g) ==
    IF g.state \notin {"game_running", "game_paused", "start_countdown"} THEN g
    ELSE IF g.countdown > 0
    THEN [g EXCEPT !.state = "start_countdown", !.timer = g.countdown * TickSpeed,
                   !.paused = TRUE]
    ELSE GameRunning(g)

GamePaused(g, seconds) ==
    LET h == [g EXCEPT !.state = "game_paused", !.paused = TRUE]
    IN  IF g.state \notin {"game_running", "game_paused", "warmup_game"} THEN g
        ELSE IF seconds = 0 THEN StartCountdown(g)
        ELSE IF seconds < 0
        THEN SetPlayersReadyState([h EXCEPT !.timer = TIMER_INFINITE], FALSE)
        ELSE [h EXCEPT !.timer = seconds * TickSpeed]

EndMatch(g) ==
    IF g.state \in {"game_running", "end_match", "game_paused"}
    THEN [g EXCEPT !.state = "end_match", !.timer = EndSeconds * TickSpeed,
                   !.paused = TRUE, !.request = FALSE]
    ELSE [g EXCEPT !.request = FALSE]

-----------------------------------------------------------------------------
(* Starting and resetting the match. *)

\* Mutant: the team that is left still counts the player.
MoveToKeepingCount(g, p, t) ==
    LET h == [g EXCEPT !.team[p] = t, !.unbalanced = TBALANCE_CHECK]
    IN  IF t \in Sides THEN [h EXCEPT !.size[t] = @ + 1, !.ready[p] = ~IsPlayerReadyMode(g)]
        ELSE h

\* What DoTeamChange does before it looks at the match.
MoveTo(g, p, t) ==
    LET old == g.team[p]
        s   == [u \in Sides |-> g.size[u] - (IF u = old THEN 1 ELSE 0)
                                          + (IF u = t THEN 1 ELSE 0)]
        h   == [g EXCEPT !.team[p] = t, !.size = s, !.unbalanced = TBALANCE_CHECK]
    IN  IF t \in Sides THEN [h EXCEPT !.ready[p] = ~IsPlayerReadyMode(g)] ELSE h

Other(t) == IF t = "red" THEN "blue" ELSE "red"

Bigger(g) == IF g.size["red"] > g.size["blue"] THEN "red" ELSE "blue"

\* m_TeambalanceTime is 0: the teams are left as they are.
NeedsBalance(g) == TeambalanceTime > 0 /\ AreTeamsUnbalanced(g)

\* The passes of DoTeamBalance's loop.
Passes(g) == (g.size[Bigger(g)] - g.size[Other(Bigger(g))]) \div 2

Balanced(g) == [g EXCEPT !.unbalanced = TBALANCE_OK]

\* The game is running when ResetGame balances the teams, and has players (by the
\* sizes, which in a lobby this supposes to be exact): what else DoTeamChange
\* calls then leaves the room as it is.
ResetGame(g, order) ==
    LET h == [GameRunning(g) EXCEPT !.reset = TRUE]
        t == Bigger(h)
        pass == [r \in Room |-> IF OfTeam(r, t) = {} THEN r
                                ELSE MoveTo(r, First(OfTeam(r, t), order), Other(t))]
    IN  IF NeedsBalance(h) THEN Balanced(Times(Passes(h), pass, h)) ELSE h

\* Mutant: a warm-up ends without a look at who is there.
StartMatchAnyway(g, order) ==
    StartCountdown(ResetGame(g, order))

StartMatch(g, order) ==
    LET h == ResetGame(g, order)
    IN  IF IsWarmup(g) /\ ~HasEnoughPlayers(g) THEN WarmupGame(g)
        ELSE IF HasEnoughPlayers(h) THEN StartCountdown(h)
        ELSE BeginWarmupUser(h, TIMER_INFINITE)

WarmupUser(g, seconds, order) ==
    IF g.state \in {"start_countdown", "end_match"} THEN g
    ELSE IF seconds # 0 THEN BeginWarmupUser(g, seconds)
    ELSE StartMatch(g, order)

\* The second half of TryStartWarmup.
AwaitPlayers(g, fallback, order) ==
    IF g.state \notin {"warmup_game", "warmup_user"} \/ g.timer # TIMER_INFINITE THEN g
    ELSE IF HasEnoughPlayers(g)
    THEN IF ~ReadyStartsMatch(g) THEN WarmupUser(g, g.warmup, order)
         ELSE IF g.state # "warmup_user" THEN WarmupUser(g, TIMER_INFINITE, order)
         ELSE g
    ELSE IF fallback THEN WarmupGame(SetPlayersReadyState(g, TRUE))
    ELSE g

\* Its call of TryStartWarmup finds the game-based warm-up.
ResetMatch(g, order) == AwaitPlayers(WarmupGame(ResetGame(g, order)), FALSE, order)

\* Mutant: an abandoned match goes on.
TryStartWarmupOnly(g, fallback, order) == AwaitPlayers(g, fallback, order)

TryStartWarmup(g, fallback, order) ==
    IF g.state # "warmup_game" /\ HasNoPlayers(g) THEN ResetMatch(g, order)
    ELSE AwaitPlayers(g, fallback, order)

CheckReadyStates(g, without, order) ==
    IF g.readyMode = 0 \/ ~AllReady(g, without) THEN g
    ELSE IF g.state = "warmup_user" /\ g.timer = TIMER_INFINITE
    THEN WarmupUser(g, g.warmup, order)
    ELSE IF g.state = "game_paused" THEN GamePaused(g, 0)
    ELSE g

DoTeamChange(g, p, t, order) ==
    IF t = g.team[p] THEN g
    ELSE TryStartWarmup(CheckReadyStates(MoveTo(g, p, t), {}, order), TRUE, order)

\* The bigger team and the number of passes are computed once.
DoTeamBalance(g, order) ==
    LET t == Bigger(g)
        pass == [r \in Room |->
                   IF OfTeam(r, t) = {} THEN r
                   ELSE DoTeamChange(r, First(OfTeam(r, t), order), Other(t), order)]
    IN  IF NeedsBalance(g) THEN Balanced(Times(Passes(g), pass, g)) ELSE g

\* The players that `to' has a team for go there, one after the other in the order.
ChangeTeams(g, to, order) ==
    LET ps == DOMAIN to
        change == [r \in [room : Room, todo : SUBSET ps] |->
                     IF r.todo = {} THEN r
                     ELSE LET p == First(r.todo, order)
                          IN  [room |-> DoTeamChange(r.room, p, to[p], order),
                               todo |-> r.todo \ {p}]]
    IN  Times(Cardinality(ps), change, [room |-> g, todo |-> ps]).room

\* The room visits its clients by number, here in the given order.
SwapTeams(g, order) ==
    IF ~Teamplay THEN g
    ELSE ChangeTeams(g, [p \in Playing(g) |-> Other(g.team[p])], order)

\* The order is the random permutation, and coin says who has one player more.
ShuffleTeams(g, order, coin) ==
    LET n   == Cardinality(Playing(g))
        red == (n + (IF n % 2 = 1 /\ coin THEN 1 ELSE 0)) \div 2
        before(p) == {q \in Playing(g) : order[q] < order[p]}
    IN  IF ~Teamplay THEN g
        ELSE ChangeTeams(g, [p \in Playing(g) |->
                               IF Cardinality(before(p)) < red THEN "red" ELSE "blue"], order)

-----------------------------------------------------------------------------
(* Players. *)

GetStartTeam(g) ==
    IF RealPlayerNum(g) >= PlayerSlots THEN "spectators"
    ELSE IF Teamplay /\ g.size["red"] > g.size["blue"] THEN "blue"
    ELSE "red"

\* OnClientConnected: the constructor of CPlayer chooses the team.
Connect(p, t) ==
    /\ Lobby /\ room.team[p] = "out" /\ t \in {"red", "spectators"}
    /\ \A u \in Sides :
          room.size[u] - Cardinality(Entered(room, u)) \in -MaxMiscount .. MaxMiscount
    /\ room' = [room EXCEPT !.team[p] = t, !.ready[p] = FALSE,
                            !.connecting = @ \cup {p}]

\* Mutant: the client is counted out although it never was counted in.
DropConnectingCounting(p, order) ==
    LET t == room.team[p]
        g == IF t \in Sides THEN [room EXCEPT !.size[t] = @ - 1] ELSE room
    IN  /\ p \in room.connecting
        /\ room' = [TryStartWarmup(CheckReadyStates(g, {p}, order), TRUE, order)
                      EXCEPT !.team[p] = "out", !.ready[p] = FALSE,
                             !.connecting = @ \ {p}]

\* OnClientDrop of a client that has not entered the game: the room is not told.
DropConnecting(p, order) ==
    /\ p \in room.connecting
    /\ room' = [room EXCEPT !.team[p] = "out", !.ready[p] = FALSE,
                            !.connecting = @ \ {p}]

\* OnInternalPlayerJoin
Join(p, order) ==
    LET t == GetStartTeam(room)
        g == [room EXCEPT !.team[p] = t, !.ready[p] = ~IsPlayerReadyMode(room),
                          !.connecting = @ \ {p}]
        h == IF t \in Sides
             THEN [g EXCEPT !.size[t] = @ + 1, !.unbalanced = TBALANCE_CHECK] ELSE g
    IN  /\ p \in room.connecting \/ room.team[p] = "out"
        /\ room' = TryStartWarmup(h, FALSE, order)

\* Mutant: nobody looks whether those who stay are all ready.
LeaveUnchecked(p, order) ==
    LET t == room.team[p]
        g == IF t \in Sides
             THEN [room EXCEPT !.size[t] = @ - 1, !.unbalanced = TBALANCE_CHECK]
             ELSE room
    IN  /\ t # "out" /\ p \notin room.connecting
        /\ room' = [TryStartWarmup(g, TRUE, order)
                      EXCEPT !.team[p] = "out", !.ready[p] = FALSE]

\* OnInternalPlayerLeave: the player is no longer counted but still in the
\* room, and leaves it when the handler is through (CGameTeams).
Leave(p, order) ==
    LET t == room.team[p]
        g == IF t \in Sides
             THEN [room EXCEPT !.size[t] = @ - 1, !.unbalanced = TBALANCE_CHECK]
             ELSE room
        h == TryStartWarmup(CheckReadyStates(g, {p}, order), TRUE, order)
    IN  /\ t # "out" /\ p \notin room.connecting
        /\ room' = [h EXCEPT !.team[p] = "out", !.ready[p] = FALSE]

CanJoinTeam(g, p, t) ==
    t = "spectators" \/ RealPlayerNum(g) - (IF p \in Playing(g) THEN 1 ELSE 0) < PlayerSlots

CanChangeTeam(g, p, t) ==
    Teamplay /\ t # "spectators" /\ TeambalanceTime > 0 =>
        g.size[t] + 1 - (g.size[Other(t)] - (IF p \in Playing(g) THEN 1 ELSE 0)) < 2

\* The player asks for a team (NETMSGTYPE_CL_SETTEAM).
ChangeTeam(p, t, order) ==
    /\ room.started /\ ~room.paused /\ p \notin room.connecting
    /\ room.team[p] \notin {"out", t}
    /\ CanJoinTeam(room, p, t) /\ CanChangeTeam(room, p, t)
    /\ room' = DoTeamChange(room, p, t, order)

\* rcon's set_team, or a player moved to the spectators for inactivity.
ForceTeam(p, t, order) ==
    /\ "set_team" \in Commands /\ room.started /\ room.team[p] \notin {"out", t}
    /\ room' = DoTeamChange(room, p, t, order)

\* Mutant: the change is made, and nothing follows from it.
OnPlayerReadyChangeOnly(p, order) ==
    /\ room.started /\ p \in Playing(room) \ room.connecting
    /\ IsPlayerReadyMode(room) \/ (ReadyPausesMatch(room) /\ room.state = "game_running")
    /\ room' = IF room.state = "game_running" /\ room.ready[p]
               THEN [room EXCEPT !.request = TRUE]
               ELSE [room EXCEPT !.ready[p] = ~@]

\* A ready player of a running game asks for a pause; m_PausePerMatch is 0.
OnPlayerReadyChange(p, order) ==
    /\ room.started /\ p \in Playing(room) \ room.connecting
    /\ IsPlayerReadyMode(room) \/ (ReadyPausesMatch(room) /\ room.state = "game_running")
    /\ room' = CheckReadyStates(
                 IF room.state = "game_running" /\ room.ready[p]
                 THEN [room EXCEPT !.request = TRUE]
                 ELSE [room EXCEPT !.ready[p] = ~@], {}, order)

-----------------------------------------------------------------------------
(* Room commands: /setting, rcon and passed votes. *)

ConPause(seconds) ==
    "pause" \in Commands /\ room.started /\ room' = GamePaused(room, seconds)

\* AbortWarmup, or a user warm-up of so many seconds.
ConRestart(seconds, order) ==
    /\ "restart" \in Commands /\ room.started
    /\ room' = IF seconds >= 0 THEN WarmupUser(room, seconds, order)
               ELSE IF /\ room.state \in {"warmup_game", "warmup_user"}
                       /\ room.timer # TIMER_INFINITE
               THEN GameRunning(room) ELSE room

ConSwapTeams(order) ==
    "swap_teams" \in Commands /\ room.started /\ room' = SwapTeams(room, order)

ConShuffleTeams(order, coin) ==
    "shuffle_teams" \in Commands /\ room.started /\ room' = ShuffleTeams(room, order, coin)

ConSetTeamAll(t, order) ==
    /\ "set_team_all" \in Commands /\ room.started
    /\ room' = ChangeTeams(room, [p \in InRoom(room) |-> t], order)

SetWarmup(n) ==
    "warmup" \in Commands /\ room.started /\ room' = [room EXCEPT !.warmup = n]

SetReadyMode(n) ==
    "player_ready_mode" \in Commands /\ room.started /\ room' = [room EXCEPT !.readyMode = n]

\* Mutant: the new minimum is only noted.
SetMinimumPlayersOnly(n, order) ==
    "minimum_players" \in Commands /\ room.started /\ room' = [room EXCEPT !.minimumPlayers = n]

\* ConchainTryStartWarmup
SetMinimumPlayers(n, order) ==
    /\ "minimum_players" \in Commands /\ room.started
    /\ room' = TryStartWarmup([room EXCEPT !.minimumPlayers = n], TRUE, order)

\* ConchainUpdateCountdown
SetCountdown(n) ==
    LET g == [room EXCEPT !.countdown = n]
    IN  /\ "countdown" \in Commands /\ room.started
        /\ room' = IF g.timer > n * TickSpeed THEN StartCountdown(g) ELSE g

-----------------------------------------------------------------------------
(* Time. *)

\* CanPause may make a requested pause wait.
PauseRequest(g, canPause) ==
    IF g.request /\ canPause
    THEN [GamePaused(g, TIMER_INFINITE) EXCEPT !.request = FALSE]
    ELSE g

TimerFires(g, order, coin) ==
    CASE g.state = "warmup_user"     -> WarmupUser(g, 0, order)
      [] g.state = "start_countdown" -> GameRunning(g)
      [] g.state = "game_paused"     -> GamePaused(g, 0)
      [] g.state = "end_match"       ->
           LET h == CASE MatchSwap = 1 -> SwapTeams(g, order)
                      [] MatchSwap = 2 -> ShuffleTeams(g, order, coin)
                      [] OTHER         -> g
           IN  IF ResetOnMatchEnd THEN ResetMatch(h, order) ELSE StartMatch(h, order)
      [] OTHER                       -> g

\* Mutant: the timers stand still.
StateTimerStopped(g, order, coin) == g

\* Mutant: the infinite timer counts down as well.
StateTimerUnguarded(g, order, coin) ==
    LET h == [g EXCEPT !.timer = @ - 1]
    IN  IF g.state = "game_running" THEN g
        ELSE IF h.timer = 0 THEN TimerFires(h, order, coin)
        ELSE h

StateTimer(g, order, coin) ==
    LET h == [g EXCEPT !.timer = IF @ > 0 THEN @ - 1 ELSE @]
    IN  IF g.state = "game_running" THEN g
        ELSE IF h.timer = 0 THEN TimerFires(h, order, coin)
        ELSE IF /\ h.state = "warmup_user" /\ h.timer = TIMER_INFINITE
                /\ ~ReadyStartsMatch(h)
        THEN WarmupUser(h, h.warmup, order)
        ELSE h

\* Mutant: the balancer forgets that teams were found unbalanced.
BalanceTimerForgets(g, order) ==
    IF Teamplay THEN [g EXCEPT !.unbalanced = TBALANCE_OK] ELSE g

\* `unbalanced' holds how many ticks ago the teams were found unbalanced.
BalanceTimer(g, order) ==
    IF ~Teamplay \/ g.unbalanced = TBALANCE_OK THEN g
    ELSE IF g.unbalanced = TBALANCE_CHECK
    THEN [g EXCEPT !.unbalanced = IF TeambalanceTime > 0 /\ AreTeamsUnbalanced(g)
                                  THEN 0 ELSE TBALANCE_OK]
    ELSE IF g.unbalanced >= TeambalanceTime
    THEN DoTeamBalance(g, order)
    ELSE [g EXCEPT !.unbalanced = @ + 1]

\* DoWincheckMatch: scores, the time limit or sudden death decide the match.
WinCheck(g, decided) ==
    IF decided /\ ~g.reset /\ g.state \in {"game_running", "game_paused"}
    THEN EndMatch(g) ELSE g

\* The controller's Tick, and the world's, which serves m_ResetRequested.
Tick(canPause, order, coin, decided) ==
    LET g == StateTimer(PauseRequest(room, canPause), order, coin)
        h == WinCheck(BalanceTimer(g, order), decided)
    IN  room.started /\ room' = [h EXCEPT !.reset = FALSE]

\* CGameTeams gives the controller a new world: the map has changed.
SoftReload ==
    /\ Reloads /\ room.started
    /\ room' = [room EXCEPT !.started = FALSE, !.paused = FALSE, !.reset = FALSE,
                            !.request = FALSE]

\* All entities of the map are there.
StartController(order) ==
    /\ ~room.started
    /\ room' = TryStartWarmup(WarmupGame([room EXCEPT !.started = TRUE]), FALSE, order)

-----------------------------------------------------------------------------
\* The constructor, the room's settings and InitController.
Init ==
    room \in [state : {"game_running"}, timer : {TIMER_INFINITE}, started : {FALSE},
              paused : {FALSE}, reset : {FALSE}, request : {FALSE},
              unbalanced : {TBALANCE_OK}, size : {[t \in Sides |-> 0]},
              team : {[p \in Players |-> "out"]}, connecting : {{}}, ready : {[p \in Players |-> FALSE]},
              warmup : Warmups, countdown : Countdowns, readyMode : ReadyModes,
              minimumPlayers : Minimums]

PlayerStep ==
    \E order \in Orders, p \in Players :
        \/ \E t \in Teams : Connect(p, t)
        \/ DropConnecting(p, order)
        \/ Join(p, order)
        \/ Leave(p, order)
        \/ \E t \in Teams : ChangeTeam(p, t, order)
        \/ OnPlayerReadyChange(p, order)

CommandStep ==
    \E order \in Orders :
        \/ \E p \in Players, t \in Teams : ForceTeam(p, t, order)
        \/ \E s \in Seconds : ConPause(s) \/ ConRestart(s, order)
        \/ ConSwapTeams(order)
        \/ \E coin \in BOOLEAN : ConShuffleTeams(order, coin)
        \/ \E t \in Teams : ConSetTeamAll(t, order)
        \/ \E n \in Warmups : SetWarmup(n)
        \/ \E n \in ReadyModes : SetReadyMode(n)
        \/ \E n \in Minimums : SetMinimumPlayers(n, order)
        \/ \E n \in Countdowns : SetCountdown(n)

ServerStep ==
    \E order \in Orders :
        \/ \E canPause, coin, decided \in BOOLEAN : Tick(canPause, order, coin, decided)
        \/ StartController(order)

Next == PlayerStep \/ CommandStep \/ ServerStep \/ SoftReload

Spec == Init /\ [][Next]_room

-----------------------------------------------------------------------------
(* Properties. *)

\* Every field keeps its type, and neither timer runs below its special values.
TypeOK ==
    /\ room \in Room
    /\ room.timer >= TIMER_INFINITE /\ room.unbalanced \in TBALANCE_CHECK .. TeambalanceTime

\* m_aTeamSize, which decides what starts and who may play, counts the players
\* of each team, however they came, went, or were moved.
TeamSizes ==
    \A t \in Sides : room.size[t] = Cardinality(Entered(room, t))

\* The world is paused in exactly the states that freeze the game, and a wish
\* to pause does not outlive the game it was made in.
WorldPaused ==
    /\ room.started => (room.paused <=>
                           room.state \in {"start_countdown", "game_paused", "end_match"})
    /\ room.request => room.state \in {"game_running", "game_paused", "start_countdown"}

\* A room that waits for players has not enough of them, and no timer runs.
WaitsForPlayers ==
    room.state = "warmup_game" => /\ ~HasEnoughPlayers(room) \/ ~room.started
                                  /\ room.timer = TIMER_INFINITE

\* While a room waits for its players to be ready, there is one who is not.
SomeoneToWaitFor ==
    IsPlayerReadyMode(room) /\ Playing(room) # {} => \E p \in Playing(room) : ~room.ready[p]

\* The balancer is at rest only while the teams are balanced.
BalancerAwake ==
    TeambalanceTime > 0 /\ room.unbalanced = TBALANCE_OK => ~AreTeamsUnbalanced(room)

\* Whatever the match was doing, it is reset when its last player goes.
LastPlayerResets ==
    [][~HasNoPlayers(room) /\ HasNoPlayers(room') => room'.state = "warmup_game"]_room

\* Unless a command aborts it, a warm-up only ends with enough players.
MatchNeedsPlayers ==
    [][/\ room.started /\ room.state \in {"warmup_game", "warmup_user"}
       /\ room'.state \in {"game_running", "start_countdown"}
       => HasEnoughPlayers(room') \/ ConRestart(-1, CHOOSE o \in Orders : TRUE)]_room
=============================================================================
