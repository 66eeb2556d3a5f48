------------------------ MODULE GameController_proofs ------------------------
(***************************************************************************)
(* Proofs about GameController, for any players, teams, settings and        *)
(* orders in which loops visit the players.                                 *)
(***************************************************************************)
EXTENDS GameController, FiniteSetTheorems, WellFoundedInduction, TLAPS

-----------------------------------------------------------------------------
(* Loops and choices.                                                      *)

\* The least element of a set of numbers, from which inductions start.
LEMMA Least == ASSUME NEW S, S \subseteq Nat, S # {} PROVE \E x \in S : \A y \in S : x <= y
<1>2. \E x \in S : \A y \in S : ~ (<<y, x>> \in OpToRel(<, Nat))
  <2>1. IsWellFoundedOn(OpToRel(<, Nat), Nat)  BY NatLessThanWellFounded
  <2>. QED  BY <2>1, WFMin, Zenon
<1>3. \A x \in Nat, y \in Nat : <<y, x>> \in OpToRel(<, Nat) <=> y < x
  BY Zenon DEF OpToRel
<1>4. PICK x \in S : \A y \in S : ~ (<<y, x>> \in OpToRel(<, Nat))  BY <1>2
<1>5. \A y \in S : ~ (y < x)  BY <1>3, <1>4, Zenon
<1>6. \A y \in S : x <= y
  <2> TAKE y \in S
  <2>1. y \in Nat /\ x \in Nat  OBVIOUS
  <2>. QED  BY <1>5, <2>1
<1>. QED  BY <1>6

LEMMA FirstIsIn ==
    ASSUME NEW order \in Orders, NEW S \in SUBSET Players, S # {}
    PROVE  First(S, order) \in S
<1>1. order \in [Players -> Nat]  BY PlayerAssumption
<1> DEFINE V == {order[p] : p \in S}
<1>2. V \subseteq Nat /\ V # {}  BY <1>1
<1>3. PICK v \in V : \A w \in V : v <= w  BY <1>2, Least
<1>4. \E p \in S : \A q \in S : order[p] <= order[q]  BY <1>3
<1>. QED  BY <1>4 DEF First

\* A loop whose passes lead from each set to the next ends in the last one.
LEMMA TimesReaches ==
    ASSUME NEW n \in Nat, NEW S, NEW step, NEW x \in S[0],
           \A i \in 0 .. n - 1 : \A y \in S[i] : step[y] \in S[i + 1]
    PROVE  Times(n, step, x) \in S[n]
<1> DEFINE value(f, i) == IF i = 0 THEN x ELSE step[f[i - 1]]
           starts(h, k) == h = [i \in 0 .. k |-> value(h, i)]
           started(k) == \E h : starts(h, k)
           bad == {k \in 0 .. n : ~ started(k)}
<1>0. ASSUME NEW k PROVE started(k) <=> \E h : starts(h, k)
  OBVIOUS
<1> HIDE DEF started
<1>1. bad = {}
  <2> SUFFICES ASSUME bad # {} PROVE FALSE
    OBVIOUS
  <2>1. PICK k \in bad : \A j \in bad : k <= j
    <3>1. bad \subseteq Nat  OBVIOUS
    <3>. QED  BY <3>1, Least
  <2>2. k \in 0 .. n /\ ~ started(k)  BY <2>1
  <2>3. CASE k = 0
    <3>1. starts([i \in 0 .. 0 |-> x], 0)  OBVIOUS
    <3>. QED  BY <1>0, <2>2, <2>3, <3>1
  <2>4. CASE k # 0
    <3>1. k - 1 \in 0 .. n /\ k - 1 \notin bad  BY <2>1, <2>2, <2>4
    <3>2. PICK h : starts(h, k - 1)
      <4>1. started(k - 1)  BY <3>1
      <4>. QED  BY <1>0, <4>1
    <3> DEFINE g == [i \in 0 .. k |-> IF i = k THEN step[h[k - 1]] ELSE h[i]]
    <3>3. ASSUME NEW i \in 0 .. k PROVE g[i] = value(g, i)
      <4>1. CASE i = k
        <5>1. g[i - 1] = h[k - 1] /\ i # 0  BY <2>2, <2>4, <4>1
        <5>. QED  BY <4>1, <5>1
      <4>2. CASE i # k
        <5>1. i \in 0 .. k - 1 /\ g[i] = h[i]  BY <2>2, <4>2
        <5>2. h[i] = value(h, i)  BY <3>2, <5>1
        <5>3. i # 0 => i - 1 \in 0 .. k /\ i - 1 # k  BY <2>2, <5>1
        <5>4. i # 0 => g[i - 1] = h[i - 1]  BY <5>3
        <5>. QED  BY <5>1, <5>2, <5>4
      <4>. QED  BY <4>1, <4>2
    <3>4. DOMAIN g = 0 .. k /\ g = [i \in 0 .. k |-> g[i]]  OBVIOUS
    <3> HIDE DEF g
    <3>5. starts(g, k)  BY <3>3, <3>4
    <3>. QED  BY <1>0, <2>2, <3>5
  <2>. QED  BY <2>3, <2>4
<1>2. PICK h : starts(h, n)
  <2>1. started(n)  BY <1>1
  <2>. QED  BY <1>0, <2>1
<1> DEFINE f == CHOOSE f : f = [i \in 0 .. n |-> value(f, i)]
<1>3. h = [i \in 0 .. n |-> value(h, i)]  BY <1>2
<1>4. f = [i \in 0 .. n |-> value(f, i)]  BY <1>3
<1>5. Times(n, step, x) = f[n]  BY DEF Times
<1> HIDE DEF f
<1>6. \A i \in 0 .. n : f[i] = value(f, i)  BY <1>4
<1> DEFINE wrong == {i \in 0 .. n : f[i] \notin S[i]}
<1>7. wrong = {}
  <2> SUFFICES ASSUME wrong # {} PROVE FALSE
    OBVIOUS
  <2>1. PICK k \in wrong : \A j \in wrong : k <= j
    <3>1. wrong \subseteq Nat  OBVIOUS
    <3>. QED  BY <3>1, Least
  <2>2. CASE k = 0  BY <1>6, <2>1, <2>2
  <2>3. CASE k # 0
    <3>1. k - 1 \in 0 .. n - 1 /\ k - 1 \notin wrong /\ (k - 1) + 1 = k  BY <2>1, <2>3
    <3>2. f[k] = step[f[k - 1]]  BY <1>6, <2>1, <2>3
    <3>3. f[k - 1] \in S[k - 1]  BY <3>1
    <3>4. step[f[k - 1]] \in S[(k - 1) + 1]  BY <3>1, <3>3
    <3>. QED  BY <2>1, <3>1, <3>2, <3>4
  <2>. QED  BY <2>2, <2>3
<1>. QED  BY <1>5, <1>7

\* What every pass keeps, the loop keeps.
LEMMA TimesKeeps ==
    ASSUME NEW S, NEW step, \A y \in S : step[y] \in S, NEW x \in S, NEW n \in Nat
    PROVE  Times(n, step, x) \in S
<1> DEFINE T == [i \in 0 .. n |-> S]
<1>1. x \in T[0] /\ T[n] = S  OBVIOUS
<1>2. \A i \in 0 .. n - 1 : \A y \in T[i] : step[y] \in T[i + 1]
  <2>1. \A i \in 0 .. n - 1 : T[i] = S /\ T[i + 1] = S  OBVIOUS
  <2> HIDE DEF T
  <2>. QED  BY <2>1
<1> HIDE DEF T
<1>3. Times(n, step, x) \in T[n]  BY <1>1, <1>2, TimesReaches
<1>. QED  BY <1>1, <1>3

-----------------------------------------------------------------------------
(* The invariant.                                                          *)

Typed(g) ==
    /\ g \in Room
    /\ g.timer >= TIMER_INFINITE
    /\ g.unbalanced \in TBALANCE_CHECK .. TeambalanceTime

Frozen == {"start_countdown", "game_paused", "end_match"}

\* A reload unpauses the world and leaves the state of the match as it was.
Paused(g) == g.paused <=> g.state \in Frozen

Steady(g) ==
    /\ Typed(g)
    /\ g.state = "warmup_game" => g.timer = TIMER_INFINITE
    /\ ~g.started => ~g.request
    /\ g.request => g.state \in {"game_running", "game_paused", "start_countdown"}
    /\ ~Reloads => Paused(g)

Waits(g) == g.state = "warmup_game" => ~HasEnoughPlayers(g)

\* Without a lobby, and with a warm-up before every match.
Exact == ~Lobby /\ 0 \notin Warmups

Sized(g) == /\ g.connecting = {}
            /\ \A t \in Sides : g.size[t] = Cardinality(OfTeam(g, t))

\* The balancer rests only over teams that need none.
Awake(g) == TeambalanceTime > 0 /\ g.unbalanced = TBALANCE_OK => ~AreTeamsUnbalanced(g)

Fine(g) == Steady(g) /\ Waits(g) /\ (Exact => Sized(g) /\ Awake(g))

IInv == Fine(room)

\* What no part of the match touches.
Frame(g, h) ==
    /\ h.started = g.started /\ h.connecting = g.connecting
    /\ h.minimumPlayers = g.minimumPlayers /\ h.readyMode = g.readyMode
    /\ h.warmup = g.warmup

\* Nobody changes team.
Placed(g, h) == Frame(g, h) /\ h.team = g.team /\ h.size = g.size

Still(g, h) == Placed(g, h) /\ h.unbalanced = g.unbalanced

LEMMA SameFrame == \A g : Still(g, g) /\ Frame(g, g)  BY DEF Still, Placed, Frame

LEMMA FrameTwice ==
    ASSUME NEW f, NEW g, NEW h, Frame(f, g), Frame(g, h)
    PROVE  Frame(f, h)
  BY DEF Frame

LEMMA StillTwice ==
    ASSUME NEW f, NEW g, NEW h, Still(f, g), Still(g, h)
    PROVE  Still(f, h)
  BY DEF Still, Placed, Frame

LEMMA PlacedSized ==
    ASSUME NEW g, NEW h, Placed(g, h), Sized(g)
    PROVE  Sized(h)
  BY DEF Placed, Frame, Sized, OfTeam

LEMMA PlacedEnough ==
    ASSUME NEW g, NEW h, Placed(g, h)
    PROVE  HasEnoughPlayers(h) = HasEnoughPlayers(g)
  BY DEF Placed, Frame, HasEnoughPlayers, RealPlayerNum

LEMMA StillAwake ==
    ASSUME NEW g, NEW h, h.size = g.size, h.unbalanced = g.unbalanced, Awake(g)
    PROVE  Awake(h)
  BY DEF Awake, AreTeamsUnbalanced

LEMMA StillEnough ==
    ASSUME NEW g, NEW h, Still(g, h)
    PROVE  HasEnoughPlayers(h) = HasEnoughPlayers(g)
  BY PlacedEnough DEF Still

\* Players is bounded, and so is every number of players in a team.
LEMMA TeamsFinite ==
    ASSUME NEW g, NEW t
    PROVE  IsFiniteSet(OfTeam(g, t)) /\ Cardinality(OfTeam(g, t)) \in Nat
<1>1. OfTeam(g, t) \subseteq Players  BY DEF OfTeam
<1>2. IsFiniteSet(OfTeam(g, t))  BY <1>1, PlayerAssumption, FS_Subset
<1>. QED  BY <1>2, FS_CardinalityType

-----------------------------------------------------------------------------
(* States of the match.                                                    *)

LEMMA TimerType == TIMER_INFINITE \in Int /\ TBALANCE_OK \in Int /\ TBALANCE_CHECK \in Int
  BY DEF TIMER_INFINITE, TBALANCE_OK, TBALANCE_CHECK

LEMMA ReadyFacts ==
    ASSUME NEW g \in Room, NEW b \in BOOLEAN
    PROVE  \E f \in [Players -> BOOLEAN] :
              SetPlayersReadyState(g, b) = [g EXCEPT !.ready = f]
<1> DEFINE f == [p \in Players |-> IF p \in Playing(g) THEN b ELSE g.ready[p]]
<1>1. f \in [Players -> BOOLEAN]  BY DEF Room
<1>2. SetPlayersReadyState(g, b) = [g EXCEPT !.ready = f]  BY DEF SetPlayersReadyState
<1>. QED  BY <1>1, <1>2

LEMMA ReadyKeeps ==
    ASSUME NEW g, Typed(g), NEW b \in BOOLEAN
    PROVE  LET h == SetPlayersReadyState(g, b)
           IN  /\ Typed(h) /\ Still(g, h)
               /\ h.state = g.state /\ h.timer = g.timer /\ h.paused = g.paused
               /\ h.request = g.request
<1>1. g \in Room  BY DEF Typed
<1>2. PICK f \in [Players -> BOOLEAN] : SetPlayersReadyState(g, b) = [g EXCEPT !.ready = f]
  BY <1>1, ReadyFacts
<1> DEFINE h == [g EXCEPT !.ready = f]
<1>3. h \in Room  BY <1>1 DEF Room
<1>4. /\ h.state = g.state /\ h.timer = g.timer /\ h.paused = g.paused
      /\ h.request = g.request /\ h.unbalanced = g.unbalanced
  BY <1>1 DEF Room
<1>5. Still(g, h)  BY <1>1 DEF Room, Still, Placed, Frame
<1>6. Typed(h)
  <2> HIDE DEF h
  <2>. QED  BY <1>3, <1>4 DEF Typed
<1>. QED  BY <1>2, <1>4, <1>5, <1>6

LEMMA GameRunningSteady ==
    ASSUME NEW g, Typed(g)
    PROVE  LET h == GameRunning(g)
           IN  /\ Steady(h) /\ Still(g, h) /\ h.state = "game_running" /\ ~h.request
<1> DEFINE r == [g EXCEPT !.state = "game_running", !.timer = TIMER_INFINITE,
                          !.paused = FALSE, !.request = FALSE]
<1>1. g \in Room /\ g.unbalanced \in TBALANCE_CHECK .. TeambalanceTime  BY DEF Typed
<1>2. r \in Room  BY <1>1, TimerType DEF Room, GameState
<1>3. /\ r.state = "game_running" /\ r.timer = TIMER_INFINITE /\ ~r.paused /\ ~r.request
      /\ r.unbalanced = g.unbalanced
  BY <1>1 DEF Room
<1>4. Still(g, r)  BY <1>1 DEF Room, Still, Placed, Frame
<1>5. GameRunning(g) = SetPlayersReadyState(r, TRUE)  BY DEF GameRunning
<1> HIDE DEF r
<1>6. Typed(r)  BY <1>1, <1>2, <1>3 DEF Typed, TIMER_INFINITE
<1> DEFINE h == SetPlayersReadyState(r, TRUE)
<1>7. /\ Typed(h) /\ Still(r, h) /\ h.state = r.state /\ h.timer = r.timer
      /\ h.paused = r.paused /\ h.request = r.request
  BY <1>6, ReadyKeeps
<1> HIDE DEF h
<1>8. Still(g, h)  BY <1>4, <1>7, StillTwice
<1>9. Steady(h)  BY <1>3, <1>7 DEF Steady, Paused, Frozen
<1>. QED  BY <1>3, <1>5, <1>7, <1>8, <1>9 DEF h

LEMMA WarmupGameSteady ==
    ASSUME NEW g, Steady(g), g.state = "game_running" => ~g.request
    PROVE  LET h == WarmupGame(g)
           IN  /\ Steady(h) /\ Still(g, h)
               /\ g.state \in {"game_running", "warmup_game", "warmup_user"}
                    => h.state = "warmup_game"
<1>1. Typed(g) /\ g \in Room  BY DEF Steady, Typed
<1>2. CASE g.state \in {"game_running", "warmup_game", "warmup_user"}
  <2> DEFINE h == [g EXCEPT !.state = "warmup_game", !.timer = TIMER_INFINITE]
  <2>1. h \in Room  BY <1>1, TimerType DEF Room, GameState
  <2>2. /\ h.state = "warmup_game" /\ h.timer = TIMER_INFINITE /\ h.paused = g.paused
        /\ h.request = g.request /\ h.unbalanced = g.unbalanced /\ h.started = g.started
    BY <1>1 DEF Room
  <2>3. Still(g, h)  BY <1>1 DEF Room, Still, Placed, Frame
  <2>4. WarmupGame(g) = h  BY <1>2 DEF WarmupGame
  <2> HIDE DEF h
  <2>5. Typed(h)  BY <1>1, <2>1, <2>2 DEF Typed, TIMER_INFINITE
  <2>6. ~g.request /\ (~Reloads => ~g.paused)
    BY <1>2 DEF Steady, Paused, Frozen
  <2>7. Steady(h)
    BY <2>2, <2>5, <2>6 DEF Steady, Paused, Frozen
  <2>. QED  BY <2>2, <2>3, <2>4, <2>7
<1>3. CASE g.state \notin {"game_running", "warmup_game", "warmup_user"}
  BY <1>3, SameFrame DEF WarmupGame
<1>. QED  BY <1>2, <1>3

LEMMA Ticks == ASSUME NEW s \in Nat PROVE s * TickSpeed \in Nat
  BY SettingAssumption

LEMMA BeginWarmupUserSteady ==
    ASSUME NEW g, Typed(g), NEW s \in Int
    PROVE  LET h == BeginWarmupUser(g, s)
           IN  Steady(h) /\ Still(g, h) /\ h.state = "warmup_user"
<1> DEFINE r == [g EXCEPT !.state = "warmup_user", !.paused = FALSE, !.request = FALSE]
           w(n) == [r EXCEPT !.timer = n]
<1>1. g \in Room /\ g.unbalanced \in TBALANCE_CHECK .. TeambalanceTime  BY DEF Typed
<1>2. ASSUME NEW n \in Int, n >= TIMER_INFINITE
      PROVE  /\ Typed(w(n)) /\ Still(g, w(n)) /\ w(n).state = "warmup_user"
             /\ ~w(n).paused /\ ~w(n).request
  <2>1. w(n) \in Room  BY <1>1 DEF Room, GameState
  <2>2. /\ w(n).state = "warmup_user" /\ w(n).timer = n /\ ~w(n).paused /\ ~w(n).request
        /\ w(n).unbalanced = g.unbalanced
    BY <1>1 DEF Room
  <2>3. Still(g, w(n))  BY <1>1 DEF Room, Still, Placed, Frame
  <2> HIDE DEF w
  <2>. QED  BY <1>1, <1>2, <2>1, <2>2, <2>3 DEF Typed
<1>3. TIMER_INFINITE \in Int /\ TIMER_INFINITE >= TIMER_INFINITE  BY DEF TIMER_INFINITE
<1>4. s > 0 => s * TickSpeed \in Int /\ s * TickSpeed >= TIMER_INFINITE
  <2>1. s > 0 => s * TickSpeed \in Nat  BY Ticks
  <2>. QED  BY <2>1 DEF TIMER_INFINITE
<1>5. \/ BeginWarmupUser(g, s) = SetPlayersReadyState(w(s * TickSpeed), TRUE) /\ s > 0
      \/ BeginWarmupUser(g, s) = SetPlayersReadyState(w(TIMER_INFINITE), FALSE)
      \/ BeginWarmupUser(g, s) = w(TIMER_INFINITE)
  BY DEF BeginWarmupUser
<1> HIDE DEF w
<1>6. PICK n \in Int : /\ n >= TIMER_INFINITE
                       /\ \/ \E b \in BOOLEAN : BeginWarmupUser(g, s) = SetPlayersReadyState(w(n), b)
                          \/ BeginWarmupUser(g, s) = w(n)
  BY <1>3, <1>4, <1>5
<1>7. /\ Typed(w(n)) /\ Still(g, w(n)) /\ w(n).state = "warmup_user"
      /\ ~w(n).paused /\ ~w(n).request
  BY <1>2, <1>6
<1> DEFINE h == BeginWarmupUser(g, s)
<1>8. /\ Typed(h) /\ Still(g, h) /\ h.state = "warmup_user" /\ ~h.paused /\ ~h.request
  <2>1. CASE h = w(n)  BY <1>7, <2>1
  <2>2. ASSUME NEW b \in BOOLEAN, h = SetPlayersReadyState(w(n), b)
        PROVE  /\ Typed(h) /\ Still(g, h) /\ h.state = "warmup_user" /\ ~h.paused /\ ~h.request
    <3> DEFINE k == SetPlayersReadyState(w(n), b)
    <3>1. /\ Typed(k) /\ Still(w(n), k) /\ k.state = w(n).state
          /\ k.paused = w(n).paused /\ k.request = w(n).request
      BY <1>7, ReadyKeeps
    <3> HIDE DEF k
    <3>2. Still(g, k)  BY <1>7, <3>1, StillTwice
    <3>3. h = k  BY <2>2 DEF k
    <3> HIDE DEF h
    <3>. QED  BY <1>7, <3>1, <3>2, <3>3
  <2>. QED  BY <1>6, <2>1, <2>2
<1> HIDE DEF h
<1>9. Steady(h)  BY <1>8 DEF Steady, Paused, Frozen
<1>. QED  BY <1>8, <1>9 DEF h

LEMMA StartCountdownSteady ==
    ASSUME NEW g, Steady(g)
    PROVE  LET h == StartCountdown(g)
           IN  /\ Steady(h) /\ Still(g, h)
               /\ h = g \/ h.state \in {"start_countdown", "game_running"}
<1>1. Typed(g) /\ g \in Room /\ g.unbalanced \in TBALANCE_CHECK .. TeambalanceTime
  BY DEF Steady, Typed
<1>2. CASE g.state \notin {"game_running", "game_paused", "start_countdown"}
  BY <1>2, SameFrame DEF StartCountdown
<1>3. CASE g.state \in {"game_running", "game_paused", "start_countdown"} /\ g.countdown > 0
  <2> DEFINE n == g.countdown * TickSpeed
             h == [g EXCEPT !.state = "start_countdown", !.timer = n, !.paused = TRUE]
  <2>1. n \in Nat /\ n \in Int
    <3>0. g.countdown \in Int
      <4>1. g.countdown \in Countdowns  BY <1>1 DEF Room
      <4>. QED  BY <4>1, SettingAssumption
    <3>1. g.countdown \in Nat  BY <1>3, <3>0
    <3>. QED  BY <3>1, Ticks
  <2>2. StartCountdown(g) = h  BY <1>3 DEF StartCountdown
  <2> HIDE DEF n
  <2>3. h \in Room  BY <1>1, <2>1 DEF Room, GameState
  <2>4. /\ h.state = "start_countdown" /\ h.timer = n /\ h.paused
        /\ h.request = g.request /\ h.unbalanced = g.unbalanced /\ h.started = g.started
    BY <1>1 DEF Room
  <2>5. Still(g, h)  BY <1>1 DEF Room, Still, Placed, Frame
  <2> HIDE DEF h
  <2>6. Typed(h)  BY <1>1, <2>1, <2>3, <2>4 DEF Typed, TIMER_INFINITE
  <2>7. Steady(h)  BY <2>4, <2>6 DEF Steady, Paused, Frozen
  <2>. QED  BY <2>2, <2>4, <2>5, <2>7
<1>4. CASE g.state \in {"game_running", "game_paused", "start_countdown"} /\ ~(g.countdown > 0)
  BY <1>1, <1>4, GameRunningSteady DEF StartCountdown
<1>. QED  BY <1>2, <1>3, <1>4

LEMMA GamePausedSteady ==
    ASSUME NEW g, Steady(g), NEW s \in Int, s >= -1
    PROVE  LET h == GamePaused(g, s)
           IN  /\ Steady(h) /\ Still(g, h)
               /\ h = g \/ h.state \in {"game_paused", "start_countdown", "game_running"}
<1>1. Typed(g) /\ g \in Room /\ g.unbalanced \in TBALANCE_CHECK .. TeambalanceTime
  BY DEF Steady, Typed
<1>2. CASE g.state \notin {"game_running", "game_paused", "warmup_game"}
  BY <1>2, SameFrame DEF GamePaused
<1>3. CASE g.state \in {"game_running", "game_paused", "warmup_game"} /\ s = 0
  BY <1>3, StartCountdownSteady DEF GamePaused
<1>4. CASE g.state \in {"game_running", "game_paused", "warmup_game"} /\ s # 0
  <2> DEFINE r == [g EXCEPT !.state = "game_paused", !.paused = TRUE]
             w(n) == [r EXCEPT !.timer = n]
  <2>1. ASSUME NEW n \in Int, n >= TIMER_INFINITE
        PROVE  Steady(w(n)) /\ Still(g, w(n)) /\ w(n).state = "game_paused"
    <3>1. w(n) \in Room  BY <1>1 DEF Room, GameState
    <3>2. /\ w(n).state = "game_paused" /\ w(n).timer = n /\ w(n).paused
          /\ w(n).request = g.request /\ w(n).unbalanced = g.unbalanced
          /\ w(n).started = g.started
      BY <1>1 DEF Room
    <3>3. Still(g, w(n))  BY <1>1 DEF Room, Still, Placed, Frame
    <3> HIDE DEF w
    <3>4. Typed(w(n))  BY <1>1, <2>1, <3>1, <3>2 DEF Typed
    <3>5. Steady(w(n))  BY <3>2, <3>4 DEF Steady, Paused, Frozen
    <3>. QED  BY <3>2, <3>3, <3>5
  <2>2. CASE s < 0
    <3> DEFINE v == w(TIMER_INFINITE)
               h == SetPlayersReadyState(v, FALSE)
    <3>1. GamePaused(g, s) = h  BY <1>4, <2>2 DEF GamePaused
    <3>2. Steady(v) /\ Still(g, v) /\ v.state = "game_paused"
      <4>1. TIMER_INFINITE >= TIMER_INFINITE  BY DEF TIMER_INFINITE
      <4>. QED  BY <2>1, <4>1, TimerType
    <3> HIDE DEF v
    <3>3. Typed(v)  BY <3>2 DEF Steady
    <3>4. /\ Typed(h) /\ Still(v, h) /\ h.state = v.state /\ h.timer = v.timer
          /\ h.paused = v.paused /\ h.request = v.request
      BY <3>3, ReadyKeeps
    <3> HIDE DEF h
    <3>5. Steady(h)  BY <3>2, <3>4 DEF Steady, Paused, Still, Placed, Frame
    <3>. QED  BY <3>1, <3>2, <3>4, <3>5, StillTwice
  <2>3. CASE ~(s < 0)
    <3>1. s \in Nat  BY <2>3
    <3>2. s * TickSpeed \in Int /\ s * TickSpeed >= TIMER_INFINITE
      <4>1. s * TickSpeed \in Nat  BY <3>1, Ticks
      <4>. QED  BY <4>1 DEF TIMER_INFINITE
    <3>3. GamePaused(g, s) = w(s * TickSpeed)  BY <1>4, <2>3 DEF GamePaused
    <3> HIDE DEF w
    <3>. QED  BY <2>1, <3>2, <3>3
  <2>. QED  BY <2>2, <2>3
<1>. QED  BY <1>2, <1>3, <1>4

LEMMA EndMatchSteady ==
    ASSUME NEW g, Steady(g)
    PROVE  LET h == EndMatch(g)
           IN  /\ Steady(h) /\ Still(g, h)
               /\ h.state = g.state \/ h.state = "end_match"
<1>1. Typed(g) /\ g \in Room /\ g.unbalanced \in TBALANCE_CHECK .. TeambalanceTime
      /\ g.timer \in Int /\ g.timer >= TIMER_INFINITE
  BY DEF Steady, Typed, Room
<1> DEFINE n == EndSeconds * TickSpeed
           e == [g EXCEPT !.state = "end_match", !.timer = n, !.paused = TRUE, !.request = FALSE]
           k == [g EXCEPT !.request = FALSE]
<1>2. n \in Nat /\ n \in Int  BY SettingAssumption, Ticks
<1>3. EndMatch(g) = e \/ EndMatch(g) = k  BY DEF EndMatch
<1> HIDE DEF n
<1>4. Steady(e) /\ Still(g, e) /\ e.state = "end_match"
  <2>1. e \in Room  BY <1>1, <1>2 DEF Room, GameState
  <2>2. /\ e.state = "end_match" /\ e.timer = n /\ e.paused /\ ~e.request
        /\ e.unbalanced = g.unbalanced
    BY <1>1 DEF Room
  <2>3. Still(g, e)  BY <1>1 DEF Room, Still, Placed, Frame
  <2> HIDE DEF e
  <2>4. Typed(e)  BY <1>1, <1>2, <2>1, <2>2 DEF Typed, TIMER_INFINITE
  <2>. QED  BY <2>2, <2>3, <2>4 DEF Steady, Paused, Frozen
<1>5. Steady(k) /\ Still(g, k) /\ k.state = g.state
  <2>1. k \in Room  BY <1>1 DEF Room
  <2>2. /\ k.state = g.state /\ k.timer = g.timer /\ k.paused = g.paused /\ ~k.request
        /\ k.unbalanced = g.unbalanced
    BY <1>1 DEF Room
  <2>3. Still(g, k)  BY <1>1 DEF Room, Still, Placed, Frame
  <2> HIDE DEF k
  <2>4. Typed(k)  BY <1>1, <2>1, <2>2 DEF Typed
  <2>. QED  BY <2>2, <2>3, <2>4 DEF Steady, Paused, Frozen
<1> HIDE DEF e, k
<1>. QED  BY <1>3, <1>4, <1>5

-----------------------------------------------------------------------------
(* Players change team.                                                    *)

LEMMA SideFacts ==
    /\ Sides \subseteq Teams /\ "red" \in Sides /\ "spectators" \in Teams
    /\ "out" \notin Teams /\ Sides \subseteq {"red", "blue"}
    /\ Teamplay => Sides = {"red", "blue"}
  BY DEF Sides, Teams

LEMMA OtherSide ==
    ASSUME Teamplay, NEW t \in Sides
    PROVE  Other(t) \in Sides
  BY SideFacts DEF Other

\* Nothing but the team of p changes, and the sizes with it.
Moved(g, h, p, t) ==
    /\ h.team = [g.team EXCEPT ![p] = t]
    /\ \A u \in Sides : h.size[u] = g.size[u] - (IF u = g.team[p] THEN 1 ELSE 0)
                                              + (IF u = t THEN 1 ELSE 0)

LEMMA MoveToSteady ==
    ASSUME NEW g, Steady(g), NEW p \in Players, NEW t \in Teams
    PROVE  LET h == MoveTo(g, p, t)
           IN  /\ Steady(h) /\ Frame(g, h) /\ Moved(g, h, p, t)
               /\ h.state = g.state /\ h.request = g.request
               /\ h.unbalanced = TBALANCE_CHECK
<1>1. Typed(g) /\ g \in Room /\ g.unbalanced \in TBALANCE_CHECK .. TeambalanceTime
      /\ g.timer >= TIMER_INFINITE
  BY DEF Steady, Typed
<1> DEFINE old == g.team[p]
           s == [u \in Sides |-> g.size[u] - (IF u = old THEN 1 ELSE 0)
                                           + (IF u = t THEN 1 ELSE 0)]
           m == [g.team EXCEPT ![p] = t]
           f(b) == [g.ready EXCEPT ![p] = b]
           x(b) == [g EXCEPT !.team = m, !.size = s, !.unbalanced = TBALANCE_CHECK, !.ready = f(b)]
           y == [g EXCEPT !.team = m, !.size = s, !.unbalanced = TBALANCE_CHECK]
<1>2. g.team \in [Players -> Teams \cup {"out"}] /\ g.size \in [Sides -> Int]
      /\ g.ready \in [Players -> BOOLEAN]
  BY <1>1 DEF Room
<1>3. s \in [Sides -> Int] /\ m \in [Players -> Teams \cup {"out"}]
      /\ \A b \in BOOLEAN : f(b) \in [Players -> BOOLEAN]
  BY <1>2
<1>4. \A u \in Sides : s[u] = g.size[u] - (IF u = old THEN 1 ELSE 0)
                                        + (IF u = t THEN 1 ELSE 0)
  OBVIOUS
<1>5. \/ \E b \in BOOLEAN : MoveTo(g, p, t) = x(b)
      \/ MoveTo(g, p, t) = y
  <2>1. IsPlayerReadyMode(g) \in BOOLEAN  BY DEF IsPlayerReadyMode
  <2>2. t \in Sides => MoveTo(g, p, t) = x(~IsPlayerReadyMode(g))
    BY <1>1, <1>2 DEF MoveTo, Room
  <2>3. t \notin Sides => MoveTo(g, p, t) = y
    BY <1>1, <1>2 DEF MoveTo, Room
  <2>. QED  BY <2>1, <2>2, <2>3
<1> HIDE DEF s, m, f
<1>6. PICK h \in Room : /\ MoveTo(g, p, t) = h
                        /\ h.team = m /\ h.size = s /\ h.unbalanced = TBALANCE_CHECK
                        /\ h.state = g.state /\ h.timer = g.timer /\ h.paused = g.paused
                        /\ h.request = g.request /\ Frame(g, h)
  <2>1. CASE MoveTo(g, p, t) = y
    <3>1. y \in Room  BY <1>1, <1>3, TimerType DEF Room
    <3>2. /\ y.team = m /\ y.size = s /\ y.unbalanced = TBALANCE_CHECK
          /\ y.state = g.state /\ y.timer = g.timer /\ y.paused = g.paused
          /\ y.request = g.request /\ Frame(g, y)
      BY <1>1 DEF Room, Frame
    <3> HIDE DEF y
    <3>. QED  BY <2>1, <3>1, <3>2
  <2>2. ASSUME NEW b \in BOOLEAN, MoveTo(g, p, t) = x(b)
        PROVE  \E h \in Room : /\ MoveTo(g, p, t) = h
                        /\ h.team = m /\ h.size = s /\ h.unbalanced = TBALANCE_CHECK
                        /\ h.state = g.state /\ h.timer = g.timer /\ h.paused = g.paused
                        /\ h.request = g.request /\ Frame(g, h)
    <3>1. x(b) \in Room  BY <1>1, <1>3, TimerType DEF Room
    <3>2. /\ x(b).team = m /\ x(b).size = s /\ x(b).unbalanced = TBALANCE_CHECK
          /\ x(b).state = g.state /\ x(b).timer = g.timer /\ x(b).paused = g.paused
          /\ x(b).request = g.request /\ Frame(g, x(b))
      BY <1>1 DEF Room, Frame
    <3> HIDE DEF x
    <3>. QED  BY <2>2, <3>1, <3>2
  <2>. QED  BY <1>5, <2>1, <2>2
<1>7. TBALANCE_CHECK \in TBALANCE_CHECK .. TeambalanceTime
  BY SettingAssumption DEF TBALANCE_CHECK
<1>8. Typed(h)  BY <1>1, <1>6, <1>7 DEF Typed
<1>9. Steady(h)  BY <1>6, <1>8 DEF Steady, Paused, Frame
<1>10. Moved(g, h, p, t)  BY <1>4, <1>6 DEF m, Moved
<1>. QED  BY <1>6, <1>9, <1>10

\* Sizes stay exact when the team a player leaves, and the one it enters, count it.
LEMMA Counted ==
    ASSUME NEW g \in Room, NEW h, NEW p \in Players, NEW t, Sized(g),
           h.connecting = {}, Moved(g, h, p, t)
    PROVE  Sized(h)
<1> DEFINE old == g.team[p]
<1>1. /\ h.team = [g.team EXCEPT ![p] = t]
      /\ \A u \in Sides : h.size[u] = g.size[u] - (IF u = old THEN 1 ELSE 0)
                                                + (IF u = t THEN 1 ELSE 0)
  BY DEF Moved
<1>2. g.team \in [Players -> Teams \cup {"out"}]  BY DEF Room
<1>3. ASSUME NEW u \in Sides PROVE h.size[u] = Cardinality(OfTeam(h, u))
  <2>1. g.size[u] = Cardinality(OfTeam(g, u))  BY DEF Sized
  <2>2. IsFiniteSet(OfTeam(g, u)) /\ Cardinality(OfTeam(g, u)) \in Nat  BY TeamsFinite
  <2>3. CASE u = t /\ u # old
    <3>1. OfTeam(h, u) = OfTeam(g, u) \cup {p} /\ p \notin OfTeam(g, u)
      BY <1>1, <1>2, <2>3 DEF OfTeam
    <3>2. Cardinality(OfTeam(h, u)) = Cardinality(OfTeam(g, u)) + 1
      BY <2>2, <3>1, FS_AddElement
    <3>. QED  BY <1>1, <2>1, <2>2, <2>3, <3>2
  <2>4. CASE u # t /\ u = old
    <3>1. OfTeam(h, u) = OfTeam(g, u) \ {p} /\ p \in OfTeam(g, u)
      BY <1>1, <1>2, <2>4 DEF OfTeam
    <3>2. Cardinality(OfTeam(h, u)) = Cardinality(OfTeam(g, u)) - 1
      BY <2>2, <3>1, FS_RemoveElement
    <3>. QED  BY <1>1, <2>1, <2>2, <2>4, <3>2
  <2>5. CASE (u = t) = (u = old)
    <3>1. OfTeam(h, u) = OfTeam(g, u)
      BY <1>1, <1>2, <2>5 DEF OfTeam
    <3>. QED  BY <1>1, <2>1, <2>2, <2>5, <3>1
  <2>. QED  BY <2>3, <2>4, <2>5
<1>. QED  BY <1>3 DEF Sized

LEMMA MoveToSized ==
    ASSUME NEW g, Steady(g), NEW p \in Players, NEW t \in Teams, Sized(g)
    PROVE  Sized(MoveTo(g, p, t))
<1> DEFINE h == MoveTo(g, p, t)
<1>1. Frame(g, h) /\ Moved(g, h, p, t)  BY MoveToSteady
<1> HIDE DEF h
<1>2. g \in Room  BY DEF Steady, Typed
<1>3. h.connecting = {}  BY <1>1 DEF Sized, Frame
<1>4. Sized(h)  BY <1>1, <1>2, <1>3, Counted
<1>. QED  BY <1>4 DEF h

-----------------------------------------------------------------------------
(* A match starts.                                                         *)

\* What every part of the match does to a steady room.
Goes(g, h) ==
    /\ Steady(h) /\ Frame(g, h)
    /\ Sized(g) => Sized(h)
    /\ Exact /\ Sized(g) /\ Awake(g) => Awake(h)

LEMMA StillGoes ==
    ASSUME NEW g, NEW h, Steady(h), Still(g, h)
    PROVE  Goes(g, h)
<1>1. Frame(g, h)  BY DEF Still, Placed
<1>2. Sized(g) => Sized(h)  BY PlacedSized DEF Still
<1>3. Awake(g) => Awake(h)  BY StillAwake DEF Still, Placed
<1>. QED  BY <1>1, <1>2, <1>3 DEF Goes

LEMMA GoesTwice ==
    ASSUME NEW f, NEW g, NEW h, Goes(f, g), Goes(g, h)
    PROVE  Goes(f, h)
<1>1. Frame(f, h)  BY FrameTwice DEF Goes
<1>. QED  BY <1>1 DEF Goes

LEMMA MoveToGoes ==
    ASSUME NEW g, Steady(g), NEW p \in Players, NEW t \in Teams
    PROVE  /\ Goes(g, MoveTo(g, p, t))
           /\ MoveTo(g, p, t).state = g.state /\ MoveTo(g, p, t).request = g.request
<1>1. /\ Steady(MoveTo(g, p, t)) /\ Frame(g, MoveTo(g, p, t))
      /\ MoveTo(g, p, t).state = g.state /\ MoveTo(g, p, t).request = g.request
      /\ MoveTo(g, p, t).unbalanced = TBALANCE_CHECK
  BY MoveToSteady
<1>2. Sized(g) => Sized(MoveTo(g, p, t))  BY MoveToSized
<1>3. Awake(MoveTo(g, p, t))  BY <1>1 DEF Awake, TBALANCE_CHECK, TBALANCE_OK
<1>. QED  BY <1>1, <1>2, <1>3 DEF Goes

LEMMA BalancedSteady ==
    ASSUME NEW g, Steady(g)
    PROVE  /\ Steady(Balanced(g)) /\ Placed(g, Balanced(g))
           /\ Balanced(g).state = g.state /\ Balanced(g).request = g.request
<1>1. Typed(g) /\ g \in Room /\ g.timer >= TIMER_INFINITE  BY DEF Steady, Typed
<1> DEFINE h == [g EXCEPT !.unbalanced = TBALANCE_OK]
<1>2. Balanced(g) = h  BY DEF Balanced
<1>3. h \in Room  BY <1>1, TimerType DEF Room
<1>4. /\ h.state = g.state /\ h.request = g.request /\ h.timer = g.timer
      /\ h.paused = g.paused /\ h.started = g.started /\ h.unbalanced = TBALANCE_OK
  BY <1>1 DEF Room
<1>5. Placed(g, h)  BY <1>1 DEF Room, Placed, Frame
<1> HIDE DEF h
<1>6. TBALANCE_OK \in TBALANCE_CHECK .. TeambalanceTime
  BY SettingAssumption DEF TBALANCE_OK, TBALANCE_CHECK
<1>7. Typed(h)  BY <1>1, <1>3, <1>4, <1>6 DEF Typed
<1>8. Steady(h)  BY <1>4, <1>7 DEF Steady, Paused
<1>. QED  BY <1>2, <1>4, <1>5, <1>8

\* The balancer has a number of passes to make, and knows where from and to.
LEMMA BalanceFacts ==
    ASSUME NEW g \in Room, NeedsBalance(g)
    PROVE  /\ Passes(g) \in Nat
           /\ Bigger(g) \in Sides /\ Other(Bigger(g)) \in Teams
           /\ ~HasNoPlayers(g)
<1>1. Teamplay /\ (g.size["red"] - g.size["blue"] \notin -1 .. 1)
  BY DEF NeedsBalance, AreTeamsUnbalanced
<1>2. Sides = {"red", "blue"}  BY <1>1, SideFacts
<1>3. g.size["red"] \in Int /\ g.size["blue"] \in Int  BY <1>2 DEF Room
<1> DEFINE b == g.size["blue"]
           r == g.size["red"]
<1>4. Bigger(g) \in Sides /\ Other(Bigger(g)) \in Teams
  BY <1>1, <1>2, SideFacts DEF Bigger, Other
<1>5. Passes(g) = IF r > b THEN (r - b) \div 2 ELSE (b - r) \div 2
  BY DEF Passes, Bigger, Other
<1>6. ~HasNoPlayers(g)
  <2> SUFFICES ASSUME HasNoPlayers(g) PROVE FALSE
    OBVIOUS
  <2>1. r = 0 /\ b = 0  BY <1>2 DEF HasNoPlayers
  <2>. QED  BY <1>1, <2>1
<1> HIDE DEF b, r
<1>7. r \in Int /\ b \in Int  BY <1>3 DEF b, r
<1>8. Passes(g) \in Nat  BY <1>5, <1>7
<1>. QED  BY <1>4, <1>6, <1>8

\* A balanced room is as sized as it was before, and awake if its teams are even.
LEMMA BalancedGoes ==
    ASSUME NEW g, NEW y, Steady(y), Frame(g, y), Sized(g) => Sized(y),
           Exact /\ Sized(g) => ~AreTeamsUnbalanced(y)
    PROVE  Goes(g, Balanced(y))
<1>1. Steady(Balanced(y)) /\ Placed(y, Balanced(y))  BY BalancedSteady
<1>2. Frame(g, Balanced(y))  BY <1>1, FrameTwice DEF Placed
<1>3. Sized(y) => Sized(Balanced(y))  BY <1>1, PlacedSized
<1>4. AreTeamsUnbalanced(Balanced(y)) = AreTeamsUnbalanced(y)
  BY <1>1 DEF Placed, AreTeamsUnbalanced
<1>5. Exact /\ Sized(g) => Awake(Balanced(y))  BY <1>4 DEF Awake
<1>. QED  BY <1>1, <1>2, <1>3, <1>5 DEF Goes

\* As many passes as half the difference, each of which moves a player of the bigger
\* team, make the teams even.
LEMMA LoopEvens ==
    ASSUME NEW g, Steady(g), NeedsBalance(g), Sized(g), NEW pass,
           \A r \in Room :
              Steady(r) /\ Sized(r) /\ OfTeam(r, Bigger(g)) # {} =>
                 /\ Steady(pass[r]) /\ Sized(pass[r])
                 /\ pass[r].size[Bigger(g)] = r.size[Bigger(g)] - 1
                 /\ pass[r].size[Other(Bigger(g))] = r.size[Other(Bigger(g))] + 1
    PROVE  ~AreTeamsUnbalanced(Times(Passes(g), pass, g))
<1> DEFINE t == Bigger(g)
           o == Other(t)
           n == Passes(g)
           a == g.size[t]
           b == g.size[o]
           y == Times(n, pass, g)
           S == [i \in 0 .. n |-> {r \in Room : /\ Steady(r) /\ Sized(r)
                                                /\ r.size[t] = a - i /\ r.size[o] = b + i}]
<1>1. Teamplay /\ Sides = {"red", "blue"} /\ g \in Room /\ n \in Nat
  BY SideFacts, BalanceFacts DEF NeedsBalance, AreTeamsUnbalanced, Steady, Typed
<1>2. g.size["red"] \in Nat /\ g.size["blue"] \in Nat
  BY <1>1, TeamsFinite DEF Sized
<1>3. /\ t \in Sides /\ o \in Sides
      /\ \/ t = "red" /\ o = "blue"
         \/ t = "blue" /\ o = "red"
      /\ a \in Nat /\ b \in Nat /\ a - b >= 2
  BY <1>1, <1>2 DEF Bigger, Other, NeedsBalance, AreTeamsUnbalanced
<1>4. n = (a - b) \div 2  BY DEF Passes
<1> HIDE DEF t, o, n, a, b
<1>5. g \in S[0]
  <2>1. g.size[t] = a - 0 /\ g.size[o] = b + 0  BY <1>3 DEF a, b
  <2>. QED  BY <1>1, <2>1
<1>6. ASSUME NEW i \in 0 .. n - 1, NEW r \in S[i] PROVE pass[r] \in S[i + 1]
  <2>1. /\ r \in Room /\ Steady(r) /\ Sized(r)
        /\ r.size[t] = a - i /\ r.size[o] = b + i
    BY <1>1
  <2>2. a - i > 0  BY <1>1, <1>3, <1>4
  <2>3. OfTeam(r, t) # {}
    <3>1. Cardinality(OfTeam(r, t)) = a - i  BY <1>3, <2>1 DEF Sized
    <3>2. Cardinality({}) = 0  BY FS_EmptySet
    <3>3. Cardinality(OfTeam(r, t)) # 0  BY <2>2, <3>1
    <3>. QED  BY <3>2, <3>3
  <2>4. /\ Steady(pass[r]) /\ Sized(pass[r])
        /\ pass[r].size[t] = r.size[t] - 1 /\ pass[r].size[o] = r.size[o] + 1
    BY <2>1, <2>3 DEF t, o
  <2>5. pass[r] \in Room  BY <2>4 DEF Steady, Typed
  <2>6. pass[r].size[t] = a - (i + 1) /\ pass[r].size[o] = b + (i + 1)
    BY <1>1, <1>3, <2>1, <2>4
  <2>7. i + 1 \in 0 .. n  BY <1>1
  <2>. QED  BY <2>4, <2>5, <2>6, <2>7
<1>7. y \in S[n]
  <2> HIDE DEF S
  <2>. QED  BY <1>1, <1>5, <1>6, TimesReaches
<1> HIDE DEF y
<1>8. y.size[t] = a - n /\ y.size[o] = b + n  BY <1>1, <1>7
<1>9. y.size[t] - y.size[o] \in -1 .. 1 /\ y.size[o] - y.size[t] \in -1 .. 1
  BY <1>1, <1>3, <1>4, <1>8
<1>10. ~AreTeamsUnbalanced(y)  BY <1>3, <1>9 DEF AreTeamsUnbalanced
<1>. QED  BY <1>10 DEF y, n

\* One pass of the balancer
LEMMA MoveToCounts ==
    ASSUME NEW r, Steady(r), Teamplay, NEW t \in Sides, NEW p \in OfTeam(r, t)
    PROVE  LET h == MoveTo(r, p, Other(t))
           IN  h.size[t] = r.size[t] - 1 /\ h.size[Other(t)] = r.size[Other(t)] + 1
<1> DEFINE h == MoveTo(r, p, Other(t))
           o == Other(t)
<1>1. o \in Sides /\ o \in Teams /\ o # t /\ t \in Teams
  BY OtherSide, SideFacts DEF Other
<1>2. p \in Players /\ r.team[p] = t  BY DEF OfTeam
<1> HIDE DEF o
<1>3. Moved(r, MoveTo(r, p, o), p, o)  BY <1>1, <1>2, MoveToSteady
<1>4. r.size[t] \in Int /\ r.size[o] \in Int  BY <1>1 DEF Steady, Typed, Room
<1> DEFINE m == MoveTo(r, p, o)
<1> HIDE DEF m
<1>5. m.size[t] = r.size[t] - 1 /\ m.size[o] = r.size[o] + 1
  BY <1>1, <1>2, <1>3, <1>4 DEF Moved, m
<1>. QED  BY <1>5 DEF m, o

LEMMA ResetGameGoes ==
    ASSUME NEW g, Typed(g), NEW order \in Orders
    PROVE  LET h == ResetGame(g, order)
           IN  /\ Goes(g, h) /\ h.state = "game_running" /\ ~h.request
               /\ HasNoPlayers(g) => Still(g, h)
<1> DEFINE k == GameRunning(g)
           x == [k EXCEPT !.reset = TRUE]
           t == Bigger(x)
           pass == [r \in Room |-> IF OfTeam(r, t) = {} THEN r
                                   ELSE MoveTo(r, First(OfTeam(r, t), order), Other(t))]
           S == {r \in Room : Goes(x, r) /\ r.state = "game_running" /\ ~r.request}
<1>1. Steady(k) /\ Still(g, k) /\ k.state = "game_running" /\ ~k.request
  BY GameRunningSteady
<1> HIDE DEF k
<1>2. Steady(x) /\ Still(k, x) /\ x.state = "game_running" /\ ~x.request
  <2>1. Typed(k) /\ k \in Room /\ k.timer >= TIMER_INFINITE
        /\ k.unbalanced \in TBALANCE_CHECK .. TeambalanceTime
    BY <1>1 DEF Steady, Typed
  <2>2. x \in Room  BY <2>1 DEF Room
  <2>3. /\ x.state = k.state /\ x.request = k.request /\ x.timer = k.timer
        /\ x.paused = k.paused /\ x.started = k.started /\ x.unbalanced = k.unbalanced
    BY <2>1 DEF Room
  <2>4. Still(k, x)  BY <2>1 DEF Room, Still, Placed, Frame
  <2> HIDE DEF x
  <2>5. Typed(x)  BY <2>1, <2>2, <2>3 DEF Typed
  <2>. QED  BY <1>1, <2>3, <2>4, <2>5 DEF Steady, Paused
<1>3. ResetGame(g, order) = IF NeedsBalance(x) THEN Balanced(Times(Passes(x), pass, x)) ELSE x
  BY DEF ResetGame, k
<1> HIDE DEF x
<1>4. Still(g, x) /\ Goes(g, x)  BY <1>1, <1>2, StillTwice, StillGoes
<1>5. x \in Room  BY <1>2 DEF Steady, Typed
<1>6. CASE ~NeedsBalance(x)  BY <1>2, <1>3, <1>4, <1>6
<1>7. CASE NeedsBalance(x)
  <2>1. Passes(x) \in Nat /\ Other(t) \in Teams /\ ~HasNoPlayers(x)
    BY <1>5, <1>7, BalanceFacts
  <2> HIDE DEF t
  <2>2. ASSUME NEW r \in S PROVE pass[r] \in S
    <3>1. r \in Room /\ Goes(x, r) /\ r.state = "game_running" /\ ~r.request  OBVIOUS
    <3>2. CASE OfTeam(r, t) = {}  BY <3>1, <3>2
    <3>3. CASE OfTeam(r, t) # {}
      <4> DEFINE p == First(OfTeam(r, t), order)
                 m == MoveTo(r, p, Other(t))
      <4>1. p \in Players
        <5>1. OfTeam(r, t) \in SUBSET Players  BY DEF OfTeam
        <5>. QED  BY <3>3, <5>1, FirstIsIn
      <4>2. pass[r] = m  BY <3>1, <3>3
      <4> HIDE DEF p
      <4>3. Steady(r)  BY <3>1 DEF Goes
      <4>4. Goes(r, m) /\ m.state = r.state /\ m.request = r.request
        BY <2>1, <4>1, <4>3, MoveToGoes
      <4> HIDE DEF m
      <4>6. Goes(x, m)  BY <3>1, <4>4, GoesTwice
      <4>7. m \in Room  BY <4>4 DEF Goes, Steady, Typed
      <4>. QED  BY <3>1, <4>2, <4>4, <4>6, <4>7
    <3>. QED  BY <3>2, <3>3
  <2>3. x \in S
    <3>1. Goes(x, x)  BY <1>2, SameFrame, StillGoes
    <3>. QED  BY <1>2, <1>5, <3>1
  <2> DEFINE y == Times(Passes(x), pass, x)
  <2> HIDE DEF pass, S
  <2>4. y \in S  BY <2>1, <2>2, <2>3, TimesKeeps
  <2>5. ResetGame(g, order) = Balanced(y)  BY <1>3, <1>7
  <2> HIDE DEF y
  <2>6. Goes(x, y) /\ y.state = "game_running" /\ ~y.request  BY <2>4 DEF S
  <2>7. /\ Balanced(y).state = y.state /\ Balanced(y).request = y.request
    BY <2>6, BalancedSteady DEF Goes
  <2>8. Goes(g, Balanced(y))
    <3>1. Steady(y) /\ Frame(x, y) /\ (Sized(x) => Sized(y))  BY <2>6 DEF Goes
    <3>2. ASSUME Sized(x) PROVE ~AreTeamsUnbalanced(y)
      <4>1. ASSUME NEW r \in Room, Steady(r), Sized(r), OfTeam(r, t) # {}
            PROVE  /\ Steady(pass[r]) /\ Sized(pass[r])
                   /\ pass[r].size[t] = r.size[t] - 1
                   /\ pass[r].size[Other(t)] = r.size[Other(t)] + 1
        <5> DEFINE p == First(OfTeam(r, t), order)
                   m == MoveTo(r, p, Other(t))
        <5>1. p \in OfTeam(r, t) /\ p \in Players
          <6>1. OfTeam(r, t) \in SUBSET Players  BY DEF OfTeam
          <6>. QED  BY <4>1, <6>1, FirstIsIn
        <5>2. pass[r] = m  BY <4>1 DEF pass
        <5> HIDE DEF p
        <5>3. Teamplay /\ t \in Sides
          BY <1>5, <1>7, BalanceFacts DEF t, NeedsBalance, AreTeamsUnbalanced
        <5>4. Goes(r, m)  BY <2>1, <4>1, <5>1, MoveToGoes
        <5>5. m.size[t] = r.size[t] - 1 /\ m.size[Other(t)] = r.size[Other(t)] + 1
          BY <4>1, <5>1, <5>3, MoveToCounts
        <5> HIDE DEF m
        <5>. QED  BY <4>1, <5>2, <5>4, <5>5 DEF Goes
      <4>2. ~AreTeamsUnbalanced(Times(Passes(x), pass, x))
        BY <1>2, <1>7, <3>2, <4>1, LoopEvens DEF t
      <4>. QED  BY <4>2 DEF y
    <3>3. Goes(x, Balanced(y))  BY <3>1, <3>2, BalancedGoes
    <3>. QED  BY <1>4, <3>3, GoesTwice
  <2>9. ~HasNoPlayers(g)  BY <1>4, <2>1 DEF Still, Placed, HasNoPlayers
  <2>. QED  BY <2>5, <2>6, <2>7, <2>8, <2>9
<1>. QED  BY <1>6, <1>7

LEMMA StartMatchGoes ==
    ASSUME NEW g, Steady(g), NEW order \in Orders
    PROVE  LET h == StartMatch(g, order) IN Goes(g, h) /\ Waits(h)
<1> DEFINE r == ResetGame(g, order)
<1>1. Goes(g, r) /\ r.state = "game_running"  BY ResetGameGoes DEF Steady
<1>2. Steady(r)  BY <1>1 DEF Goes
<1>3. StartMatch(g, order) = IF IsWarmup(g) /\ ~HasEnoughPlayers(g) THEN WarmupGame(g)
                             ELSE IF HasEnoughPlayers(r) THEN StartCountdown(r)
                             ELSE BeginWarmupUser(r, TIMER_INFINITE)
  BY DEF StartMatch
<1> HIDE DEF r
<1>4. CASE IsWarmup(g) /\ ~HasEnoughPlayers(g)
  <2> DEFINE h == WarmupGame(g)
  <2>1. g.state = "game_running" => ~g.request  BY <1>4 DEF IsWarmup, Steady
  <2>2. Steady(h) /\ Still(g, h)  BY <2>1, WarmupGameSteady
  <2>3. ~HasEnoughPlayers(h)  BY <1>4, <2>2, StillEnough
  <2>4. Goes(g, h)  BY <2>2, StillGoes
  <2>. QED  BY <1>3, <1>4, <2>3, <2>4 DEF Waits
<1>5. CASE ~(IsWarmup(g) /\ ~HasEnoughPlayers(g)) /\ HasEnoughPlayers(r)
  <2> DEFINE h == StartCountdown(r)
  <2>1. Steady(h) /\ Still(r, h) /\ (h = r \/ h.state \in {"start_countdown", "game_running"})
    BY <1>2, StartCountdownSteady
  <2>2. StartMatch(g, order) = h  BY <1>3, <1>5
  <2> HIDE DEF h
  <2>3. h.state # "warmup_game"  BY <1>1, <2>1
  <2>4. Goes(g, h)  BY <1>1, <2>1, StillGoes, GoesTwice
  <2>. QED  BY <2>2, <2>3, <2>4 DEF Waits
<1>6. CASE ~(IsWarmup(g) /\ ~HasEnoughPlayers(g)) /\ ~HasEnoughPlayers(r)
  <2> DEFINE h == BeginWarmupUser(r, TIMER_INFINITE)
  <2>1. Typed(r)  BY <1>2 DEF Steady
  <2>2. Steady(h) /\ Still(r, h) /\ h.state = "warmup_user"
    BY <2>1, TimerType, BeginWarmupUserSteady
  <2>3. StartMatch(g, order) = h  BY <1>3, <1>6
  <2> HIDE DEF h
  <2>4. Goes(g, h)  BY <1>1, <2>2, StillGoes, GoesTwice
  <2>. QED  BY <2>2, <2>3, <2>4 DEF Waits
<1>. QED  BY <1>4, <1>5, <1>6

LEMMA WarmupUserGoes ==
    ASSUME NEW g, Steady(g), NEW s \in Int, NEW order \in Orders
    PROVE  LET h == WarmupUser(g, s, order)
           IN  Goes(g, h) /\ Waits(h) /\ (s # 0 => Still(g, h))
<1>1. CASE g.state \in {"start_countdown", "end_match"}
  BY <1>1, SameFrame, StillGoes DEF WarmupUser, Waits
<1>2. CASE g.state \notin {"start_countdown", "end_match"} /\ s # 0
  <2> DEFINE h == BeginWarmupUser(g, s)
  <2>1. Typed(g)  BY DEF Steady
  <2>2. Steady(h) /\ Still(g, h) /\ h.state = "warmup_user"  BY <2>1, BeginWarmupUserSteady
  <2>3. WarmupUser(g, s, order) = h  BY <1>2 DEF WarmupUser
  <2> HIDE DEF h
  <2>. QED  BY <2>2, <2>3, StillGoes DEF Waits
<1>3. CASE g.state \notin {"start_countdown", "end_match"} /\ s = 0
  <2>1. WarmupUser(g, s, order) = StartMatch(g, order)  BY <1>3 DEF WarmupUser
  <2>. QED  BY <1>3, <2>1, StartMatchGoes
<1>. QED  BY <1>1, <1>2, <1>3

LEMMA ReadySteady ==
    ASSUME NEW g, Steady(g), NEW b \in BOOLEAN
    PROVE  LET h == SetPlayersReadyState(g, b)
           IN  Steady(h) /\ Still(g, h) /\ h.state = g.state /\ h.request = g.request
<1> DEFINE h == SetPlayersReadyState(g, b)
<1>1. /\ Typed(h) /\ Still(g, h)
      /\ h.state = g.state /\ h.timer = g.timer /\ h.paused = g.paused
      /\ h.request = g.request
  BY ReadyKeeps DEF Steady
<1> HIDE DEF h
<1>2. Steady(h)  BY <1>1 DEF Steady, Paused, Still, Placed, Frame
<1>. QED  BY <1>1, <1>2 DEF h

LEMMA WarmupFacts ==
    ASSUME NEW g, Steady(g)
    PROVE  g.warmup \in Int /\ (Exact => g.warmup # 0)
<1>1. g \in Room  BY DEF Steady, Typed
<1>2. g.warmup \in Warmups  BY <1>1 DEF Room
<1>3. Warmups \subseteq Nat  BY SettingAssumption
<1>4. Exact => 0 \notin Warmups  BY Zenon DEF Exact
<1>5. g.warmup \in Int
  <2>1. g.warmup \in Nat  BY <1>2, <1>3, Zenon
  <2>. QED  BY <2>1
<1>6. Exact => g.warmup # 0  BY <1>2, <1>4, Zenon
<1>. QED  BY <1>5, <1>6

LEMMA AwaitPlayersGoes ==
    ASSUME NEW g, Steady(g), NEW fallback \in BOOLEAN, NEW order \in Orders
    PROVE  LET h == AwaitPlayers(g, fallback, order)
           IN  Goes(g, h) /\ Waits(h) /\ (Exact => Still(g, h))
<1> DEFINE h == AwaitPlayers(g, fallback, order)
<1>1. Still(g, g) /\ Goes(g, g)  BY SameFrame, StillGoes
<1>2. CASE g.state \notin {"warmup_game", "warmup_user"} \/ g.timer # TIMER_INFINITE
  <2>1. h = g  BY <1>2 DEF AwaitPlayers
  <2>2. g.state # "warmup_game"  BY <1>2 DEF Steady
  <2>. QED  BY <1>1, <2>1, <2>2 DEF Waits
<1>3. CASE /\ g.state \in {"warmup_game", "warmup_user"} /\ g.timer = TIMER_INFINITE
           /\ HasEnoughPlayers(g)
  <2>1. CASE ~ReadyStartsMatch(g)
    <3>1. h = WarmupUser(g, g.warmup, order)  BY <1>3, <2>1 DEF AwaitPlayers
    <3>2. g.warmup \in Int  BY WarmupFacts
    <3>3. Exact => g.warmup # 0  BY WarmupFacts
    <3> HIDE DEF h
    <3>. QED  BY <3>1, <3>2, <3>3, WarmupUserGoes DEF h
  <2>2. CASE ReadyStartsMatch(g) /\ g.state # "warmup_user"
    <3>1. h = WarmupUser(g, TIMER_INFINITE, order)  BY <1>3, <2>2 DEF AwaitPlayers
    <3>2. TIMER_INFINITE \in Int /\ TIMER_INFINITE # 0  BY DEF TIMER_INFINITE
    <3> HIDE DEF h
    <3>. QED  BY <3>1, <3>2, WarmupUserGoes DEF h
  <2>3. CASE ReadyStartsMatch(g) /\ g.state = "warmup_user"
    <3>1. h = g  BY <1>3, <2>3 DEF AwaitPlayers
    <3>. QED  BY <1>1, <2>3, <3>1 DEF Waits
  <2>. QED  BY <2>1, <2>2, <2>3
<1>4. CASE /\ g.state \in {"warmup_game", "warmup_user"} /\ g.timer = TIMER_INFINITE
           /\ ~HasEnoughPlayers(g) /\ fallback
  <2> DEFINE r == SetPlayersReadyState(g, TRUE)
             k == WarmupGame(r)
  <2>1. Steady(r) /\ Still(g, r) /\ r.state = g.state /\ r.request = g.request
    BY ReadySteady
  <2>2. h = k  BY <1>4 DEF AwaitPlayers
  <2> HIDE DEF r
  <2>3. Steady(k) /\ Still(r, k)
    BY <1>4, <2>1, WarmupGameSteady
  <2> HIDE DEF h, k
  <2>4. Still(g, k)  BY <2>1, <2>3, StillTwice
  <2>5. ~HasEnoughPlayers(k)  BY <1>4, <2>4, StillEnough
  <2>6. Goes(g, k)  BY <2>3, <2>4, StillGoes
  <2>. QED  BY <2>2, <2>4, <2>5, <2>6 DEF Waits, h
<1>5. CASE /\ g.state \in {"warmup_game", "warmup_user"} /\ g.timer = TIMER_INFINITE
           /\ ~HasEnoughPlayers(g) /\ ~fallback
  <2>1. h = g  BY <1>5 DEF AwaitPlayers
  <2>. QED  BY <1>1, <1>5, <2>1 DEF Waits
<1>. QED  BY <1>2, <1>3, <1>4, <1>5

LEMMA ResetMatchGoes ==
    ASSUME NEW g, Typed(g), NEW order \in Orders
    PROVE  LET h == ResetMatch(g, order)
           IN  Goes(g, h) /\ Waits(h) /\ (Exact /\ HasNoPlayers(g) => Still(g, h))
<1> DEFINE r == ResetGame(g, order)
           k == WarmupGame(r)
           h == AwaitPlayers(k, FALSE, order)
<1>1. Goes(g, r) /\ r.state = "game_running" /\ ~r.request /\ (HasNoPlayers(g) => Still(g, r))
  BY ResetGameGoes
<1>2. ResetMatch(g, order) = h  BY DEF ResetMatch
<1> HIDE DEF r
<1>3. Steady(r)  BY <1>1 DEF Goes
<1>4. Steady(k) /\ Still(r, k)  BY <1>1, <1>3, WarmupGameSteady
<1> HIDE DEF k
<1>5. Goes(k, h) /\ Waits(h) /\ (Exact => Still(k, h))  BY <1>4, AwaitPlayersGoes
<1> HIDE DEF h
<1>6. Goes(g, h)
  <2>1. Goes(r, k)  BY <1>4, StillGoes
  <2>2. Goes(g, k)  BY <1>1, <2>1, GoesTwice
  <2>. QED  BY <1>5, <2>2, GoesTwice
<1>7. ASSUME Exact, HasNoPlayers(g) PROVE Still(g, h)
  <2>1. Still(g, r) /\ Still(r, k) /\ Still(k, h)  BY <1>1, <1>4, <1>5, <1>7
  <2>2. Still(g, k)  BY <2>1, StillTwice
  <2>. QED  BY <2>1, <2>2, StillTwice
<1>. QED  BY <1>2, <1>5, <1>6, <1>7

LEMMA TryStartWarmupGoes ==
    ASSUME NEW g, Steady(g), NEW fallback \in BOOLEAN, NEW order \in Orders
    PROVE  LET h == TryStartWarmup(g, fallback, order)
           IN  Goes(g, h) /\ Waits(h) /\ (Exact => Still(g, h))
<1>1. CASE g.state # "warmup_game" /\ HasNoPlayers(g)
  <2>1. TryStartWarmup(g, fallback, order) = ResetMatch(g, order)
    BY <1>1 DEF TryStartWarmup
  <2>2. Typed(g)  BY DEF Steady
  <2>. QED  BY <1>1, <2>1, <2>2, ResetMatchGoes
<1>2. CASE ~(g.state # "warmup_game" /\ HasNoPlayers(g))
  <2>1. TryStartWarmup(g, fallback, order) = AwaitPlayers(g, fallback, order)
    BY <1>2 DEF TryStartWarmup
  <2>. QED  BY <2>1, AwaitPlayersGoes
<1>. QED  BY <1>1, <1>2

LEMMA CheckReadyStatesGoes ==
    ASSUME NEW g, Steady(g), NEW without, NEW order \in Orders
    PROVE  LET h == CheckReadyStates(g, without, order)
           IN  Goes(g, h) /\ (Waits(g) => Waits(h)) /\ (Exact => Still(g, h))
<1> DEFINE h == CheckReadyStates(g, without, order)
<1>1. Still(g, g) /\ Goes(g, g)  BY SameFrame, StillGoes
<1>2. CASE h = g  BY <1>1, <1>2
<1>3. CASE h = WarmupUser(g, g.warmup, order)
  <2>2. g.warmup \in Int  BY WarmupFacts
  <2>3. Exact => g.warmup # 0  BY WarmupFacts
  <2> HIDE DEF h
  <2>. QED  BY <1>3, <2>2, <2>3, WarmupUserGoes DEF h
<1>4. CASE h = GamePaused(g, 0)
  <2> DEFINE k == GamePaused(g, 0)
  <2>1. Steady(k) /\ Still(g, k)
        /\ (k = g \/ k.state \in {"game_paused", "start_countdown", "game_running"})
    BY GamePausedSteady
  <2> HIDE DEF h, k
  <2>2. Waits(g) => Waits(k)  BY <2>1 DEF Waits
  <2>. QED  BY <1>4, <2>1, <2>2, StillGoes DEF h, k
<1>5. h = g \/ h = WarmupUser(g, g.warmup, order) \/ h = GamePaused(g, 0)
  BY DEF CheckReadyStates
<1>. QED  BY <1>2, <1>3, <1>4, <1>5

\* A team change, and whatever else it sets off.
LEMMA DoTeamChangeGoes ==
    ASSUME NEW g, Steady(g), NEW p \in Players, NEW t \in Teams, NEW order \in Orders
    PROVE  LET h == DoTeamChange(g, p, t, order)
           IN  /\ Goes(g, h) /\ (Waits(g) => Waits(h))
               /\ Exact /\ t # g.team[p] => h.size = MoveTo(g, p, t).size
<1>1. CASE t = g.team[p]
  BY <1>1, SameFrame, StillGoes DEF DoTeamChange
<1>2. CASE t # g.team[p]
  <2> DEFINE m == MoveTo(g, p, t)
             c == CheckReadyStates(m, {}, order)
             h == TryStartWarmup(c, TRUE, order)
  <2>1. DoTeamChange(g, p, t, order) = h  BY <1>2 DEF DoTeamChange
  <2>2. Goes(g, m)  BY MoveToGoes
  <2> HIDE DEF m
  <2>3. Steady(m)  BY <2>2 DEF Goes
  <2>4. Goes(m, c) /\ (Exact => Still(m, c))  BY <2>3, CheckReadyStatesGoes
  <2> HIDE DEF c
  <2>5. Steady(c)  BY <2>4 DEF Goes
  <2>6. Goes(c, h) /\ Waits(h) /\ (Exact => Still(c, h))  BY <2>5, TryStartWarmupGoes
  <2> HIDE DEF h
  <2>7. Goes(g, h)  BY <2>2, <2>4, <2>6, GoesTwice
  <2>8. Exact => h.size = m.size  BY <2>4, <2>6 DEF Still, Placed
  <2>. QED  BY <2>1, <2>6, <2>7, <2>8 DEF m
<1>. QED  BY <1>1, <1>2

LEMMA DoTeamBalanceGoes ==
    ASSUME NEW g, Steady(g), NEW order \in Orders
    PROVE  LET h == DoTeamBalance(g, order)
           IN  Goes(g, h) /\ (Waits(g) => Waits(h))
<1> DEFINE t == Bigger(g)
           pass == [r \in Room |->
                      IF OfTeam(r, t) = {} THEN r
                      ELSE DoTeamChange(r, First(OfTeam(r, t), order), Other(t), order)]
           S == {r \in Room : Goes(g, r) /\ (Waits(g) => Waits(r))}
<1>1. g \in Room  BY DEF Steady, Typed
<1>2. DoTeamBalance(g, order) =
        IF NeedsBalance(g) THEN Balanced(Times(Passes(g), pass, g)) ELSE g
  BY DEF DoTeamBalance
<1>3. Goes(g, g)  BY SameFrame, StillGoes
<1>4. CASE ~NeedsBalance(g)  BY <1>2, <1>3, <1>4
<1>5. CASE NeedsBalance(g)
  <2>1. Passes(g) \in Nat /\ Other(t) \in Teams  BY <1>1, <1>5, BalanceFacts
  <2> HIDE DEF t
  <2>2. ASSUME NEW r \in S PROVE pass[r] \in S
    <3>1. r \in Room /\ Goes(g, r) /\ (Waits(g) => Waits(r))  OBVIOUS
    <3>2. CASE OfTeam(r, t) = {}  BY <3>1, <3>2
    <3>3. CASE OfTeam(r, t) # {}
      <4> DEFINE p == First(OfTeam(r, t), order)
                 m == DoTeamChange(r, p, Other(t), order)
      <4>1. p \in Players
        <5>1. OfTeam(r, t) \in SUBSET Players  BY DEF OfTeam
        <5>. QED  BY <3>3, <5>1, FirstIsIn
      <4>2. pass[r] = m  BY <3>1, <3>3
      <4> HIDE DEF p
      <4>3. Steady(r)  BY <3>1 DEF Goes
      <4>4. Goes(r, m) /\ (Waits(r) => Waits(m))
        BY <2>1, <4>1, <4>3, DoTeamChangeGoes
      <4> HIDE DEF m
      <4>5. Goes(g, m)  BY <3>1, <4>4, GoesTwice
      <4>6. m \in Room  BY <4>4 DEF Goes, Steady, Typed
      <4>. QED  BY <3>1, <4>2, <4>4, <4>5, <4>6
    <3>. QED  BY <3>2, <3>3
  <2>3. g \in S  BY <1>1, <1>3
  <2> DEFINE y == Times(Passes(g), pass, g)
  <2> HIDE DEF pass, S
  <2>4. y \in S  BY <2>1, <2>2, <2>3, TimesKeeps
  <2>5. DoTeamBalance(g, order) = Balanced(y)  BY <1>2, <1>5
  <2> HIDE DEF y
  <2>6. Goes(g, y) /\ (Waits(g) => Waits(y))  BY <2>4 DEF S
  <2>7. Goes(g, Balanced(y))
    <3>1. Steady(y) /\ Frame(g, y) /\ (Sized(g) => Sized(y))  BY <2>6 DEF Goes
    <3>2. ASSUME Exact, Sized(g) PROVE ~AreTeamsUnbalanced(y)
      <4>1. ASSUME NEW r \in Room, Steady(r), Sized(r), OfTeam(r, t) # {}
            PROVE  /\ Steady(pass[r]) /\ Sized(pass[r])
                   /\ pass[r].size[t] = r.size[t] - 1
                   /\ pass[r].size[Other(t)] = r.size[Other(t)] + 1
        <5> DEFINE p == First(OfTeam(r, t), order)
                   m == DoTeamChange(r, p, Other(t), order)
        <5>1. p \in OfTeam(r, t) /\ p \in Players
          <6>1. OfTeam(r, t) \in SUBSET Players  BY DEF OfTeam
          <6>. QED  BY <4>1, <6>1, FirstIsIn
        <5>2. pass[r] = m  BY <4>1 DEF pass
        <5> HIDE DEF p
        <5>3. Teamplay /\ t \in Sides
          BY <1>1, <1>5, BalanceFacts DEF t, NeedsBalance, AreTeamsUnbalanced
        <5>4. Other(t) # r.team[p]
          <6>1. r.team[p] = t  BY <5>1 DEF OfTeam
          <6>. QED  BY <6>1 DEF Other
        <5>5. Goes(r, m) /\ m.size = MoveTo(r, p, Other(t)).size
          BY <2>1, <3>2, <4>1, <5>1, <5>4, DoTeamChangeGoes
        <5>6. /\ MoveTo(r, p, Other(t)).size[t] = r.size[t] - 1
              /\ MoveTo(r, p, Other(t)).size[Other(t)] = r.size[Other(t)] + 1
          BY <4>1, <5>1, <5>3, MoveToCounts
        <5> HIDE DEF m
        <5>. QED  BY <4>1, <5>2, <5>5, <5>6 DEF Goes
      <4>2. ~AreTeamsUnbalanced(Times(Passes(g), pass, g))
        BY <1>5, <3>2, <4>1, LoopEvens DEF t
      <4>. QED  BY <4>2 DEF y
    <3>. QED  BY <3>1, <3>2, BalancedGoes
  <2>8. Waits(y) => Waits(Balanced(y))
    <3>1. Placed(y, Balanced(y)) /\ Balanced(y).state = y.state
      BY <2>6, BalancedSteady DEF Goes
    <3>. QED  BY <3>1, PlacedEnough DEF Waits
  <2>. QED  BY <2>5, <2>6, <2>7, <2>8
<1>. QED  BY <1>4, <1>5

\* Any number of players changes team, one after the other.
LEMMA ChangeTeamsGoes ==
    ASSUME NEW g, Steady(g), NEW ps \in SUBSET Players, NEW to \in [ps -> Teams],
           NEW order \in Orders
    PROVE  LET h == ChangeTeams(g, to, order)
           IN  Goes(g, h) /\ (Waits(g) => Waits(h))
<1> DEFINE R == [room : Room, todo : SUBSET ps]
           change == [r \in R |->
                        IF r.todo = {} THEN r
                        ELSE LET p == First(r.todo, order)
                             IN  [room |-> DoTeamChange(r.room, p, to[p], order),
                                  todo |-> r.todo \ {p}]]
           S == {r \in R : Goes(g, r.room) /\ (Waits(g) => Waits(r.room))}
           x == [room |-> g, todo |-> ps]
           n == Cardinality(ps)
<1>1. g \in Room  BY DEF Steady, Typed
<1>2. ChangeTeams(g, to, order) = Times(n, change, x).room
  <2>1. DOMAIN to = ps  OBVIOUS
  <2>. QED  BY <2>1, Zenon DEF ChangeTeams
<1>3. n \in Nat  BY PlayerAssumption, FS_Subset, FS_CardinalityType
<1>4. x \in S
  <2>1. Goes(g, g)  BY SameFrame, StillGoes
  <2>. QED  BY <1>1, <2>1
<1>5. ASSUME NEW r \in S PROVE change[r] \in S
  <2>1. r \in R /\ Goes(g, r.room) /\ (Waits(g) => Waits(r.room))  OBVIOUS
  <2>2. CASE r.todo = {}  BY <2>1, <2>2
  <2>3. CASE r.todo # {}
    <3> DEFINE p == First(r.todo, order)
               m == DoTeamChange(r.room, p, to[p], order)
    <3>1. p \in r.todo /\ r.todo \in SUBSET ps
      <4>1. r.todo \in SUBSET Players  BY <2>1
      <4>. QED  BY <2>1, <2>3, <4>1, FirstIsIn
    <3>2. change[r] = [room |-> m, todo |-> r.todo \ {p}]  BY <2>1, <2>3
    <3> HIDE DEF p
    <3>3. Steady(r.room)  BY <2>1 DEF Goes
    <3>4. p \in Players /\ to[p] \in Teams  BY <3>1
    <3>5. Goes(r.room, m) /\ (Waits(r.room) => Waits(m))
      BY <3>3, <3>4, DoTeamChangeGoes
    <3> HIDE DEF m
    <3>6. Goes(g, m)  BY <2>1, <3>5, GoesTwice
    <3>7. m \in Room  BY <3>5 DEF Goes, Steady, Typed
    <3>. QED  BY <2>1, <3>1, <3>2, <3>5, <3>6, <3>7
  <2>. QED  BY <2>2, <2>3
<1> DEFINE y == Times(n, change, x)
<1> HIDE DEF n, change, x
<1>6. y \in S
  <2> HIDE DEF S
  <2>. QED  BY <1>3, <1>4, <1>5, TimesKeeps
<1> HIDE DEF y
<1>7. Goes(g, y.room) /\ (Waits(g) => Waits(y.room))  BY <1>6
<1>8. ChangeTeams(g, to, order) = y.room  BY <1>2 DEF y
<1>. QED  BY <1>7, <1>8

LEMMA SwapTeamsGoes ==
    ASSUME NEW g, Steady(g), NEW order \in Orders
    PROVE  LET h == SwapTeams(g, order)
           IN  Goes(g, h) /\ (Waits(g) => Waits(h))
<1>1. CASE ~Teamplay  BY <1>1, SameFrame, StillGoes DEF SwapTeams
<1>2. CASE Teamplay
  <2> DEFINE to == [p \in Playing(g) |-> Other(g.team[p])]
             ps == Playing(g)
  <2>1. to \in [ps -> Teams] /\ ps \in SUBSET Players
    <3>1. ASSUME NEW p \in Playing(g) PROVE Other(g.team[p]) \in Teams
      <4>1. g.team[p] \in Sides  BY DEF Playing
      <4>. QED  BY <1>2, <4>1, OtherSide, SideFacts
    <3>. QED  BY <3>1 DEF Playing
  <2>2. SwapTeams(g, order) = ChangeTeams(g, to, order)  BY <1>2 DEF SwapTeams
  <2> HIDE DEF to, ps
  <2>. QED  BY <2>1, <2>2, ChangeTeamsGoes
<1>. QED  BY <1>1, <1>2

LEMMA ShuffleTeamsPicks ==
    ASSUME NEW g, NEW order \in Orders, NEW coin \in BOOLEAN, Teamplay
    PROVE  \E to \in [Playing(g) -> Teams] :
              ShuffleTeams(g, order, coin) = ChangeTeams(g, to, order)
<1>1. PICK to \in [Playing(g) -> {"red", "blue"}] :
        ShuffleTeams(g, order, coin) = ChangeTeams(g, to, order)
  <2> DEFINE n   == Cardinality(Playing(g))
             red == (n + (IF n % 2 = 1 /\ coin THEN 1 ELSE 0)) \div 2
             before(p) == {q \in Playing(g) : order[q] < order[p]}
             to == [p \in Playing(g) |->
                      IF Cardinality(before(p)) < red THEN "red" ELSE "blue"]
  <2>1. ShuffleTeams(g, order, coin) = ChangeTeams(g, to, order)
    BY Zenon DEF ShuffleTeams
  <2> HIDE DEF red, before
  <2>2. to \in [Playing(g) -> {"red", "blue"}]  BY Zenon
  <2>. QED  BY <2>1, <2>2, Zenon
<1>2. to \in [Playing(g) -> Teams]  BY <1>1, SideFacts
<1>. QED  BY <1>1, <1>2

LEMMA ShuffleTeamsGoes ==
    ASSUME NEW g, Steady(g), NEW order \in Orders, NEW coin \in BOOLEAN
    PROVE  LET h == ShuffleTeams(g, order, coin)
           IN  Goes(g, h) /\ (Waits(g) => Waits(h))
<1>1. CASE ~Teamplay  BY <1>1, SameFrame, StillGoes DEF ShuffleTeams
<1>2. CASE Teamplay
  <2>1. PICK to \in [Playing(g) -> Teams] :
          ShuffleTeams(g, order, coin) = ChangeTeams(g, to, order)
    BY <1>2, ShuffleTeamsPicks
  <2>2. Playing(g) \in SUBSET Players  BY DEF Playing
  <2>. QED  BY <2>1, <2>2, ChangeTeamsGoes
<1>. QED  BY <1>1, <1>2

-----------------------------------------------------------------------------
(* Time.                                                                   *)

\* A room that differs in what no timer and no pause depends on is as steady.
LEMMA Alike ==
    ASSUME NEW g, Steady(g), NEW h \in Room,
           h.state = g.state, h.timer = g.timer, h.started = g.started,
           h.paused = g.paused, h.request = g.request,
           h.unbalanced \in TBALANCE_CHECK .. TeambalanceTime
    PROVE  Steady(h)
<1>1. Typed(h)  BY DEF Steady, Typed
<1>. QED  BY <1>1 DEF Steady, Paused

\* What a step of the match's own makes of a room.
Leads(g, h) == Goes(g, h) /\ (Waits(g) => Waits(h))

LEMMA LeadsTwice ==
    ASSUME NEW f, NEW g, NEW h, Leads(f, g), Leads(g, h)
    PROVE  Leads(f, h)
<1>1. Goes(f, h)  BY GoesTwice DEF Leads
<1>. QED  BY <1>1 DEF Leads

LEMMA StillLeads ==
    ASSUME NEW g, NEW h, Steady(h), Still(g, h), h.state = g.state \/ h.state # "warmup_game"
    PROVE  Leads(g, h)
<1>1. Goes(g, h)  BY StillGoes
<1>2. HasEnoughPlayers(h) = HasEnoughPlayers(g)  BY StillEnough
<1>. QED  BY <1>1, <1>2 DEF Leads, Waits

LEMMA SameLeads == ASSUME NEW g, Steady(g) PROVE Leads(g, g)
  BY SameFrame, StillLeads

LEMMA TimerFiresLeads ==
    ASSUME NEW g, Steady(g), NEW order \in Orders, NEW coin \in BOOLEAN
    PROVE  Leads(g, TimerFires(g, order, coin))
<1> DEFINE h == TimerFires(g, order, coin)
<1>0. Typed(g)  BY DEF Steady
<1>1. CASE g.state = "warmup_user"
  <2>1. h = WarmupUser(g, 0, order)  BY <1>1 DEF TimerFires
  <2> HIDE DEF h
  <2>. QED  BY <2>1, WarmupUserGoes DEF Leads, h
<1>2. CASE g.state = "start_countdown"
  <2> DEFINE k == GameRunning(g)
  <2>1. h = k  BY <1>2 DEF TimerFires
  <2>2. Steady(k) /\ Still(g, k) /\ k.state = "game_running"  BY <1>0, GameRunningSteady
  <2> HIDE DEF h, k
  <2>. QED  BY <2>1, <2>2, StillLeads DEF h
<1>3. CASE g.state = "game_paused"
  <2> DEFINE k == GamePaused(g, 0)
  <2>1. h = k  BY <1>3 DEF TimerFires
  <2>2. Steady(k) /\ Still(g, k)
        /\ (k = g \/ k.state \in {"game_paused", "start_countdown", "game_running"})
    BY GamePausedSteady
  <2> HIDE DEF h, k
  <2>. QED  BY <2>1, <2>2, StillLeads DEF h
<1>4. CASE g.state = "end_match"
  <2> DEFINE k == CASE MatchSwap = 1 -> SwapTeams(g, order)
                    [] MatchSwap = 2 -> ShuffleTeams(g, order, coin)
                    [] OTHER         -> g
             l == IF ResetOnMatchEnd THEN ResetMatch(k, order) ELSE StartMatch(k, order)
  <2>1. h = l  BY <1>4 DEF TimerFires
  <2>2. Goes(g, k)
    <3>1. k = SwapTeams(g, order) \/ k = ShuffleTeams(g, order, coin) \/ k = g
      <4>1. CASE MatchSwap = 1  BY <4>1
      <4>2. CASE MatchSwap = 2  BY <4>2
      <4>3. CASE MatchSwap \notin {1, 2}  BY <4>3
      <4>. QED  BY <4>1, <4>2, <4>3
    <3>2. Goes(g, SwapTeams(g, order))  BY SwapTeamsGoes
    <3>3. Goes(g, ShuffleTeams(g, order, coin))  BY ShuffleTeamsGoes
    <3>4. Goes(g, g)  BY SameFrame, StillGoes
    <3> HIDE DEF k
    <3>. QED  BY <3>1, <3>2, <3>3, <3>4
  <2> HIDE DEF k
  <2>3. Steady(k) /\ Typed(k)  BY <2>2 DEF Goes, Steady
  <2>4. Goes(k, l) /\ Waits(l)
    <3>1. Goes(k, ResetMatch(k, order)) /\ Waits(ResetMatch(k, order))
      BY <2>3, ResetMatchGoes
    <3>2. Goes(k, StartMatch(k, order)) /\ Waits(StartMatch(k, order))
      BY <2>3, StartMatchGoes
    <3>. QED  BY <3>1, <3>2
  <2> HIDE DEF h, l
  <2>5. Goes(g, l)  BY <2>2, <2>4, GoesTwice
  <2>. QED  BY <2>1, <2>4, <2>5 DEF Leads, h
<1>5. CASE g.state \notin {"warmup_user", "start_countdown", "game_paused", "end_match"}
  <2>1. h = g  BY <1>5 DEF TimerFires
  <2>. QED  BY <2>1, SameLeads
<1>. QED  BY <1>1, <1>2, <1>3, <1>4, <1>5

LEMMA StateTimerLeads ==
    ASSUME NEW g, Steady(g), NEW order \in Orders, NEW coin \in BOOLEAN
    PROVE  Leads(g, StateTimer(g, order, coin))
<1> DEFINE n == IF g.timer > 0 THEN g.timer - 1 ELSE g.timer
           h == [g EXCEPT !.timer = n]
<1>1. Typed(g) /\ g \in Room /\ g.timer \in Int /\ g.timer >= TIMER_INFINITE
  BY DEF Steady, Typed, Room
<1>2. n \in Int /\ n >= TIMER_INFINITE /\ (g.timer = TIMER_INFINITE => n = TIMER_INFINITE)
  BY <1>1 DEF TIMER_INFINITE
<1>3. h = [g EXCEPT !.timer = IF @ > 0 THEN @ - 1 ELSE @]  BY <1>1 DEF Room
<1>4. StateTimer(g, order, coin) =
        IF g.state = "game_running" THEN g
        ELSE IF h.timer = 0 THEN TimerFires(h, order, coin)
        ELSE IF /\ h.state = "warmup_user" /\ h.timer = TIMER_INFINITE
                /\ ~ReadyStartsMatch(h)
        THEN WarmupUser(h, h.warmup, order)
        ELSE h
  <2> HIDE DEF h
  <2>. QED  BY <1>3 DEF StateTimer
<1> HIDE DEF n
<1>5. Leads(g, h) /\ Steady(h)
  <2>1. h \in Room  BY <1>1, <1>2 DEF Room
  <2>2. /\ h.state = g.state /\ h.timer = n /\ h.started = g.started
        /\ h.paused = g.paused /\ h.request = g.request /\ h.unbalanced = g.unbalanced
    BY <1>1 DEF Room
  <2>3. Still(g, h)  BY <1>1 DEF Room, Still, Placed, Frame
  <2> HIDE DEF h
  <2>4. Typed(h)  BY <1>1, <1>2, <2>1, <2>2 DEF Typed
  <2>5. Steady(h)  BY <1>2, <2>2, <2>4 DEF Steady, Paused
  <2>. QED  BY <2>2, <2>3, <2>5, StillLeads
<1> HIDE DEF h
<1>6. Leads(h, TimerFires(h, order, coin))  BY <1>5, TimerFiresLeads
<1>7. Leads(h, WarmupUser(h, h.warmup, order))
  <2>1. h.warmup \in Int  BY <1>5, WarmupFacts
  <2>. QED  BY <1>5, <2>1, WarmupUserGoes DEF Leads
<1>8. Leads(g, TimerFires(h, order, coin)) /\ Leads(g, WarmupUser(h, h.warmup, order))
  BY <1>5, <1>6, <1>7, LeadsTwice
<1>. QED  BY <1>4, <1>5, <1>8, SameLeads

LEMMA PauseRequestLeads ==
    ASSUME NEW g, Steady(g), NEW canPause \in BOOLEAN
    PROVE  Leads(g, PauseRequest(g, canPause))
<1> DEFINE k == GamePaused(g, TIMER_INFINITE)
           h == [k EXCEPT !.request = FALSE]
<1>1. PauseRequest(g, canPause) = IF g.request /\ canPause THEN h ELSE g
  BY DEF PauseRequest
<1>2. Steady(k) /\ Still(g, k)
      /\ (k = g \/ k.state \in {"game_paused", "start_countdown", "game_running"})
  BY GamePausedSteady DEF TIMER_INFINITE
<1> HIDE DEF k
<1>3. Typed(k) /\ k \in Room  BY <1>2 DEF Steady, Typed
<1>4. h \in Room  BY <1>3 DEF Room
<1>5. /\ h.state = k.state /\ h.timer = k.timer /\ h.started = k.started
      /\ h.paused = k.paused /\ ~h.request /\ h.unbalanced = k.unbalanced
  BY <1>3 DEF Room
<1>6. Still(k, h)  BY <1>3 DEF Room, Still, Placed, Frame
<1> HIDE DEF h
<1>7. Typed(h)  BY <1>3, <1>4, <1>5 DEF Typed
<1>8. Steady(h)  BY <1>2, <1>5, <1>7 DEF Steady, Paused
<1>9. Still(g, h) /\ (h.state = g.state \/ h.state # "warmup_game")
  BY <1>2, <1>5, <1>6, StillTwice
<1>10. Leads(g, h)  BY <1>8, <1>9, StillLeads
<1>. QED  BY <1>1, <1>10, SameLeads

LEMMA BalanceTimerLeads ==
    ASSUME NEW g, Steady(g), NEW order \in Orders
    PROVE  Leads(g, BalanceTimer(g, order))
<1>1. Typed(g) /\ g \in Room /\ g.unbalanced \in TBALANCE_CHECK .. TeambalanceTime
      /\ TeambalanceTime \in Nat
  BY SettingAssumption DEF Steady, Typed
<1>2. ASSUME NEW n \in TBALANCE_CHECK .. TeambalanceTime,
             n = TBALANCE_OK => ~NeedsBalance(g)
      PROVE  Leads(g, [g EXCEPT !.unbalanced = n])
  <2> DEFINE h == [g EXCEPT !.unbalanced = n]
  <2>0. n \in Int  BY <1>2, <1>1 DEF TBALANCE_CHECK
  <2>1. h \in Room  BY <1>1, <2>0 DEF Room
  <2>2. /\ h.state = g.state /\ h.timer = g.timer /\ h.started = g.started
        /\ h.paused = g.paused /\ h.request = g.request /\ h.unbalanced = n
    BY <1>1, <2>0 DEF Room
  <2>3. Placed(g, h)  BY <1>1 DEF Room, Placed, Frame
  <2> HIDE DEF h
  <2>4. Steady(h)  BY <2>1, <2>2, Alike
  <2>5. Awake(h)
    BY <1>2, <2>2, <2>3 DEF Awake, NeedsBalance, AreTeamsUnbalanced, Placed
  <2>6. Sized(g) => Sized(h)  BY <2>3, PlacedSized
  <2>7. Goes(g, h)  BY <2>3, <2>4, <2>5, <2>6 DEF Goes, Placed
  <2>8. Waits(g) => Waits(h)  BY <2>2, <2>3, PlacedEnough DEF Waits
  <2>. QED  BY <2>7, <2>8 DEF Leads, h
<1>3. CASE ~Teamplay \/ g.unbalanced = TBALANCE_OK
  BY <1>3, SameLeads DEF BalanceTimer
<1>4. CASE Teamplay /\ g.unbalanced # TBALANCE_OK /\ g.unbalanced = TBALANCE_CHECK
  <2>1. PICK n \in {0, TBALANCE_OK} : /\ BalanceTimer(g, order) = [g EXCEPT !.unbalanced = n]
                                      /\ n = TBALANCE_OK => ~NeedsBalance(g)
    BY <1>4 DEF BalanceTimer, NeedsBalance, TBALANCE_OK
  <2>2. n \in TBALANCE_CHECK .. TeambalanceTime
    BY <1>1, <2>1 DEF TBALANCE_CHECK, TBALANCE_OK
  <2>. QED  BY <1>2, <2>1, <2>2
<1>5. CASE /\ Teamplay /\ g.unbalanced \notin {TBALANCE_OK, TBALANCE_CHECK}
           /\ g.unbalanced >= TeambalanceTime
  <2>1. BalanceTimer(g, order) = DoTeamBalance(g, order)  BY <1>5 DEF BalanceTimer
  <2>. QED  BY <2>1, DoTeamBalanceGoes DEF Leads
<1>6. CASE /\ Teamplay /\ g.unbalanced \notin {TBALANCE_OK, TBALANCE_CHECK}
           /\ ~(g.unbalanced >= TeambalanceTime)
  <2>1. BalanceTimer(g, order) = [g EXCEPT !.unbalanced = g.unbalanced + 1]
    BY <1>1, <1>6 DEF BalanceTimer, Room
  <2>2. g.unbalanced + 1 \in TBALANCE_CHECK .. TeambalanceTime /\ g.unbalanced + 1 # TBALANCE_OK
    BY <1>1, <1>6 DEF TBALANCE_CHECK, TBALANCE_OK
  <2>. QED  BY <1>2, <2>1, <2>2
<1>. QED  BY <1>3, <1>4, <1>5, <1>6

LEMMA WinCheckLeads ==
    ASSUME NEW g, Steady(g), NEW decided \in BOOLEAN
    PROVE  Leads(g, WinCheck(g, decided))
<1> DEFINE h == EndMatch(g)
<1>1. Steady(h) /\ Still(g, h) /\ (h.state = g.state \/ h.state = "end_match")
  BY EndMatchSteady
<1>2. WinCheck(g, decided) = h \/ WinCheck(g, decided) = g  BY DEF WinCheck
<1> HIDE DEF h
<1>3. Leads(g, h)  BY <1>1, StillLeads
<1>. QED  BY <1>2, <1>3, SameLeads

-----------------------------------------------------------------------------
(* Every step.                                                             *)

LEMMA LeadsFine ==
    ASSUME NEW g, NEW h, Fine(g), Leads(g, h)
    PROVE  Fine(h)
  BY DEF Fine, Leads, Goes

\* A room with another setting.
LEMMA Retuned ==
    ASSUME NEW g, Fine(g), NEW h \in Room,
           h.state = g.state, h.timer = g.timer, h.started = g.started,
           h.paused = g.paused, h.request = g.request, h.unbalanced = g.unbalanced,
           h.size = g.size, h.team = g.team, h.connecting = g.connecting
    PROVE  /\ Steady(h) /\ (Exact => Sized(h) /\ Awake(h))
           /\ h.minimumPlayers = g.minimumPlayers => Fine(h)
<1>1. Steady(h)
  <2>1. h.unbalanced \in TBALANCE_CHECK .. TeambalanceTime  BY DEF Fine, Steady, Typed
  <2>. QED  BY <2>1, Alike DEF Fine
<1>2. Exact => Sized(h) /\ Awake(h)
  <2>1. Exact => Sized(h)  BY DEF Fine, Sized, OfTeam
  <2>. QED  BY <2>1, StillAwake DEF Fine
<1>3. h.minimumPlayers = g.minimumPlayers => Waits(h)
  BY DEF Fine, Waits, HasEnoughPlayers, RealPlayerNum
<1>. QED  BY <1>1, <1>2, <1>3 DEF Fine

LEMMA TickStep ==
    ASSUME IInv, NEW canPause \in BOOLEAN, NEW coin \in BOOLEAN, NEW decided \in BOOLEAN,
           NEW order \in Orders, Tick(canPause, order, coin, decided)
    PROVE  IInv'
<1> DEFINE a == PauseRequest(room, canPause)
           b == StateTimer(a, order, coin)
           c == BalanceTimer(b, order)
           d == WinCheck(c, decided)
           h == [d EXCEPT !.reset = FALSE]
<1>1. Fine(room) /\ Steady(room)  BY DEF IInv, Fine
<1>2. Fine(a)  BY <1>1, PauseRequestLeads, LeadsFine
<1>3. room' = h  BY DEF Tick
<1> HIDE DEF a
<1>4. Fine(b)
  <2>1. Leads(a, b)  BY <1>2, StateTimerLeads DEF Fine
  <2>. QED  BY <1>2, <2>1, LeadsFine
<1> HIDE DEF b
<1>5. Fine(c)
  <2>1. Leads(b, c)  BY <1>4, BalanceTimerLeads DEF Fine
  <2>. QED  BY <1>4, <2>1, LeadsFine
<1> HIDE DEF c
<1>6. Fine(d)
  <2>1. Leads(c, d)  BY <1>5, WinCheckLeads DEF Fine
  <2>. QED  BY <1>5, <2>1, LeadsFine
<1> HIDE DEF d
<1>7. d \in Room  BY <1>6 DEF Fine, Steady, Typed
<1>8. h \in Room  BY <1>7 DEF Room
<1>9. /\ h.state = d.state /\ h.timer = d.timer /\ h.started = d.started
      /\ h.paused = d.paused /\ h.request = d.request /\ h.unbalanced = d.unbalanced
      /\ h.size = d.size /\ h.team = d.team /\ h.connecting = d.connecting
      /\ h.minimumPlayers = d.minimumPlayers
  BY <1>7 DEF Room
<1> HIDE DEF h
<1>10. Fine(h)  BY <1>6, <1>8, <1>9, Retuned
<1>. QED  BY <1>3, <1>10 DEF IInv

LEMMA StartControllerStep ==
    ASSUME IInv, NEW order \in Orders, StartController(order)
    PROVE  IInv'
<1> DEFINE s == [room EXCEPT !.started = TRUE]
           w == WarmupGame(s)
           h == TryStartWarmup(w, FALSE, order)
<1>1. Fine(room) /\ Steady(room) /\ room \in Room /\ ~room.started /\ ~room.request
  BY DEF IInv, Fine, Steady, Typed, StartController
<1>2. room' = h  BY DEF StartController
<1>3. s \in Room  BY <1>1 DEF Room
<1>4. /\ s.state = room.state /\ s.timer = room.timer /\ s.started
      /\ s.paused = room.paused /\ ~s.request /\ s.unbalanced = room.unbalanced
      /\ s.size = room.size /\ s.team = room.team /\ s.connecting = room.connecting
  BY <1>1 DEF Room
<1> HIDE DEF s
<1>5. Steady(s)
  <2>1. Typed(s)  BY <1>1, <1>3, <1>4 DEF Steady, Typed
  <2>. QED  BY <1>1, <1>4, <2>1 DEF Steady, Paused
<1>6. (Sized(room) => Sized(s)) /\ (Awake(room) => Awake(s))
  <2>1. Sized(room) => Sized(s)  BY <1>4 DEF Sized, OfTeam
  <2>. QED  BY <1>4, <2>1, StillAwake
<1>7. Steady(w) /\ Still(s, w)  BY <1>4, <1>5, WarmupGameSteady
<1> HIDE DEF w
<1>8. Goes(w, h) /\ Waits(h)  BY <1>7, TryStartWarmupGoes
<1> HIDE DEF h
<1>9. Goes(s, h)  BY <1>7, <1>8, StillGoes, GoesTwice
<1>10. Fine(h)  BY <1>1, <1>6, <1>8, <1>9 DEF Fine, Goes
<1>. QED  BY <1>2, <1>10 DEF IInv

LEMMA SoftReloadStep == ASSUME IInv, SoftReload PROVE IInv'
<1> DEFINE h == [room EXCEPT !.started = FALSE, !.paused = FALSE, !.reset = FALSE,
                             !.request = FALSE]
<1>1. Fine(room) /\ Typed(room) /\ room \in Room  BY DEF IInv, Fine, Steady, Typed
<1>2. room' = h /\ Reloads  BY DEF SoftReload
<1>3. h \in Room  BY <1>1 DEF Room
<1>4. /\ h.state = room.state /\ h.timer = room.timer /\ ~h.request
      /\ h.unbalanced = room.unbalanced
  BY <1>1 DEF Room
<1>6. /\ h.size = room.size /\ h.team = room.team /\ h.connecting = room.connecting
      /\ h.minimumPlayers = room.minimumPlayers
  BY <1>1 DEF Room
<1> HIDE DEF h
<1>7. Typed(h)  BY <1>1, <1>3, <1>4 DEF Typed
<1>8. Steady(h)  BY <1>1, <1>2, <1>4, <1>7 DEF Fine, Steady
<1>9. Waits(h)  BY <1>1, <1>4, <1>6 DEF Fine, Waits, HasEnoughPlayers, RealPlayerNum
<1>10. Exact => Sized(h) /\ Awake(h)
  <2>1. Exact => Sized(h)  BY <1>1, <1>6 DEF Fine, Sized, OfTeam
  <2>. QED  BY <1>1, <1>4, <1>6, <2>1, StillAwake DEF Fine
<1>11. Fine(h)  BY <1>8, <1>9, <1>10 DEF Fine
<1>. QED  BY <1>2, <1>11 DEF IInv

LEMMA ConnectStep ==
    ASSUME IInv, NEW p \in Players, NEW t \in Teams, Connect(p, t)
    PROVE  IInv'
<1> DEFINE m == [room.team EXCEPT ![p] = t]
           r == [room.ready EXCEPT ![p] = FALSE]
           c == room.connecting \cup {p}
           h == [room EXCEPT !.team = m, !.ready = r, !.connecting = c]
<1>1. Fine(room) /\ Steady(room) /\ room \in Room  BY DEF IInv, Fine, Steady, Typed
<1>2. /\ m \in [Players -> Teams \cup {"out"}] /\ r \in [Players -> BOOLEAN]
      /\ c \in SUBSET Players
  BY <1>1 DEF Room
<1>3. room' = h  BY <1>1 DEF Connect, Room
<1>4. ~Exact  BY Zenon DEF Exact, Connect
<1> HIDE DEF m, r, c
<1>5. h \in Room  BY <1>1, <1>2 DEF Room
<1>6. /\ h.state = room.state /\ h.timer = room.timer /\ h.started = room.started
      /\ h.paused = room.paused /\ h.request = room.request
      /\ h.unbalanced = room.unbalanced /\ h.size = room.size
      /\ h.minimumPlayers = room.minimumPlayers
  BY <1>1 DEF Room
<1> HIDE DEF h
<1>7. h.unbalanced \in TBALANCE_CHECK .. TeambalanceTime
  BY <1>1, <1>6 DEF Steady, Typed
<1>8. Steady(h)  BY <1>1, <1>5, <1>6, <1>7, Alike
<1>9. Waits(h)  BY <1>1, <1>6 DEF Fine, Waits, HasEnoughPlayers, RealPlayerNum
<1>10. Fine(h)  BY <1>4, <1>8, <1>9 DEF Fine
<1>. QED  BY <1>3, <1>10 DEF IInv

LEMMA DropConnectingStep ==
    ASSUME IInv, NEW p \in Players, NEW order \in Orders, DropConnecting(p, order)
    PROVE  IInv'
<1> DEFINE m == [room.team EXCEPT ![p] = "out"]
           r == [room.ready EXCEPT ![p] = FALSE]
           c == room.connecting \ {p}
           h == [room EXCEPT !.team = m, !.ready = r, !.connecting = c]
<1>1. Fine(room) /\ Steady(room) /\ room \in Room  BY DEF IInv, Fine, Steady, Typed
<1>2. /\ m \in [Players -> Teams \cup {"out"}] /\ r \in [Players -> BOOLEAN]
      /\ c \in SUBSET Players
  BY <1>1 DEF Room
<1>3. room' = h  BY <1>1 DEF DropConnecting, Room
<1>4. ~Exact
  <2>1. room.connecting # {}  BY DEF DropConnecting
  <2>. QED  BY <1>1, <2>1 DEF Fine, Sized
<1> HIDE DEF m, r, c
<1>5. h \in Room  BY <1>1, <1>2 DEF Room
<1>6. /\ h.state = room.state /\ h.timer = room.timer /\ h.started = room.started
      /\ h.paused = room.paused /\ h.request = room.request
      /\ h.unbalanced = room.unbalanced /\ h.size = room.size
      /\ h.minimumPlayers = room.minimumPlayers
  BY <1>1 DEF Room
<1> HIDE DEF h
<1>7. h.unbalanced \in TBALANCE_CHECK .. TeambalanceTime
  BY <1>1, <1>6 DEF Steady, Typed
<1>8. Steady(h)  BY <1>1, <1>5, <1>6, <1>7, Alike
<1>9. Waits(h)  BY <1>1, <1>6 DEF Fine, Waits, HasEnoughPlayers, RealPlayerNum
<1>10. Fine(h)  BY <1>4, <1>8, <1>9 DEF Fine
<1>. QED  BY <1>3, <1>10 DEF IInv

\* Where a player goes that joins, before the match is looked at
JoinsAs(g, p, t) ==
    /\ g \in Room /\ Steady(g)
    /\ g.state = room.state /\ g.timer = room.timer /\ g.readyMode = room.readyMode
    /\ g.team = [room.team EXCEPT ![p] = t]
    /\ g.ready = [room.ready EXCEPT ![p] = ~IsPlayerReadyMode(room)]
    /\ g.connecting = room.connecting \ {p}
    /\ g.size = [u \in Sides |-> IF u = t THEN room.size[u] + 1 ELSE room.size[u]]
    /\ g.unbalanced = IF t \in Sides THEN TBALANCE_CHECK ELSE room.unbalanced

LEMMA JoinFacts ==
    ASSUME Steady(room), NEW p \in Players, NEW order \in Orders, Join(p, order)
    PROVE  \E g, t : /\ t \in Teams /\ JoinsAs(g, p, t)
                     /\ room' = TryStartWarmup(g, FALSE, order)
<1> DEFINE t == GetStartTeam(room)
           m == [room.team EXCEPT ![p] = t]
           b == ~IsPlayerReadyMode(room)
           r == [room.ready EXCEPT ![p] = b]
           c == room.connecting \ {p}
           s == [u \in Sides |-> IF u = t THEN room.size[u] + 1 ELSE room.size[u]]
           n == IF t \in Sides THEN TBALANCE_CHECK ELSE room.unbalanced
           g == [room EXCEPT !.team = m, !.ready = r, !.connecting = c,
                             !.size = s, !.unbalanced = n]
           h == TryStartWarmup(g, FALSE, order)
<1>1. room \in Room /\ room.unbalanced \in TBALANCE_CHECK .. TeambalanceTime
  BY DEF Steady, Typed
<1>2. t \in Teams
  BY DEF GetStartTeam, Teams, Sides
<1>3. /\ room.team \in [Players -> Teams \cup {"out"}] /\ room.ready \in [Players -> BOOLEAN]
      /\ room.size \in [Sides -> Int] /\ room.connecting \in SUBSET Players
  BY <1>1 DEF Room
<1>4. room' = h
  <2>1. CASE t \in Sides
    <3>1. s = [room.size EXCEPT ![t] = @ + 1]  BY <1>3
    <3>3. [[room EXCEPT !.team[p] = t, !.ready[p] = ~IsPlayerReadyMode(room),
                        !.connecting = @ \ {p}]
             EXCEPT !.size[t] = @ + 1, !.unbalanced = TBALANCE_CHECK] = g
      <4> HIDE DEF t, s
      <4>. QED  BY <1>1, <2>1, <3>1 DEF Room
    <3> HIDE DEF t, g
    <3>. QED  BY <2>1, <3>3 DEF Join, t
  <2>2. CASE t \notin Sides
    <3>1. s = room.size /\ n = room.unbalanced  BY <1>3, <2>2
    <3>2. g = [room EXCEPT !.team[p] = t, !.ready[p] = ~IsPlayerReadyMode(room),
                           !.connecting = @ \ {p}]
      <4> HIDE DEF t, s, n
      <4>. QED  BY <1>1, <3>1 DEF Room
    <3> HIDE DEF t, g
    <3>. QED  BY <2>2, <3>2 DEF Join, t
  <2>. QED  BY <2>1, <2>2
<1>5. b \in BOOLEAN  BY DEF IsPlayerReadyMode
<1>6. n \in Int /\ n \in TBALANCE_CHECK .. TeambalanceTime
  <2>1. TBALANCE_CHECK \in TBALANCE_CHECK .. TeambalanceTime
    BY SettingAssumption DEF TBALANCE_CHECK
  <2>2. TeambalanceTime \in Int  BY SettingAssumption
  <2>. QED  BY <1>1, <2>1, <2>2 DEF TBALANCE_CHECK
<1> HIDE DEF t, b, n
<1>7. /\ m \in [Players -> Teams \cup {"out"}] /\ r \in [Players -> BOOLEAN]
      /\ c \in SUBSET Players /\ s \in [Sides -> Int]
  BY <1>2, <1>3, <1>5
<1> HIDE DEF r, c, s
<1>10. g \in Room
  <2> HIDE DEF m
  <2>. QED  BY <1>1, <1>6, <1>7 DEF Room
<1>11. /\ g.state = room.state /\ g.timer = room.timer /\ g.started = room.started
       /\ g.paused = room.paused /\ g.request = room.request /\ g.unbalanced = n
       /\ g.size = s /\ g.team = m /\ g.connecting = c
       /\ g.ready = r /\ g.readyMode = room.readyMode
  BY <1>1 DEF Room
<1> HIDE DEF g
<1>12. Steady(g)  BY <1>1, <1>6, <1>10, <1>11, Alike
<1> HIDE DEF h
<1>13. JoinsAs(g, p, t)
  BY <1>10, <1>11, <1>12 DEF JoinsAs, m, b, r, c, s, n
<1>. QED  BY <1>2, <1>4, <1>13 DEF h

LEMMA JoinSized ==
    ASSUME IInv, NEW p \in Players, NEW order \in Orders, Join(p, order),
           NEW g, NEW t \in Teams, JoinsAs(g, p, t)
    PROVE  Steady(g) /\ (Exact => Sized(g) /\ Awake(g))
<1>1. Fine(room) /\ Steady(room) /\ room \in Room
  BY DEF IInv, Fine, Steady, Typed
<1>3. /\ Steady(g) /\ g.team = [room.team EXCEPT ![p] = t]
      /\ g.connecting = room.connecting \ {p}
      /\ g.unbalanced = IF t \in Sides THEN TBALANCE_CHECK ELSE room.unbalanced
      /\ g.size = [u \in Sides |-> IF u = t THEN room.size[u] + 1 ELSE room.size[u]]
  BY DEF JoinsAs
<1>4. \A u \in Sides : g.size[u] = IF u = t THEN room.size[u] + 1 ELSE room.size[u]
  BY <1>3
<1>5. Exact => room.team[p] = "out" /\ Sized(room)
  BY <1>1 DEF Fine, Sized, Join
<1>6. room.size \in [Sides -> Int]  BY <1>1 DEF Room
<1>7. Exact => Sized(g)
  <2> SUFFICES ASSUME Exact PROVE Sized(g)
    OBVIOUS
  <2>1. g.connecting = {} /\ room.team[p] = "out" /\ Sized(room)
    BY <1>3, <1>5 DEF Sized
  <2>2. ASSUME NEW u \in Sides
        PROVE  g.size[u] = room.size[u] - (IF u = room.team[p] THEN 1 ELSE 0)
                                        + (IF u = t THEN 1 ELSE 0)
    <3>1. u # room.team[p]  BY <2>1, SideFacts
    <3>2. room.size[u] \in Int  BY <1>6
    <3>. QED  BY <1>4, <3>1, <3>2
  <2>3. Moved(room, g, p, t)  BY <1>3, <2>2 DEF Moved
  <2>. QED  BY <1>1, <2>1, <2>3, Counted
<1>8. Exact => Awake(g)
  <2>1. CASE t \in Sides
    BY <1>3, <2>1 DEF Awake, TBALANCE_CHECK, TBALANCE_OK
  <2>2. CASE t \notin Sides
    <3>1. g.size = room.size  BY <1>3, <1>6, <2>2
    <3>2. g.unbalanced = room.unbalanced  BY <1>3, <2>2
    <3>. QED  BY <1>1, <3>1, <3>2, StillAwake DEF Fine
  <2>. QED  BY <2>1, <2>2
<1>. QED  BY <1>3, <1>7, <1>8

LEMMA JoinStep ==
    ASSUME IInv, NEW p \in Players, NEW order \in Orders, Join(p, order)
    PROVE  IInv'
<1>1. Steady(room)  BY DEF IInv, Fine
<1>2. PICK g, t : /\ t \in Teams /\ JoinsAs(g, p, t)
                  /\ room' = TryStartWarmup(g, FALSE, order)
  BY <1>1, JoinFacts
<1> DEFINE h == TryStartWarmup(g, FALSE, order)
<1>3. Steady(g) /\ (Exact => Sized(g) /\ Awake(g))  BY <1>2, JoinSized
<1>4. Goes(g, h) /\ Waits(h)  BY <1>3, TryStartWarmupGoes
<1> HIDE DEF h
<1>5. Fine(h)  BY <1>3, <1>4 DEF Fine, Goes
<1>. QED  BY <1>2, <1>5 DEF IInv, h

\* What the match looks at when a player leaves, who still is in the room
LeavesAs(g, p) ==
    /\ g \in Room /\ Steady(g)
    /\ g.state = room.state /\ g.timer = room.timer /\ g.started = room.started
    /\ g.team = room.team /\ g.connecting = room.connecting
    /\ g.size = [u \in Sides |-> IF u = room.team[p] THEN room.size[u] - 1 ELSE room.size[u]]
    /\ g.unbalanced = IF room.team[p] \in Sides THEN TBALANCE_CHECK ELSE room.unbalanced

LEMMA LeaveFacts ==
    ASSUME Steady(room), NEW p \in Players, NEW order \in Orders, Leave(p, order)
    PROVE  \E g : /\ LeavesAs(g, p)
                  /\ room' = [TryStartWarmup(CheckReadyStates(g, {p}, order), TRUE, order)
                                EXCEPT !.team[p] = "out", !.ready[p] = FALSE]
<1> DEFINE t == room.team[p]
           s == [u \in Sides |-> IF u = t THEN room.size[u] - 1 ELSE room.size[u]]
           n == IF t \in Sides THEN TBALANCE_CHECK ELSE room.unbalanced
           g == [room EXCEPT !.size = s, !.unbalanced = n]
           c == CheckReadyStates(g, {p}, order)
           h == TryStartWarmup(c, TRUE, order)
<1>1. room \in Room /\ room.unbalanced \in TBALANCE_CHECK .. TeambalanceTime
  BY DEF Steady, Typed
<1>2. room.size \in [Sides -> Int]  BY <1>1 DEF Room
<1>3. room' = [h EXCEPT !.team[p] = "out", !.ready[p] = FALSE]
  <2>1. CASE t \in Sides
    <3>1. s = [room.size EXCEPT ![t] = @ - 1]  BY <1>2
    <3>2. [room EXCEPT !.size[t] = @ - 1, !.unbalanced = TBALANCE_CHECK] = g
      <4> HIDE DEF t, s
      <4>. QED  BY <1>1, <2>1, <3>1 DEF Room
    <3> HIDE DEF t, g
    <3>. QED  BY <2>1, <3>2 DEF Leave, t
  <2>2. CASE t \notin Sides
    <3>1. s = room.size /\ n = room.unbalanced  BY <1>2, <2>2
    <3>2. g = room
      <4> HIDE DEF t, s, n
      <4>. QED  BY <1>1, <3>1 DEF Room
    <3> HIDE DEF t, g
    <3>. QED  BY <2>2, <3>2 DEF Leave, t
  <2>. QED  BY <2>1, <2>2
<1>4. n \in Int /\ n \in TBALANCE_CHECK .. TeambalanceTime
  <2>1. TBALANCE_CHECK \in TBALANCE_CHECK .. TeambalanceTime
    BY SettingAssumption DEF TBALANCE_CHECK
  <2>2. TeambalanceTime \in Int  BY SettingAssumption
  <2>. QED  BY <1>1, <2>1, <2>2 DEF TBALANCE_CHECK
<1> HIDE DEF n
<1>5. s \in [Sides -> Int]  BY <1>2
<1> HIDE DEF s
<1>6. g \in Room  BY <1>1, <1>4, <1>5 DEF Room
<1>7. /\ g.state = room.state /\ g.timer = room.timer /\ g.started = room.started
      /\ g.paused = room.paused /\ g.request = room.request /\ g.unbalanced = n
      /\ g.size = s /\ g.team = room.team /\ g.connecting = room.connecting
  BY <1>1 DEF Room
<1> HIDE DEF g
<1>8. Steady(g)  BY <1>1, <1>4, <1>6, <1>7, Alike
<1> HIDE DEF c, h
<1>9. LeavesAs(g, p)  BY <1>6, <1>7, <1>8 DEF LeavesAs, t, s, n
<1>. QED  BY <1>3, <1>9 DEF c, h

LEMMA LeaveStep ==
    ASSUME IInv, NEW p \in Players, NEW order \in Orders, Leave(p, order)
    PROVE  IInv'
<1>1. Fine(room) /\ Steady(room) /\ room \in Room  BY DEF IInv, Fine, Steady, Typed
<1>2. PICK g : /\ LeavesAs(g, p)
               /\ room' = [TryStartWarmup(CheckReadyStates(g, {p}, order), TRUE, order)
                             EXCEPT !.team[p] = "out", !.ready[p] = FALSE]
  BY <1>1, LeaveFacts
<1> DEFINE t == room.team[p]
           c == CheckReadyStates(g, {p}, order)
           h == TryStartWarmup(c, TRUE, order)
           m == [h.team EXCEPT ![p] = "out"]
           r == [h.ready EXCEPT ![p] = FALSE]
           f == [h EXCEPT !.team = m, !.ready = r]
<1>3. room' = [h EXCEPT !.team[p] = "out", !.ready[p] = FALSE]  BY <1>2
<1>4. room.size \in [Sides -> Int]  BY <1>1 DEF Room
<1>5. /\ Steady(g) /\ g.team = room.team /\ g.connecting = room.connecting
      /\ g.size = [u \in Sides |-> IF u = t THEN room.size[u] - 1 ELSE room.size[u]]
      /\ g.unbalanced = IF t \in Sides THEN TBALANCE_CHECK ELSE room.unbalanced
  BY <1>2 DEF LeavesAs
<1>9. Steady(c) /\ (Exact => Still(g, c))  BY <1>5, CheckReadyStatesGoes DEF Goes
<1> HIDE DEF c
<1>10. Steady(h) /\ Waits(h) /\ (Exact => Still(c, h))  BY <1>9, TryStartWarmupGoes DEF Goes
<1>11. h \in Room /\ h.unbalanced \in TBALANCE_CHECK .. TeambalanceTime
  BY <1>10 DEF Steady, Typed
<1> HIDE DEF h
<1>12. m \in [Players -> Teams \cup {"out"}] /\ r \in [Players -> BOOLEAN]
  BY <1>11 DEF Room
<1>13. room' = f  BY <1>3, <1>11 DEF Room
<1> HIDE DEF m, r
<1>14. f \in Room  BY <1>11, <1>12 DEF Room
<1>15. /\ f.state = h.state /\ f.timer = h.timer /\ f.started = h.started
       /\ f.paused = h.paused /\ f.request = h.request /\ f.unbalanced = h.unbalanced
       /\ f.size = h.size /\ f.team = m /\ f.connecting = h.connecting
       /\ f.minimumPlayers = h.minimumPlayers
  BY <1>11 DEF Room
<1> HIDE DEF f
<1>16. Steady(f)  BY <1>10, <1>11, <1>14, <1>15, Alike
<1>17. Waits(f)  BY <1>10, <1>15 DEF Waits, HasEnoughPlayers, RealPlayerNum
<1>18. Exact => Sized(f)
  <2> SUFFICES ASSUME Exact PROVE Sized(f)
    OBVIOUS
  <2>1. Sized(room)  BY <1>1 DEF Fine
  <2>2. Still(g, h)  BY <1>9, <1>10, StillTwice
  <2>3. h.size = g.size /\ h.team = room.team /\ h.connecting = room.connecting
    BY <1>5, <2>2 DEF Still, Placed, Frame
  <2>4. f.connecting = {}  BY <1>15, <2>1, <2>3 DEF Sized
  <2>5. f.team = [room.team EXCEPT ![p] = "out"]  BY <1>15, <2>3 DEF m
  <2>6. ASSUME NEW u \in Sides
        PROVE  f.size[u] = room.size[u] - (IF u = room.team[p] THEN 1 ELSE 0)
                                        + (IF u = "out" THEN 1 ELSE 0)
    <3>1. u # "out"  BY SideFacts
    <3>2. room.size[u] \in Int  BY <1>4
    <3>3. f.size[u] = IF u = t THEN room.size[u] - 1 ELSE room.size[u]
      BY <1>5, <1>15, <2>3
    <3>. QED  BY <3>1, <3>2, <3>3
  <2>7. Moved(room, f, p, "out")  BY <2>5, <2>6 DEF Moved
  <2>. QED  BY <1>1, <2>1, <2>4, <2>7, Counted
<1>19. Exact => Awake(f)
  <2> SUFFICES ASSUME Exact PROVE Awake(f)
    OBVIOUS
  <2>1. Still(g, h)  BY <1>9, <1>10, StillTwice
  <2>2. f.size = g.size /\ f.unbalanced = g.unbalanced  BY <1>15, <2>1 DEF Still, Placed
  <2>3. CASE t \in Sides
    BY <1>5, <2>2, <2>3 DEF Awake, TBALANCE_CHECK, TBALANCE_OK
  <2>4. CASE t \notin Sides
    <3>1. g.size = room.size  BY <1>4, <1>5, <2>4
    <3>2. g.unbalanced = room.unbalanced  BY <1>5, <2>4
    <3>. QED  BY <1>1, <2>2, <3>1, <3>2, StillAwake DEF Fine
  <2>. QED  BY <2>3, <2>4
<1>20. Fine(f)  BY <1>16, <1>17, <1>18, <1>19 DEF Fine
<1>. QED  BY <1>13, <1>20 DEF IInv

\* A step that leads on from the room as it is
LEMMA LeadsStep == ASSUME IInv, Leads(room, room') PROVE IInv'
  BY LeadsFine DEF IInv

LEMMA TeamChangeStep ==
    ASSUME IInv, NEW p \in Players, NEW t \in Teams, NEW order \in Orders,
           ChangeTeam(p, t, order) \/ ForceTeam(p, t, order)
    PROVE  IInv'
<1>1. Steady(room)  BY DEF IInv, Fine
<1>2. room' = DoTeamChange(room, p, t, order)  BY DEF ChangeTeam, ForceTeam
<1>3. Leads(room, room')  BY <1>1, <1>2, DoTeamChangeGoes DEF Leads
<1>. QED  BY <1>3, LeadsStep

LEMMA ReadyChangeFacts ==
    ASSUME IInv, NEW p \in Players, NEW order \in Orders, OnPlayerReadyChange(p, order)
    PROVE  \E g \in Room : /\ Fine(g) /\ room' = CheckReadyStates(g, {}, order)
                           /\ g.state = room.state /\ g.size = room.size
<1>0. Fine(room) /\ Steady(room) /\ room \in Room /\ room.started
  BY DEF IInv, Fine, Steady, Typed, OnPlayerReadyChange
<1>1. CASE room.state = "game_running" /\ room.ready[p]
  <2> DEFINE g == [room EXCEPT !.request = TRUE]
  <2>1. room' = CheckReadyStates(g, {}, order)  BY <1>1 DEF OnPlayerReadyChange
  <2>2. g \in Room  BY <1>0 DEF Room
  <2>3. /\ g.state = room.state /\ g.timer = room.timer /\ g.started = room.started
        /\ g.paused = room.paused /\ g.unbalanced = room.unbalanced
        /\ g.size = room.size /\ g.team = room.team /\ g.connecting = room.connecting
    BY <1>0 DEF Room
  <2> HIDE DEF g
  <2>4. Typed(g)  BY <1>0, <2>2, <2>3 DEF Steady, Typed
  <2>5. Steady(g)  BY <1>0, <1>1, <2>3, <2>4 DEF Steady, Paused
  <2>6. Waits(g)  BY <1>1, <2>3 DEF Waits
  <2>7. Exact => Sized(g) /\ Awake(g)
    <3>1. Exact => Sized(g)  BY <1>0, <2>3 DEF Fine, Sized, OfTeam
    <3>. QED  BY <1>0, <2>3, <3>1, StillAwake DEF Fine
  <2>8. Fine(g)  BY <2>5, <2>6, <2>7 DEF Fine
  <2>. QED  BY <2>1, <2>2, <2>3, <2>8
<1>2. CASE ~(room.state = "game_running" /\ room.ready[p])
  <2> DEFINE r == [room.ready EXCEPT ![p] = ~@]
             g == [room EXCEPT !.ready = r]
  <2>1. room' = CheckReadyStates(g, {}, order)
    <3>1. g = [room EXCEPT !.ready[p] = ~@]  BY <1>0 DEF Room
    <3> HIDE DEF g
    <3>. QED  BY <1>2, <3>1 DEF OnPlayerReadyChange
  <2>2. r \in [Players -> BOOLEAN]  BY <1>0 DEF Room
  <2> HIDE DEF r
  <2>3. g \in Room  BY <1>0, <2>2 DEF Room
  <2>4. /\ g.state = room.state /\ g.timer = room.timer /\ g.started = room.started
        /\ g.paused = room.paused /\ g.request = room.request
        /\ g.unbalanced = room.unbalanced /\ g.size = room.size /\ g.team = room.team
        /\ g.connecting = room.connecting /\ g.minimumPlayers = room.minimumPlayers
    BY <1>0 DEF Room
  <2> HIDE DEF g
  <2>5. Fine(g)  BY <1>0, <2>3, <2>4, Retuned
  <2>. QED  BY <2>1, <2>3, <2>4, <2>5
<1>. QED  BY <1>1, <1>2

LEMMA ReadyChangeStep ==
    ASSUME IInv, NEW p \in Players, NEW order \in Orders, OnPlayerReadyChange(p, order)
    PROVE  IInv'
<1>1. PICK g \in Room : Fine(g) /\ room' = CheckReadyStates(g, {}, order)
  BY ReadyChangeFacts
<1>2. Steady(g)  BY <1>1 DEF Fine
<1>3. Leads(g, room')  BY <1>1, <1>2, CheckReadyStatesGoes DEF Leads
<1>4. Fine(room')  BY <1>1, <1>3, LeadsFine
<1>. QED  BY <1>4 DEF IInv

LEMMA ConPauseStep ==
    ASSUME IInv, NEW s \in Seconds, ConPause(s)
    PROVE  IInv'
<1> DEFINE h == GamePaused(room, s)
<1>1. Steady(room)  BY DEF IInv, Fine
<1>2. s \in Int /\ s >= -1  BY SettingAssumption
<1>3. Steady(h) /\ Still(room, h)
      /\ (h = room \/ h.state \in {"game_paused", "start_countdown", "game_running"})
  BY <1>1, <1>2, GamePausedSteady
<1>4. room' = h  BY DEF ConPause
<1> HIDE DEF h
<1>5. Leads(room, room')  BY <1>3, <1>4, StillLeads
<1>. QED  BY <1>5, LeadsStep

LEMMA ConRestartStep ==
    ASSUME IInv, NEW s \in Seconds, NEW order \in Orders, ConRestart(s, order)
    PROVE  IInv'
<1> DEFINE h == GameRunning(room)
<1>1. Steady(room) /\ Typed(room)  BY DEF IInv, Fine, Steady
<1>2. s \in Int  BY SettingAssumption
<1>3. Leads(room, WarmupUser(room, s, order))  BY <1>1, <1>2, WarmupUserGoes DEF Leads
<1>4. Leads(room, h)
  <2>1. Steady(h) /\ Still(room, h) /\ h.state = "game_running"  BY <1>1, GameRunningSteady
  <2> HIDE DEF h
  <2>. QED  BY <2>1, StillLeads
<1>5. room' = WarmupUser(room, s, order) \/ room' = h \/ room' = room
  BY DEF ConRestart
<1> HIDE DEF h
<1>6. Leads(room, room')  BY <1>1, <1>3, <1>4, <1>5, SameLeads
<1>. QED  BY <1>6, LeadsStep

LEMMA ConTeamsStep ==
    ASSUME IInv, NEW order \in Orders,
           \/ ConSwapTeams(order)
           \/ \E coin \in BOOLEAN : ConShuffleTeams(order, coin)
           \/ \E t \in Teams : ConSetTeamAll(t, order)
    PROVE  IInv'
<1>1. Steady(room)  BY DEF IInv, Fine
<1>2. CASE ConSwapTeams(order)
  <2>1. room' = SwapTeams(room, order)  BY <1>2 DEF ConSwapTeams
  <2>2. Leads(room, room')  BY <1>1, <2>1, SwapTeamsGoes DEF Leads
  <2>. QED  BY <2>2, LeadsStep
<1>3. ASSUME NEW coin \in BOOLEAN, ConShuffleTeams(order, coin) PROVE IInv'
  <2>1. room' = ShuffleTeams(room, order, coin)  BY <1>3 DEF ConShuffleTeams
  <2>2. Leads(room, room')  BY <1>1, <2>1, ShuffleTeamsGoes DEF Leads
  <2>. QED  BY <2>2, LeadsStep
<1>4. ASSUME NEW t \in Teams, ConSetTeamAll(t, order) PROVE IInv'
  <2> DEFINE ps == InRoom(room)
             to == [p \in ps |-> t]
  <2>1. room' = ChangeTeams(room, to, order)  BY <1>4 DEF ConSetTeamAll
  <2>2. ps \in SUBSET Players /\ to \in [ps -> Teams]  BY DEF InRoom
  <2> HIDE DEF ps, to
  <2>3. Leads(room, room')  BY <1>1, <2>1, <2>2, ChangeTeamsGoes DEF Leads
  <2>. QED  BY <2>3, LeadsStep
<1>. QED  BY <1>2, <1>3, <1>4

LEMMA SetWarmupStep ==
    ASSUME IInv, NEW n \in Warmups, SetWarmup(n)
    PROVE  IInv'
<1> DEFINE h == [room EXCEPT !.warmup = n]
<1>1. Fine(room) /\ room \in Room  BY DEF IInv, Fine, Steady, Typed
<1>2. room' = h  BY DEF SetWarmup
<1>3. h \in Room  BY <1>1 DEF Room
<1>4. /\ h.state = room.state /\ h.timer = room.timer /\ h.started = room.started
      /\ h.paused = room.paused /\ h.request = room.request
      /\ h.unbalanced = room.unbalanced /\ h.size = room.size /\ h.team = room.team
      /\ h.connecting = room.connecting /\ h.minimumPlayers = room.minimumPlayers
  BY <1>1 DEF Room
<1> HIDE DEF h
<1>5. Fine(h)  BY <1>1, <1>3, <1>4, Retuned
<1>. QED  BY <1>2, <1>5 DEF IInv

LEMMA SetReadyModeStep ==
    ASSUME IInv, NEW n \in ReadyModes, SetReadyMode(n)
    PROVE  IInv'
<1> DEFINE h == [room EXCEPT !.readyMode = n]
<1>1. Fine(room) /\ room \in Room  BY DEF IInv, Fine, Steady, Typed
<1>2. room' = h  BY DEF SetReadyMode
<1>3. h \in Room  BY <1>1 DEF Room
<1>4. /\ h.state = room.state /\ h.timer = room.timer /\ h.started = room.started
      /\ h.paused = room.paused /\ h.request = room.request
      /\ h.unbalanced = room.unbalanced /\ h.size = room.size /\ h.team = room.team
      /\ h.connecting = room.connecting /\ h.minimumPlayers = room.minimumPlayers
  BY <1>1 DEF Room
<1> HIDE DEF h
<1>5. Fine(h)  BY <1>1, <1>3, <1>4, Retuned
<1>. QED  BY <1>2, <1>5 DEF IInv

LEMMA SetMinimumPlayersStep ==
    ASSUME IInv, NEW n \in Minimums, NEW order \in Orders, SetMinimumPlayers(n, order)
    PROVE  IInv'
<1> DEFINE g == [room EXCEPT !.minimumPlayers = n]
           h == TryStartWarmup(g, TRUE, order)
<1>1. Fine(room) /\ room \in Room  BY DEF IInv, Fine, Steady, Typed
<1>2. room' = h  BY DEF SetMinimumPlayers
<1>3. g \in Room  BY <1>1 DEF Room
<1>4. /\ g.state = room.state /\ g.timer = room.timer /\ g.started = room.started
      /\ g.paused = room.paused /\ g.request = room.request
      /\ g.unbalanced = room.unbalanced /\ g.size = room.size /\ g.team = room.team
      /\ g.connecting = room.connecting
  BY <1>1 DEF Room
<1> HIDE DEF g
<1>5. Steady(g) /\ (Exact => Sized(g) /\ Awake(g))  BY <1>1, <1>3, <1>4, Retuned
<1>6. Goes(g, h) /\ Waits(h)  BY <1>5, TryStartWarmupGoes
<1> HIDE DEF h
<1>7. Fine(h)  BY <1>5, <1>6 DEF Fine, Goes
<1>. QED  BY <1>2, <1>7 DEF IInv

LEMMA SetCountdownStep ==
    ASSUME IInv, NEW n \in Countdowns, SetCountdown(n)
    PROVE  IInv'
<1> DEFINE g == [room EXCEPT !.countdown = n]
           h == StartCountdown(g)
<1>1. Fine(room) /\ room \in Room  BY DEF IInv, Fine, Steady, Typed
<1>2. room' = h \/ room' = g  BY DEF SetCountdown
<1>3. g \in Room  BY <1>1 DEF Room
<1>4. /\ g.state = room.state /\ g.timer = room.timer /\ g.started = room.started
      /\ g.paused = room.paused /\ g.request = room.request
      /\ g.unbalanced = room.unbalanced /\ g.size = room.size /\ g.team = room.team
      /\ g.connecting = room.connecting /\ g.minimumPlayers = room.minimumPlayers
  BY <1>1 DEF Room
<1> HIDE DEF g
<1>5. Fine(g)  BY <1>1, <1>3, <1>4, Retuned
<1>6. Steady(h) /\ Still(g, h) /\ (h = g \/ h.state \in {"start_countdown", "game_running"})
  BY <1>5, StartCountdownSteady DEF Fine
<1> HIDE DEF h
<1>7. Leads(g, h)  BY <1>6, StillLeads
<1>8. Fine(h)  BY <1>5, <1>7, LeadsFine
<1>. QED  BY <1>2, <1>5, <1>8 DEF IInv

-----------------------------------------------------------------------------
(* The invariant holds.                                                    *)

LEMMA InitStep == Init => IInv
<1> SUFFICES ASSUME Init PROVE IInv
  OBVIOUS
<1> DEFINE m == [p \in Players |-> "out"]
           z == [t \in Sides |-> 0]
           r == [p \in Players |-> FALSE]
<1>1. /\ room.state = "game_running" /\ room.timer = TIMER_INFINITE /\ ~room.started
      /\ ~room.paused /\ ~room.request /\ room.unbalanced = TBALANCE_OK
      /\ room.size = z /\ room.team = m /\ room.connecting = {}
  BY DEF Init
<1>2. room \in Room
  <2>1. /\ m \in [Players -> Teams \cup {"out"}] /\ z \in [Sides -> Int]
        /\ r \in [Players -> BOOLEAN] /\ "game_running" \in GameState
    BY DEF GameState
  <2>2. room \in [state : {"game_running"}, timer : {TIMER_INFINITE}, started : {FALSE},
                  paused : {FALSE}, reset : {FALSE}, request : {FALSE},
                  unbalanced : {TBALANCE_OK}, size : {z}, team : {m}, connecting : {{}},
                  ready : {r}, warmup : Warmups, countdown : Countdowns,
                  readyMode : ReadyModes, minimumPlayers : Minimums]
    BY DEF Init
  <2> HIDE DEF m, z, r
  <2>. QED  BY <2>1, <2>2, TimerType DEF Room
<1>3. Typed(room)
  <2>1. TBALANCE_OK \in TBALANCE_CHECK .. TeambalanceTime
    BY SettingAssumption DEF TBALANCE_OK, TBALANCE_CHECK
  <2>. QED  BY <1>1, <1>2, <2>1 DEF Typed, TIMER_INFINITE
<1>4. Steady(room)  BY <1>1, <1>3 DEF Steady, Paused, Frozen
<1>5. Waits(room)  BY <1>1 DEF Waits
<1>6. Sized(room)
  <2> SUFFICES ASSUME NEW t \in Sides PROVE room.size[t] = Cardinality(OfTeam(room, t))
    BY <1>1 DEF Sized
  <2>1. t # "out"  BY SideFacts
  <2>2. OfTeam(room, t) = {}  BY <1>1, <2>1 DEF OfTeam
  <2>3. room.size[t] = 0  BY <1>1
  <2>. QED  BY <2>2, <2>3, FS_EmptySet
<1>7. Awake(room)
  <2>1. CASE Teamplay
    <3>1. "red" \in Sides /\ "blue" \in Sides  BY <2>1, SideFacts
    <3>2. room.size["red"] = 0 /\ room.size["blue"] = 0  BY <1>1, <3>1
    <3>. QED  BY <3>2 DEF Awake, AreTeamsUnbalanced
  <2>2. CASE ~Teamplay  BY <2>2 DEF Awake, AreTeamsUnbalanced
  <2>. QED  BY <2>1, <2>2
<1>. QED  BY <1>4, <1>5, <1>6, <1>7 DEF IInv, Fine

LEMMA NextStep == IInv /\ [Next]_room => IInv'
<1> SUFFICES ASSUME IInv, [Next]_room PROVE IInv'
  OBVIOUS
<1>1. CASE PlayerStep
  <2>1. PICK order \in Orders, p \in Players :
          \/ \E t \in Teams : Connect(p, t)
          \/ DropConnecting(p, order)
          \/ Join(p, order)
          \/ Leave(p, order)
          \/ \E t \in Teams : ChangeTeam(p, t, order)
          \/ OnPlayerReadyChange(p, order)
    BY <1>1 DEF PlayerStep
  <2>. QED  BY <2>1, ConnectStep, DropConnectingStep, JoinStep, LeaveStep, TeamChangeStep,
               ReadyChangeStep
<1>2. CASE CommandStep
  <2>1. PICK order \in Orders :
          \/ \E p \in Players, t \in Teams : ForceTeam(p, t, order)
          \/ \E s \in Seconds : ConPause(s) \/ ConRestart(s, order)
          \/ ConSwapTeams(order)
          \/ \E coin \in BOOLEAN : ConShuffleTeams(order, coin)
          \/ \E t \in Teams : ConSetTeamAll(t, order)
          \/ \E n \in Warmups : SetWarmup(n)
          \/ \E n \in ReadyModes : SetReadyMode(n)
          \/ \E n \in Minimums : SetMinimumPlayers(n, order)
          \/ \E n \in Countdowns : SetCountdown(n)
    BY <1>2, Zenon DEF CommandStep
  <2>2. CASE \E p \in Players, t \in Teams : ForceTeam(p, t, order)
    BY <2>2, TeamChangeStep
  <2>3. CASE \E s \in Seconds : ConPause(s) \/ ConRestart(s, order)
    BY <2>3, ConPauseStep, ConRestartStep
  <2>4. CASE \/ ConSwapTeams(order)
             \/ \E coin \in BOOLEAN : ConShuffleTeams(order, coin)
             \/ \E t \in Teams : ConSetTeamAll(t, order)
    BY <2>4, ConTeamsStep
  <2>5. CASE \E n \in Warmups : SetWarmup(n)  BY <2>5, SetWarmupStep
  <2>6. CASE \E n \in ReadyModes : SetReadyMode(n)  BY <2>6, SetReadyModeStep
  <2>7. CASE \E n \in Minimums : SetMinimumPlayers(n, order)  BY <2>7, SetMinimumPlayersStep
  <2>8. CASE \E n \in Countdowns : SetCountdown(n)  BY <2>8, SetCountdownStep
  <2>. QED  BY <2>1, <2>2, <2>3, <2>4, <2>5, <2>6, <2>7, <2>8
<1>3. CASE ServerStep
  <2>1. PICK order \in Orders :
          \/ \E canPause, coin, decided \in BOOLEAN : Tick(canPause, order, coin, decided)
          \/ StartController(order)
    BY <1>3 DEF ServerStep
  <2>. QED  BY <2>1, TickStep, StartControllerStep
<1>4. CASE SoftReload  BY <1>4, SoftReloadStep
<1>5. CASE UNCHANGED room  BY <1>5 DEF IInv
<1>. QED  BY <1>1, <1>2, <1>3, <1>4, <1>5 DEF Next

LEMMA Invariant == Spec => []IInv
<1>. QED  BY InitStep, NextStep, PTL DEF Spec

\* Whatever the players, the settings, the commands and the timers do, the record
\* of the match keeps its types: the counters stay within what they count.
THEOREM MatchTypeCorrect == Spec => []TypeOK
<1>1. IInv => TypeOK  BY DEF IInv, Fine, Steady, Typed, TypeOK
<1>. QED  BY <1>1, Invariant, PTL

\* As long as the map is not reloaded, the world stands still in the countdown, the
\* pause and at the end of the match, and in no other state.
THEOREM PausedWithTheMatch ==
    ASSUME ~Reloads
    PROVE  Spec => []WorldPaused
<1>1. IInv => WorldPaused
  BY DEF IInv, Fine, Steady, Paused, Frozen, WorldPaused
<1>. QED  BY <1>1, Invariant, PTL

\* Whatever calls SetGameState, TryStartWarmup and each other, a room that waits for
\* players has too few of them, and no timer that could end the wait.
THEOREM WaitsWhileTooFew == Spec => []WaitsForPlayers
<1>1. IInv => WaitsForPlayers
  BY DEF IInv, Fine, Steady, Waits, WaitsForPlayers
<1>. QED  BY <1>1, Invariant, PTL

\* Where nobody is put into the room while the map loads, and every match starts with
\* a warm-up, any number of players coming, going, swapped, shuffled and balanced
\* leaves the sizes of the teams the numbers of their players.
THEOREM SizesAreExact ==
    ASSUME ~Lobby, 0 \notin Warmups
    PROVE  Spec => []TeamSizes
<1>1. IInv => TeamSizes
  <2> SUFFICES ASSUME IInv, NEW t \in Sides
               PROVE  room.size[t] = Cardinality(Entered(room, t))
    BY DEF TeamSizes
  <2>1. Exact  BY Zenon DEF Exact
  <2>2. Sized(room)  BY <2>1 DEF IInv, Fine
  <2>3. Entered(room, t) = OfTeam(room, t)  BY <2>2 DEF Entered, OfTeam, Sized
  <2>. QED  BY <2>2, <2>3 DEF Sized
<1>. QED  BY <1>1, Invariant, PTL

\* Under the same conditions the balancer never rests over uneven teams: each of its
\* loops makes as many moves as it takes, whatever a move sets off, and whoever changes
\* a team afterwards wakes it.
THEOREM BalancerIsAwake ==
    ASSUME ~Lobby, 0 \notin Warmups
    PROVE  Spec => []BalancerAwake
<1>1. IInv => BalancerAwake
  <2>1. Exact  BY Zenon DEF Exact
  <2>. QED  BY <2>1 DEF IInv, Fine, Awake, BalancerAwake
<1>. QED  BY <1>1, Invariant, PTL

-----------------------------------------------------------------------------
(* Whom a room waits for.                                                  *)

\* Somebody, but for those without, is awaited.
Waiting(g, without) ==
    IsPlayerReadyMode(g) /\ Playing(g) \ without # {} =>
        \E p \in Playing(g) \ without : ~g.ready[p]

\* A room that begins to wait for its players waits for all of them.
Asks(g) == IsPlayerReadyMode(g) => \A p \in Playing(g) : ~g.ready[p]

LEMMA AsksWaiting ==
    ASSUME NEW g, NEW without, Asks(g)
    PROVE  Waiting(g, without)
  BY DEF Asks, Waiting

LEMMA NoReadyMode ==
    ASSUME NEW g, g.state \notin {"warmup_user", "game_paused"}
    PROVE  Asks(g) /\ ~IsPlayerReadyMode(g)
  BY DEF Asks, IsPlayerReadyMode

LEMMA BeginWarmupUserAsks ==
    ASSUME NEW g, Typed(g), NEW s \in Int
    PROVE  Asks(BeginWarmupUser(g, s))
<1> DEFINE r == [g EXCEPT !.state = "warmup_user", !.paused = FALSE, !.request = FALSE]
           w(n) == [r EXCEPT !.timer = n]
           h == BeginWarmupUser(g, s)
<1>1. g \in Room  BY DEF Typed
<1>2. CASE s > 0
  <2> DEFINE n == s * TickSpeed
  <2>1. n \in Nat  BY <1>2, Ticks
  <2> HIDE DEF n
  <2>2. w(n).timer = n  BY <1>1 DEF Room
  <2>3. Typed(w(n))
    <3>0. n \in Int  BY <2>1
    <3>1. w(n) \in Room  BY <1>1, <3>0 DEF Room, GameState
    <3>2. w(n).unbalanced = g.unbalanced  BY <1>1 DEF Room
    <3> HIDE DEF w
    <3>. QED  BY <2>1, <2>2, <3>1, <3>2 DEF Typed, TIMER_INFINITE
  <2>4. h = SetPlayersReadyState(w(n), TRUE)  BY <1>2 DEF BeginWarmupUser, n
  <2> HIDE DEF w, h
  <2>5. h.timer = n  BY <2>2, <2>3, <2>4, ReadyKeeps
  <2>6. ~IsPlayerReadyMode(h)  BY <2>1, <2>5 DEF IsPlayerReadyMode, TIMER_INFINITE
  <2>. QED  BY <2>6 DEF Asks, h
<1>3. CASE ~(s > 0) /\ ReadyStartsMatch(g)
  <2> DEFINE x == w(TIMER_INFINITE)
  <2>1. h = SetPlayersReadyState(x, FALSE)  BY <1>3 DEF BeginWarmupUser
  <2>2. x \in Room /\ x.team = g.team  BY <1>1, TimerType DEF Room, GameState
  <2> HIDE DEF x
  <2>3. h.team = x.team /\ \A p \in Playing(x) : ~h.ready[p]
    BY <2>1, <2>2 DEF SetPlayersReadyState, Room, Playing
  <2> HIDE DEF h
  <2>4. Playing(h) = Playing(x)  BY <2>3 DEF Playing
  <2>. QED  BY <2>3, <2>4 DEF Asks, h
<1>4. CASE ~(s > 0) /\ ~ReadyStartsMatch(g)
  <2> DEFINE x == w(TIMER_INFINITE)
  <2>1. h = x  BY <1>4 DEF BeginWarmupUser
  <2>2. x.state = "warmup_user" /\ x.readyMode = g.readyMode  BY <1>1 DEF Room
  <2> HIDE DEF x, h
  <2>3. ~IsPlayerReadyMode(x)  BY <1>4, <2>2 DEF IsPlayerReadyMode, ReadyStartsMatch
  <2>. QED  BY <2>1, <2>3 DEF Asks, h
<1>. QED  BY <1>2, <1>3, <1>4

LEMMA StartCountdownAsks ==
    ASSUME NEW g, Steady(g)
    PROVE  LET h == StartCountdown(g)
           IN  /\ h = g \/ Asks(h)
               /\ g.state = "game_paused" => Asks(h)
<1> DEFINE h == StartCountdown(g)
<1>1. h = g \/ h.state \in {"start_countdown", "game_running"}  BY StartCountdownSteady
<1>2. g.state = "game_paused" => h.state \in {"start_countdown", "game_running"}
  <2> SUFFICES ASSUME g.state = "game_paused"
               PROVE  h.state \in {"start_countdown", "game_running"}
    OBVIOUS
  <2>1. CASE g.countdown > 0
    <3>1. g \in Room  BY DEF Steady, Typed
    <3>. QED  BY <2>1, <3>1 DEF StartCountdown, Room
  <2>2. CASE ~(g.countdown > 0)
    <3>1. h = GameRunning(g)  BY <2>2 DEF StartCountdown
    <3>2. GameRunning(g).state = "game_running"  BY GameRunningSteady DEF Steady
    <3>. QED  BY <3>1, <3>2
  <2>. QED  BY <2>1, <2>2
<1> HIDE DEF h
<1>3. h.state \in {"start_countdown", "game_running"} => Asks(h)  BY NoReadyMode
<1>. QED  BY <1>1, <1>2, <1>3 DEF h

LEMMA GamePausedAsks ==
    ASSUME NEW g, Steady(g), NEW s \in Int, s >= -1
    PROVE  LET h == GamePaused(g, s)
           IN  /\ h = g \/ Asks(h)
               /\ s = 0 /\ g.state = "game_paused" => Asks(h)
<1> DEFINE h == GamePaused(g, s)
           r == [g EXCEPT !.state = "game_paused", !.paused = TRUE]
           w(n) == [r EXCEPT !.timer = n]
<1>1. g \in Room  BY DEF Steady, Typed
<1>2. CASE g.state \notin {"game_running", "game_paused", "warmup_game"}
  BY <1>2 DEF GamePaused
<1>3. CASE g.state \in {"game_running", "game_paused", "warmup_game"} /\ s = 0
  <2>1. h = StartCountdown(g)  BY <1>3 DEF GamePaused
  <2>. QED  BY <1>3, <2>1, StartCountdownAsks
<1>4. CASE g.state \in {"game_running", "game_paused", "warmup_game"} /\ s < 0
  <2> DEFINE x == w(TIMER_INFINITE)
  <2>0. s # 0  BY <1>4
  <2>1. h = SetPlayersReadyState(x, FALSE)  BY <1>4, <2>0 DEF GamePaused
  <2>2. x \in Room /\ x.team = g.team  BY <1>1, TimerType DEF Room, GameState
  <2> HIDE DEF x
  <2>3. h.team = x.team /\ \A p \in Playing(x) : ~h.ready[p]
    BY <2>1, <2>2 DEF SetPlayersReadyState, Room, Playing
  <2> HIDE DEF h
  <2>4. Playing(h) = Playing(x)  BY <2>3 DEF Playing
  <2>5. Asks(h)  BY <2>3, <2>4 DEF Asks
  <2>. QED  BY <1>4, <2>5 DEF h
<1>5. CASE g.state \in {"game_running", "game_paused", "warmup_game"} /\ s > 0
  <2> DEFINE n == s * TickSpeed
  <2>1. n \in Nat  BY <1>5, Ticks
  <2>0. s # 0 /\ ~(s < 0)  BY <1>5
  <2>2. h = w(n)  BY <1>5, <2>0 DEF GamePaused
  <2> HIDE DEF n
  <2>3. w(n).timer = n  BY <1>1 DEF Room
  <2> HIDE DEF w, h
  <2>4. ~IsPlayerReadyMode(h)  BY <2>1, <2>2, <2>3 DEF IsPlayerReadyMode, TIMER_INFINITE
  <2>5. Asks(h)  BY <2>4 DEF Asks
  <2>. QED  BY <1>5, <2>5 DEF h
<1>. QED  BY <1>2, <1>3, <1>4, <1>5

LEMMA WarmupGameAsks ==
    ASSUME NEW g, g \in Room
    PROVE  LET h == WarmupGame(g)
           IN  /\ h = g \/ Asks(h)
               /\ g.state \in {"game_running", "warmup_game", "warmup_user"} => Asks(h)
<1> DEFINE h == WarmupGame(g)
<1>1. CASE g.state \in {"game_running", "warmup_game", "warmup_user"}
  <2>1. h.state = "warmup_game"  BY <1>1 DEF WarmupGame, Room
  <2> HIDE DEF h
  <2>2. Asks(h)  BY <2>1, NoReadyMode
  <2>. QED  BY <2>2 DEF h
<1>2. CASE g.state \notin {"game_running", "warmup_game", "warmup_user"}
  BY <1>2 DEF WarmupGame
<1>. QED  BY <1>1, <1>2

LEMMA StartMatchAsks ==
    ASSUME NEW g, Steady(g), NEW order \in Orders
    PROVE  LET h == StartMatch(g, order)
           IN  /\ h = g \/ Asks(h)
               /\ g.state \in {"game_running", "warmup_game", "warmup_user"} => Asks(h)
<1> DEFINE r == ResetGame(g, order)
           h == StartMatch(g, order)
<1>1. Steady(r) /\ r.state = "game_running"  BY ResetGameGoes DEF Steady, Goes
<1>2. h = IF IsWarmup(g) /\ ~HasEnoughPlayers(g) THEN WarmupGame(g)
          ELSE IF HasEnoughPlayers(r) THEN StartCountdown(r)
          ELSE BeginWarmupUser(r, TIMER_INFINITE)
  BY DEF StartMatch
<1> HIDE DEF r, h
<1>3. CASE h = WarmupGame(g)
  <2>1. g \in Room  BY DEF Steady, Typed
  <2>. QED  BY <1>3, <2>1, WarmupGameAsks DEF h
<1>4. CASE h = StartCountdown(r)
  <2>1. Asks(r)  BY <1>1, NoReadyMode
  <2>2. h = r \/ Asks(h)  BY <1>1, <1>4, StartCountdownAsks
  <2>3. Asks(h)  BY <2>1, <2>2
  <2>. QED  BY <2>3 DEF h
<1>5. CASE h = BeginWarmupUser(r, TIMER_INFINITE)
  <2>1. Asks(h)  BY <1>1, <1>5, TimerType, BeginWarmupUserAsks DEF Steady
  <2>. QED  BY <2>1 DEF h
<1>. QED  BY <1>2, <1>3, <1>4, <1>5

LEMMA WarmupUserAsks ==
    ASSUME NEW g, Steady(g), NEW s \in Int, NEW order \in Orders
    PROVE  LET h == WarmupUser(g, s, order)
           IN  /\ h = g \/ Asks(h)
               /\ g.state \in {"game_running", "warmup_game", "warmup_user"} => Asks(h)
<1>1. CASE g.state \in {"start_countdown", "end_match"}
  BY <1>1 DEF WarmupUser
<1>2. CASE g.state \notin {"start_countdown", "end_match"} /\ s # 0
  <2>1. WarmupUser(g, s, order) = BeginWarmupUser(g, s)  BY <1>2 DEF WarmupUser
  <2>. QED  BY <2>1, BeginWarmupUserAsks DEF Steady
<1>3. CASE g.state \notin {"start_countdown", "end_match"} /\ s = 0
  <2>1. WarmupUser(g, s, order) = StartMatch(g, order)  BY <1>3 DEF WarmupUser
  <2>. QED  BY <2>1, StartMatchAsks
<1>. QED  BY <1>1, <1>2, <1>3

LEMMA AwaitPlayersAsks ==
    ASSUME NEW g, Steady(g), NEW fallback \in BOOLEAN, NEW order \in Orders
    PROVE  LET h == AwaitPlayers(g, fallback, order) IN h = g \/ Asks(h)
<1> DEFINE h == AwaitPlayers(g, fallback, order)
           r == SetPlayersReadyState(g, TRUE)
<1>1. \/ h = g
      \/ h = WarmupUser(g, g.warmup, order)
      \/ h = WarmupUser(g, TIMER_INFINITE, order)
      \/ h = WarmupGame(r) /\ g.state \in {"warmup_game", "warmup_user"}
  BY DEF AwaitPlayers
<1>2. g.warmup \in Int /\ TIMER_INFINITE \in Int  BY WarmupFacts, TimerType
<1>3. CASE h = WarmupGame(r) /\ g.state \in {"warmup_game", "warmup_user"}
  <2>1. r \in Room /\ r.state = g.state  BY ReadySteady DEF Steady, Typed
  <2> HIDE DEF h, r
  <2>2. Asks(h)  BY <1>3, <2>1, WarmupGameAsks
  <2>. QED  BY <2>2 DEF h
<1>4. CASE h = WarmupUser(g, g.warmup, order) \/ h = WarmupUser(g, TIMER_INFINITE, order)
  <2> HIDE DEF h
  <2>. QED  BY <1>2, <1>4, WarmupUserAsks DEF h
<1>. QED  BY <1>1, <1>3, <1>4

LEMMA ResetMatchAsks ==
    ASSUME NEW g, Typed(g), NEW order \in Orders
    PROVE  Asks(ResetMatch(g, order))
<1> DEFINE r == ResetGame(g, order)
           k == WarmupGame(r)
           h == AwaitPlayers(k, FALSE, order)
<1>1. Steady(r) /\ r \in Room /\ r.state = "game_running" /\ ~r.request
  BY ResetGameGoes DEF Goes, Steady, Typed
<1>2. ResetMatch(g, order) = h  BY DEF ResetMatch
<1> HIDE DEF r
<1>3. Steady(k) /\ Asks(k)  BY <1>1, WarmupGameSteady, WarmupGameAsks
<1> HIDE DEF k
<1>4. h = k \/ Asks(h)  BY <1>3, AwaitPlayersAsks
<1>. QED  BY <1>2, <1>3, <1>4

LEMMA TryStartWarmupAsks ==
    ASSUME NEW g, Steady(g), NEW fallback \in BOOLEAN, NEW order \in Orders
    PROVE  LET h == TryStartWarmup(g, fallback, order) IN h = g \/ Asks(h)
<1>1. CASE g.state # "warmup_game" /\ HasNoPlayers(g)
  <2>1. TryStartWarmup(g, fallback, order) = ResetMatch(g, order)
    BY <1>1 DEF TryStartWarmup
  <2>. QED  BY <2>1, ResetMatchAsks DEF Steady
<1>2. CASE ~(g.state # "warmup_game" /\ HasNoPlayers(g))
  <2>1. TryStartWarmup(g, fallback, order) = AwaitPlayers(g, fallback, order)
    BY <1>2 DEF TryStartWarmup
  <2>. QED  BY <2>1, AwaitPlayersAsks
<1>. QED  BY <1>1, <1>2

\* Whoever is missing: a room whose ready states are checked waits for somebody else.
LEMMA CheckReadyStatesWaiting ==
    ASSUME NEW g, Steady(g), NEW without, NEW order \in Orders
    PROVE  Waiting(CheckReadyStates(g, without, order), without)
<1> DEFINE h == CheckReadyStates(g, without, order)
<1>1. CASE g.readyMode = 0
  <2>1. h = g  BY <1>1 DEF CheckReadyStates
  <2>2. ~IsPlayerReadyMode(g)
    BY <1>1 DEF IsPlayerReadyMode, ReadyStartsMatch, ReadyPausesMatch
  <2>. QED  BY <2>1, <2>2 DEF Waiting
<1>2. CASE g.readyMode # 0 /\ ~AllReady(g, without)
  <2>1. h = g  BY <1>2 DEF CheckReadyStates
  <2>. QED  BY <1>2, <2>1 DEF Waiting, AllReady
<1>3. CASE /\ g.readyMode # 0 /\ AllReady(g, without)
           /\ g.state = "warmup_user" /\ g.timer = TIMER_INFINITE
  <2>1. h = WarmupUser(g, g.warmup, order)  BY <1>3 DEF CheckReadyStates
  <2>2. g.warmup \in Int  BY WarmupFacts
  <2> HIDE DEF h
  <2>3. Asks(h)  BY <1>3, <2>1, <2>2, WarmupUserAsks
  <2>. QED  BY <2>3, AsksWaiting DEF h
<1>4. CASE g.readyMode # 0 /\ AllReady(g, without) /\ g.state = "game_paused"
  <2>1. h = GamePaused(g, 0)  BY <1>4 DEF CheckReadyStates
  <2> HIDE DEF h
  <2>2. Asks(h)  BY <1>4, <2>1, GamePausedAsks
  <2>. QED  BY <2>2, AsksWaiting DEF h
<1>5. CASE /\ ~(g.state = "warmup_user" /\ g.timer = TIMER_INFINITE)
           /\ g.state # "game_paused" /\ g.readyMode # 0 /\ AllReady(g, without)
  <2>1. h = g  BY <1>5 DEF CheckReadyStates
  <2>2. ~IsPlayerReadyMode(g)  BY <1>5 DEF IsPlayerReadyMode
  <2>. QED  BY <2>1, <2>2 DEF Waiting
<1>. QED  BY <1>1, <1>2, <1>3, <1>4, <1>5

LEMMA DoTeamChangeWaiting ==
    ASSUME NEW g, Steady(g), Waiting(g, {}),
           NEW p \in Players, NEW t \in Teams, NEW order \in Orders
    PROVE  Waiting(DoTeamChange(g, p, t, order), {})
<1>1. CASE t = g.team[p]  BY <1>1 DEF DoTeamChange
<1>2. CASE t # g.team[p]
  <2> DEFINE m == MoveTo(g, p, t)
             c == CheckReadyStates(m, {}, order)
             h == TryStartWarmup(c, TRUE, order)
  <2>1. DoTeamChange(g, p, t, order) = h  BY <1>2 DEF DoTeamChange
  <2>2. Steady(m)  BY MoveToGoes DEF Goes
  <2> HIDE DEF m
  <2>3. Steady(c) /\ Waiting(c, {})
    BY <2>2, CheckReadyStatesGoes, CheckReadyStatesWaiting DEF Goes
  <2> HIDE DEF c
  <2>4. h = c \/ Asks(h)  BY <2>3, TryStartWarmupAsks
  <2>. QED  BY <2>1, <2>3, <2>4, AsksWaiting
<1>. QED  BY <1>1, <1>2

\* What does not touch the players, the state, its timer and the mode
LEMMA SameWaiting ==
    ASSUME NEW g, NEW h, NEW without, Waiting(g, without),
           h.state = g.state, h.timer = g.timer, h.readyMode = g.readyMode,
           h.team = g.team, h.ready = g.ready
    PROVE  Waiting(h, without)
<1>1. IsPlayerReadyMode(h) = IsPlayerReadyMode(g)
  BY DEF IsPlayerReadyMode, ReadyStartsMatch, ReadyPausesMatch
<1>2. Playing(h) = Playing(g)  BY DEF Playing
<1>. QED  BY <1>1, <1>2 DEF Waiting

\* A room in which somebody is awaited
Awaits(g) == Steady(g) /\ Waiting(g, {})

LEMMA AsksAwaits ==
    ASSUME NEW g, NEW h, Awaits(g), Steady(h), h = g \/ Asks(h)
    PROVE  Awaits(h)
  BY AsksWaiting DEF Awaits

LEMMA DoTeamChangeAwaits ==
    ASSUME NEW g, Awaits(g), NEW p \in Players, NEW t \in Teams, NEW order \in Orders
    PROVE  Awaits(DoTeamChange(g, p, t, order))
<1>1. Steady(DoTeamChange(g, p, t, order))
  BY DoTeamChangeGoes DEF Goes, Awaits
<1>. QED  BY <1>1, DoTeamChangeWaiting DEF Awaits

LEMMA DoTeamBalanceAwaits ==
    ASSUME NEW g, Awaits(g), NEW order \in Orders
    PROVE  Awaits(DoTeamBalance(g, order))
<1> DEFINE t == Bigger(g)
           pass == [r \in Room |->
                      IF OfTeam(r, t) = {} THEN r
                      ELSE DoTeamChange(r, First(OfTeam(r, t), order), Other(t), order)]
           S == {r \in Room : Awaits(r)}
           y == Times(Passes(g), pass, g)
<1>1. g \in Room  BY DEF Awaits, Steady, Typed
<1>2. DoTeamBalance(g, order) = IF NeedsBalance(g) THEN Balanced(y) ELSE g
  BY DEF DoTeamBalance
<1>3. CASE ~NeedsBalance(g)  BY <1>2, <1>3
<1>4. CASE NeedsBalance(g)
  <2>1. Passes(g) \in Nat /\ Other(t) \in Teams  BY <1>1, <1>4, BalanceFacts
  <2> HIDE DEF t
  <2>2. ASSUME NEW r \in S PROVE pass[r] \in S
    <3>1. r \in Room /\ Awaits(r)  OBVIOUS
    <3>2. CASE OfTeam(r, t) = {}  BY <3>1, <3>2
    <3>3. CASE OfTeam(r, t) # {}
      <4> DEFINE p == First(OfTeam(r, t), order)
                 m == DoTeamChange(r, p, Other(t), order)
      <4>1. p \in Players
        <5>1. OfTeam(r, t) \in SUBSET Players  BY DEF OfTeam
        <5>. QED  BY <3>3, <5>1, FirstIsIn
      <4>2. pass[r] = m  BY <3>1, <3>3
      <4> HIDE DEF p
      <4>3. Awaits(m)  BY <2>1, <3>1, <4>1, DoTeamChangeAwaits
      <4> HIDE DEF m
      <4>4. m \in Room  BY <4>3 DEF Awaits, Steady, Typed
      <4>. QED  BY <4>2, <4>3, <4>4
    <3>. QED  BY <3>2, <3>3
  <2>3. g \in S  BY <1>1
  <2> HIDE DEF pass, S
  <2>4. y \in S  BY <2>1, <2>2, <2>3, TimesKeeps
  <2> HIDE DEF y
  <2>5. Awaits(y) /\ Steady(y) /\ Waiting(y, {}) /\ y \in Room  BY <2>4 DEF S, Awaits
  <2>6. Steady(Balanced(y))  BY <2>5, BalancedSteady
  <2>7. Waiting(Balanced(y), {})
    <3> DEFINE b == [y EXCEPT !.unbalanced = TBALANCE_OK]
    <3>1. /\ b.state = y.state /\ b.timer = y.timer /\ b.readyMode = y.readyMode
          /\ b.team = y.team /\ b.ready = y.ready
      BY <2>5 DEF Room
    <3>2. Balanced(y) = b  BY DEF Balanced
    <3> HIDE DEF b
    <3>. QED  BY <2>5, <3>1, <3>2, SameWaiting
  <2>. QED  BY <1>2, <1>4, <2>6, <2>7 DEF Awaits
<1>. QED  BY <1>3, <1>4

LEMMA ChangeTeamsAwaits ==
    ASSUME NEW g, Awaits(g), NEW ps \in SUBSET Players, NEW to \in [ps -> Teams],
           NEW order \in Orders
    PROVE  Awaits(ChangeTeams(g, to, order))
<1> DEFINE R == [room : Room, todo : SUBSET ps]
           change == [r \in R |->
                        IF r.todo = {} THEN r
                        ELSE LET p == First(r.todo, order)
                             IN  [room |-> DoTeamChange(r.room, p, to[p], order),
                                  todo |-> r.todo \ {p}]]
           S == {r \in R : Awaits(r.room)}
           x == [room |-> g, todo |-> ps]
           n == Cardinality(ps)
<1>1. g \in Room  BY DEF Awaits, Steady, Typed
<1>2. ChangeTeams(g, to, order) = Times(n, change, x).room
  <2>1. DOMAIN to = ps  OBVIOUS
  <2>. QED  BY <2>1, Zenon DEF ChangeTeams
<1>3. n \in Nat  BY PlayerAssumption, FS_Subset, FS_CardinalityType
<1>4. x \in S  BY <1>1
<1>5. ASSUME NEW r \in S PROVE change[r] \in S
  <2>1. r \in R /\ Awaits(r.room)  OBVIOUS
  <2>2. CASE r.todo = {}  BY <2>1, <2>2
  <2>3. CASE r.todo # {}
    <3> DEFINE p == First(r.todo, order)
               m == DoTeamChange(r.room, p, to[p], order)
    <3>1. p \in r.todo /\ r.todo \in SUBSET ps
      <4>1. r.todo \in SUBSET Players  BY <2>1
      <4>. QED  BY <2>1, <2>3, <4>1, FirstIsIn
    <3>2. change[r] = [room |-> m, todo |-> r.todo \ {p}]  BY <2>1, <2>3
    <3> HIDE DEF p
    <3>3. p \in Players /\ to[p] \in Teams  BY <3>1
    <3>4. Awaits(m)  BY <2>1, <3>3, DoTeamChangeAwaits
    <3> HIDE DEF m
    <3>5. m \in Room  BY <3>4 DEF Awaits, Steady, Typed
    <3>. QED  BY <3>1, <3>2, <3>4, <3>5
  <2>. QED  BY <2>2, <2>3
<1> DEFINE y == Times(n, change, x)
<1> HIDE DEF n, change, x
<1>6. y \in S
  <2> HIDE DEF S
  <2>. QED  BY <1>3, <1>4, <1>5, TimesKeeps
<1>7. ChangeTeams(g, to, order) = y.room  BY <1>2
<1> HIDE DEF y
<1>. QED  BY <1>6, <1>7

LEMMA SwapTeamsAwaits ==
    ASSUME NEW g, Awaits(g), NEW order \in Orders
    PROVE  Awaits(SwapTeams(g, order))
<1>1. CASE ~Teamplay  BY <1>1 DEF SwapTeams
<1>2. CASE Teamplay
  <2> DEFINE to == [p \in Playing(g) |-> Other(g.team[p])]
             ps == Playing(g)
  <2>1. to \in [ps -> Teams] /\ ps \in SUBSET Players
    <3>1. ASSUME NEW p \in Playing(g) PROVE Other(g.team[p]) \in Teams
      <4>1. g.team[p] \in Sides  BY DEF Playing
      <4>. QED  BY <1>2, <4>1, OtherSide, SideFacts
    <3>. QED  BY <3>1 DEF Playing
  <2>2. SwapTeams(g, order) = ChangeTeams(g, to, order)  BY <1>2 DEF SwapTeams
  <2> HIDE DEF to, ps
  <2>. QED  BY <2>1, <2>2, ChangeTeamsAwaits
<1>. QED  BY <1>1, <1>2

LEMMA ShuffleTeamsAwaits ==
    ASSUME NEW g, Awaits(g), NEW order \in Orders, NEW coin \in BOOLEAN
    PROVE  Awaits(ShuffleTeams(g, order, coin))
<1>1. CASE ~Teamplay  BY <1>1 DEF ShuffleTeams
<1>2. CASE Teamplay
  <2>1. PICK to \in [Playing(g) -> Teams] :
          ShuffleTeams(g, order, coin) = ChangeTeams(g, to, order)
    BY <1>2, ShuffleTeamsPicks
  <2>2. Playing(g) \in SUBSET Players  BY DEF Playing
  <2>. QED  BY <2>1, <2>2, ChangeTeamsAwaits
<1>. QED  BY <1>1, <1>2

LEMMA TimerFiresAwaits ==
    ASSUME NEW g, Awaits(g), NEW order \in Orders, NEW coin \in BOOLEAN
    PROVE  Awaits(TimerFires(g, order, coin))
<1> DEFINE h == TimerFires(g, order, coin)
<1>0. Steady(g) /\ Typed(g)  BY DEF Awaits, Steady
<1>1. Steady(h)  BY <1>0, TimerFiresLeads DEF Leads, Goes
<1>2. CASE g.state = "warmup_user"
  <2>1. h = WarmupUser(g, 0, order)  BY <1>2 DEF TimerFires
  <2> HIDE DEF h
  <2>2. Asks(h)  BY <1>0, <1>2, <2>1, WarmupUserAsks
  <2>. QED  BY <1>1, <2>2, AsksAwaits DEF h
<1>3. CASE g.state = "start_countdown"
  <2>1. h = GameRunning(g)  BY <1>3 DEF TimerFires
  <2> HIDE DEF h
  <2>2. h.state = "game_running"  BY <1>0, <2>1, GameRunningSteady
  <2>. QED  BY <1>1, <2>2, NoReadyMode, AsksAwaits DEF h
<1>4. CASE g.state = "game_paused"
  <2>1. h = GamePaused(g, 0)  BY <1>4 DEF TimerFires
  <2> HIDE DEF h
  <2>2. Asks(h)  BY <1>0, <1>4, <2>1, GamePausedAsks
  <2>. QED  BY <1>1, <2>2, AsksAwaits DEF h
<1>5. CASE g.state = "end_match"
  <2> DEFINE k == CASE MatchSwap = 1 -> SwapTeams(g, order)
                    [] MatchSwap = 2 -> ShuffleTeams(g, order, coin)
                    [] OTHER         -> g
             l == IF ResetOnMatchEnd THEN ResetMatch(k, order) ELSE StartMatch(k, order)
  <2>1. h = l  BY <1>5 DEF TimerFires
  <2>2. Awaits(k)
    <3>1. k = SwapTeams(g, order) \/ k = ShuffleTeams(g, order, coin) \/ k = g
      <4>1. CASE MatchSwap = 1  BY <4>1
      <4>2. CASE MatchSwap = 2  BY <4>2
      <4>3. CASE MatchSwap \notin {1, 2}  BY <4>3
      <4>. QED  BY <4>1, <4>2, <4>3
    <3> HIDE DEF k
    <3>. QED  BY <3>1, SwapTeamsAwaits, ShuffleTeamsAwaits
  <2> HIDE DEF k
  <2>3. Steady(k) /\ Typed(k)  BY <2>2 DEF Awaits, Steady
  <2>4. l = ResetMatch(k, order) \/ l = StartMatch(k, order)  OBVIOUS
  <2> HIDE DEF h, l
  <2>5. l = k \/ Asks(l)  BY <2>3, <2>4, ResetMatchAsks, StartMatchAsks
  <2>. QED  BY <1>1, <2>1, <2>2, <2>5, AsksAwaits DEF h
<1>6. CASE g.state \notin {"warmup_user", "start_countdown", "game_paused", "end_match"}
  <2>1. h = g  BY <1>6 DEF TimerFires
  <2>. QED  BY <2>1
<1>. QED  BY <1>2, <1>3, <1>4, <1>5, <1>6

LEMMA SameAwaits ==
    ASSUME NEW g, Awaits(g), NEW h, Steady(h),
           h.state = g.state, h.timer = g.timer, h.readyMode = g.readyMode,
           h.team = g.team, h.ready = g.ready
    PROVE  Awaits(h)
  BY SameWaiting DEF Awaits

LEMMA StateTimerAwaits ==
    ASSUME NEW g, Awaits(g), NEW order \in Orders, NEW coin \in BOOLEAN
    PROVE  Awaits(StateTimer(g, order, coin))
<1> DEFINE n == IF g.timer > 0 THEN g.timer - 1 ELSE g.timer
           h == [g EXCEPT !.timer = n]
           k == WarmupUser(h, h.warmup, order)
           f == TimerFires(h, order, coin)
           l == StateTimer(g, order, coin)
<1>1. Steady(g) /\ g \in Room /\ g.timer \in Int /\ g.timer >= TIMER_INFINITE
  BY DEF Awaits, Steady, Typed, Room
<1>2. n \in Int /\ n >= TIMER_INFINITE /\ (n = TIMER_INFINITE <=> g.timer = TIMER_INFINITE)
  BY <1>1 DEF TIMER_INFINITE
<1>3. h = [g EXCEPT !.timer = IF @ > 0 THEN @ - 1 ELSE @]  BY <1>1 DEF Room
<1>4. \/ l = g \/ l = f \/ l = h
      \/ l = k /\ h.state = "warmup_user"
  <2> HIDE DEF h, k, f
  <2>1. l = IF g.state = "game_running" THEN g
            ELSE IF h.timer = 0 THEN f
            ELSE IF /\ h.state = "warmup_user" /\ h.timer = TIMER_INFINITE
                    /\ ~ReadyStartsMatch(h)
            THEN k ELSE h
    BY <1>3 DEF StateTimer, k, f
  <2>. QED  BY <2>1
<1> HIDE DEF n, l
<1>5. Awaits(h) /\ Steady(h)
  <2>1. h \in Room  BY <1>1, <1>2 DEF Room
  <2>2. /\ h.state = g.state /\ h.timer = n /\ h.started = g.started
        /\ h.paused = g.paused /\ h.request = g.request /\ h.unbalanced = g.unbalanced
        /\ h.readyMode = g.readyMode /\ h.team = g.team /\ h.ready = g.ready
    BY <1>1 DEF Room
  <2> HIDE DEF h
  <2>3. Typed(h)  BY <1>1, <1>2, <2>1, <2>2 DEF Steady, Typed
  <2>4. Steady(h)  BY <1>1, <1>2, <2>2, <2>3 DEF Steady, Paused
  <2>5. IsPlayerReadyMode(h) = IsPlayerReadyMode(g)
    BY <1>2, <2>2 DEF IsPlayerReadyMode, ReadyStartsMatch, ReadyPausesMatch
  <2>6. Playing(h) = Playing(g)  BY <2>2 DEF Playing
  <2>7. Waiting(h, {})  BY <2>2, <2>5, <2>6 DEF Awaits, Waiting
  <2>. QED  BY <2>4, <2>7 DEF Awaits
<1> HIDE DEF h
<1>6. Awaits(f)  BY <1>5, TimerFiresAwaits
<1>7. h.state = "warmup_user" => Awaits(k)
  <2>1. h.warmup \in Int  BY <1>5, WarmupFacts
  <2>2. Steady(k)  BY <1>5, <2>1, WarmupUserGoes DEF Goes
  <2>3. h.state = "warmup_user" => Asks(k)  BY <1>5, <2>1, WarmupUserAsks
  <2>. QED  BY <1>5, <2>2, <2>3, AsksAwaits
<1>. QED  BY <1>4, <1>5, <1>6, <1>7 DEF l

LEMMA PauseRequestAwaits ==
    ASSUME NEW g, Awaits(g), NEW canPause \in BOOLEAN
    PROVE  Awaits(PauseRequest(g, canPause))
<1> DEFINE k == GamePaused(g, TIMER_INFINITE)
           h == [k EXCEPT !.request = FALSE]
<1>1. PauseRequest(g, canPause) = h \/ PauseRequest(g, canPause) = g  BY DEF PauseRequest
<1>2. Steady(PauseRequest(g, canPause))
  BY PauseRequestLeads DEF Awaits, Leads, Goes
<1>3. Steady(k) /\ (k = g \/ Asks(k))
  BY GamePausedSteady, GamePausedAsks DEF Awaits, TIMER_INFINITE
<1> HIDE DEF k
<1>4. Awaits(k) /\ k \in Room  BY <1>3, AsksAwaits DEF Steady, Typed
<1>5. /\ h.state = k.state /\ h.timer = k.timer /\ h.readyMode = k.readyMode
      /\ h.team = k.team /\ h.ready = k.ready
  BY <1>4 DEF Room
<1> HIDE DEF h
<1>. QED  BY <1>1, <1>2, <1>4, <1>5, SameAwaits

LEMMA BalanceTimerAwaits ==
    ASSUME NEW g, Awaits(g), NEW order \in Orders
    PROVE  Awaits(BalanceTimer(g, order))
<1> DEFINE h == BalanceTimer(g, order)
<1>1. Steady(g) /\ g \in Room  BY DEF Awaits, Steady, Typed
<1>2. Steady(h)  BY <1>1, BalanceTimerLeads DEF Leads, Goes
<1>3. \/ h = g \/ h = DoTeamBalance(g, order)
      \/ \E n : h = [g EXCEPT !.unbalanced = n]
  <2>1. CASE g.unbalanced = TBALANCE_CHECK
    BY <2>1 DEF BalanceTimer
  <2>2. CASE g.unbalanced # TBALANCE_CHECK
    <3>1. \/ h = g \/ h = DoTeamBalance(g, order)
          \/ h = [g EXCEPT !.unbalanced = @ + 1]
      BY <2>2 DEF BalanceTimer
    <3>2. [g EXCEPT !.unbalanced = @ + 1] = [g EXCEPT !.unbalanced = g.unbalanced + 1]
      BY <1>1 DEF Room
    <3> HIDE DEF h
    <3>. QED  BY <3>1, <3>2
  <2>. QED  BY <2>1, <2>2
<1> HIDE DEF h
<1>4. ASSUME NEW n, h = [g EXCEPT !.unbalanced = n] PROVE Awaits(h)
  <2>1. /\ h.state = g.state /\ h.timer = g.timer /\ h.readyMode = g.readyMode
        /\ h.team = g.team /\ h.ready = g.ready
    BY <1>1, <1>4 DEF Room
  <2>. QED  BY <1>2, <2>1, SameAwaits
<1>. QED  BY <1>3, <1>4, DoTeamBalanceAwaits DEF h

LEMMA WinCheckAwaits ==
    ASSUME NEW g, Awaits(g), NEW decided \in BOOLEAN
    PROVE  Awaits(WinCheck(g, decided))
<1> DEFINE h == EndMatch(g)
<1>1. Steady(g) /\ g \in Room  BY DEF Awaits, Steady, Typed
<1>2. Steady(h)  BY <1>1, EndMatchSteady
<1>3. WinCheck(g, decided) = h \/ WinCheck(g, decided) = g  BY DEF WinCheck
<1>4. CASE g.state \in {"game_running", "end_match", "game_paused"}
  <2>1. h.state = "end_match"  BY <1>1, <1>4 DEF EndMatch, Room
  <2> HIDE DEF h
  <2>2. Awaits(h)  BY <1>2, <2>1, NoReadyMode, AsksAwaits
  <2>. QED  BY <1>3, <2>2
<1>5. CASE g.state \notin {"game_running", "end_match", "game_paused"}
  <2>1. /\ h.state = g.state /\ h.timer = g.timer /\ h.readyMode = g.readyMode
        /\ h.team = g.team /\ h.ready = g.ready
    BY <1>1, <1>5 DEF EndMatch, Room
  <2> HIDE DEF h
  <2>2. Awaits(h)  BY <1>2, <2>1, SameAwaits
  <2>. QED  BY <1>3, <2>2
<1>. QED  BY <1>4, <1>5

\* The steps, given that they keep the room steady
LEMMA TickAwaits ==
    ASSUME Awaits(room), Steady(room'),
           NEW canPause \in BOOLEAN, NEW coin \in BOOLEAN, NEW decided \in BOOLEAN,
           NEW order \in Orders, Tick(canPause, order, coin, decided)
    PROVE  Awaits(room')
<1> DEFINE a == PauseRequest(room, canPause)
           b == StateTimer(a, order, coin)
           c == BalanceTimer(b, order)
           d == WinCheck(c, decided)
           h == [d EXCEPT !.reset = FALSE]
<1>1. Awaits(a)  BY PauseRequestAwaits
<1>2. room' = h  BY DEF Tick
<1> HIDE DEF a
<1>3. Awaits(b)  BY <1>1, StateTimerAwaits
<1> HIDE DEF b
<1>4. Awaits(c)  BY <1>3, BalanceTimerAwaits
<1> HIDE DEF c
<1>5. Awaits(d)  BY <1>4, WinCheckAwaits
<1> HIDE DEF d
<1>6. d \in Room  BY <1>5 DEF Awaits, Steady, Typed
<1>7. /\ h.state = d.state /\ h.timer = d.timer /\ h.readyMode = d.readyMode
      /\ h.team = d.team /\ h.ready = d.ready
  BY <1>6 DEF Room
<1> HIDE DEF h
<1>. QED  BY <1>2, <1>5, <1>7, SameAwaits

LEMMA StartControllerAwaits ==
    ASSUME Awaits(room), Steady(room'), NEW order \in Orders, StartController(order)
    PROVE  Awaits(room')
<1> DEFINE s == [room EXCEPT !.started = TRUE]
           w == WarmupGame(s)
           h == TryStartWarmup(w, FALSE, order)
<1>1. Steady(room) /\ room \in Room /\ ~room.started /\ ~room.request
  BY DEF Awaits, Steady, Typed, StartController
<1>2. room' = h  BY DEF StartController
<1>3. s \in Room  BY <1>1 DEF Room
<1>4. /\ s.state = room.state /\ s.timer = room.timer /\ s.started
      /\ s.paused = room.paused /\ ~s.request /\ s.unbalanced = room.unbalanced
      /\ s.readyMode = room.readyMode /\ s.team = room.team /\ s.ready = room.ready
  BY <1>1 DEF Room
<1> HIDE DEF s
<1>5. Steady(s)
  <2>1. Typed(s)  BY <1>1, <1>3, <1>4 DEF Steady, Typed
  <2>. QED  BY <1>1, <1>4, <2>1 DEF Steady, Paused
<1>6. Awaits(s)  BY <1>4, <1>5, SameAwaits
<1>7. Steady(w) /\ (w = s \/ Asks(w))
  BY <1>3, <1>4, <1>5, WarmupGameSteady, WarmupGameAsks
<1> HIDE DEF w
<1>8. Awaits(w)  BY <1>6, <1>7, AsksAwaits
<1>9. h = w \/ Asks(h)  BY <1>7, TryStartWarmupAsks
<1>. QED  BY <1>2, <1>8, <1>9, AsksAwaits

LEMMA SoftReloadAwaits ==
    ASSUME Awaits(room), Steady(room'), SoftReload
    PROVE  Awaits(room')
<1>1. room \in Room  BY DEF Awaits, Steady, Typed
<1>2. /\ room'.state = room.state /\ room'.timer = room.timer
      /\ room'.readyMode = room.readyMode
      /\ room'.team = room.team /\ room'.ready = room.ready
  BY <1>1 DEF SoftReload, Room
<1>. QED  BY <1>2, SameAwaits

\* Who joins a room that waits is asked as well.
LEMMA JoinAwaits ==
    ASSUME Awaits(room), Steady(room'), room.connecting = {},
           NEW p \in Players, NEW order \in Orders, Join(p, order)
    PROVE  Awaits(room')
<1>1. Steady(room) /\ room \in Room /\ Waiting(room, {})  BY DEF Awaits, Steady, Typed
<1>2. PICK g, t : /\ t \in Teams /\ JoinsAs(g, p, t)
                  /\ room' = TryStartWarmup(g, FALSE, order)
  BY <1>1, JoinFacts
<1>3. /\ Steady(g) /\ g.state = room.state /\ g.timer = room.timer
      /\ g.readyMode = room.readyMode
      /\ g.team = [room.team EXCEPT ![p] = t]
      /\ g.ready = [room.ready EXCEPT ![p] = ~IsPlayerReadyMode(room)]
  BY <1>2 DEF JoinsAs
<1>4. IsPlayerReadyMode(g) = IsPlayerReadyMode(room)
  BY <1>3 DEF IsPlayerReadyMode, ReadyStartsMatch, ReadyPausesMatch
<1>5. room.team \in [Players -> Teams \cup {"out"}] /\ room.ready \in [Players -> BOOLEAN]
  BY <1>1 DEF Room
<1>6. p \notin Playing(room)
  <2>1. room.team[p] = "out"  BY DEF Join
  <2>. QED  BY <2>1, SideFacts DEF Playing
<1>7. Awaits(g)
  <2> SUFFICES ASSUME IsPlayerReadyMode(g), Playing(g) # {}
               PROVE  \E q \in Playing(g) : ~g.ready[q]
    BY <1>3 DEF Awaits, Waiting
  <2>1. CASE p \in Playing(g)
    <3>1. ~g.ready[p]  BY <1>3, <1>4, <1>5
    <3>. QED  BY <2>1, <3>1
  <2>2. CASE p \notin Playing(g)
    <3>1. Playing(g) = Playing(room)  BY <1>3, <1>5, <1>6, <2>2 DEF Playing
    <3>2. PICK q \in Playing(room) : ~room.ready[q]  BY <1>1, <1>4, <3>1 DEF Waiting
    <3>3. q # p /\ q \in Players  BY <1>6 DEF Playing
    <3>4. ~g.ready[q]  BY <1>3, <1>5, <3>2, <3>3
    <3>. QED  BY <3>1, <3>4
  <2>. QED  BY <2>1, <2>2
<1>8. room' = g \/ Asks(room')  BY <1>2, <1>3, TryStartWarmupAsks
<1>. QED  BY <1>7, <1>8, AsksAwaits

\* The others wait on for one of them.
LEMMA LeaveAwaits ==
    ASSUME Awaits(room), Steady(room'),
           NEW p \in Players, NEW order \in Orders, Leave(p, order)
    PROVE  Awaits(room')
<1>1. Steady(room) /\ room \in Room  BY DEF Awaits, Steady, Typed
<1>2. PICK g : LeavesAs(g, p) /\ room' = [TryStartWarmup(CheckReadyStates(g, {p}, order), TRUE, order)
                                            EXCEPT !.team[p] = "out", !.ready[p] = FALSE]
  BY <1>1, LeaveFacts
<1> DEFINE c == CheckReadyStates(g, {p}, order)
           h == TryStartWarmup(c, TRUE, order)
<1>3. Steady(g)  BY <1>2 DEF LeavesAs
<1>4. Steady(c) /\ Waiting(c, {p})
  BY <1>3, CheckReadyStatesGoes, CheckReadyStatesWaiting DEF Goes
<1>5. room' = [h EXCEPT !.team[p] = "out", !.ready[p] = FALSE]  BY <1>2
<1> HIDE DEF c
<1>6. Steady(h) /\ (h = c \/ Asks(h))
  BY <1>4, TryStartWarmupGoes, TryStartWarmupAsks DEF Goes
<1> HIDE DEF h
<1>7. Waiting(h, {p}) /\ h \in Room  BY <1>4, <1>6, AsksWaiting DEF Steady, Typed
<1>8. /\ room'.state = h.state /\ room'.timer = h.timer /\ room'.readyMode = h.readyMode
      /\ room'.team = [h.team EXCEPT ![p] = "out"]
      /\ room'.ready = [h.ready EXCEPT ![p] = FALSE]
  BY <1>5, <1>7 DEF Room
<1>9. IsPlayerReadyMode(room') = IsPlayerReadyMode(h)
  BY <1>8 DEF IsPlayerReadyMode, ReadyStartsMatch, ReadyPausesMatch
<1>10. Playing(room') = Playing(h) \ {p}
  <2>1. h.team \in [Players -> Teams \cup {"out"}]  BY <1>7 DEF Room
  <2>. QED  BY <1>8, <2>1, SideFacts DEF Playing
<1>11. \A q \in Playing(h) \ {p} : room'.ready[q] = h.ready[q]
  <2>1. h.ready \in [Players -> BOOLEAN]  BY <1>7 DEF Room
  <2>. QED  BY <1>8, <2>1 DEF Playing
<1>12. Waiting(room', {})  BY <1>7, <1>9, <1>10, <1>11 DEF Waiting
<1>. QED  BY <1>12 DEF Awaits

LEMMA ReadyChangeAwaits ==
    ASSUME Awaits(room), NEW g, Fine(g), Steady(room'), NEW order \in Orders,
           room' = CheckReadyStates(g, {}, order)
    PROVE  Awaits(room')
  BY CheckReadyStatesWaiting DEF Awaits, Fine

LEMMA ConPauseAwaits ==
    ASSUME Awaits(room), Steady(room'), NEW s \in Seconds, ConPause(s)
    PROVE  Awaits(room')
<1>1. s \in Int /\ s >= -1  BY SettingAssumption
<1>2. room' = GamePaused(room, s)  BY DEF ConPause
<1>3. room' = room \/ Asks(room')  BY <1>1, <1>2, GamePausedAsks DEF Awaits
<1>. QED  BY <1>3, AsksAwaits

LEMMA ConRestartAwaits ==
    ASSUME Awaits(room), Steady(room'), NEW s \in Seconds, NEW order \in Orders,
           ConRestart(s, order)
    PROVE  Awaits(room')
<1>1. s \in Int  BY SettingAssumption
<1>2. \/ room' = WarmupUser(room, s, order) \/ room' = GameRunning(room) \/ room' = room
  BY DEF ConRestart
<1>3. CASE room' = WarmupUser(room, s, order)
  <2>1. room' = room \/ Asks(room')  BY <1>1, <1>3, WarmupUserAsks DEF Awaits
  <2>. QED  BY <2>1, AsksAwaits
<1>4. CASE room' = GameRunning(room)
  <2>1. room'.state = "game_running"  BY <1>4, GameRunningSteady DEF Awaits, Steady
  <2>. QED  BY <2>1, NoReadyMode, AsksAwaits
<1>. QED  BY <1>2, <1>3, <1>4, AsksAwaits

LEMMA ConTeamsAwaits ==
    ASSUME Awaits(room), NEW order \in Orders,
           \/ ConSwapTeams(order)
           \/ \E coin \in BOOLEAN : ConShuffleTeams(order, coin)
           \/ \E t \in Teams : ConSetTeamAll(t, order)
    PROVE  Awaits(room')
<1>1. CASE ConSwapTeams(order)
  BY <1>1, SwapTeamsAwaits DEF ConSwapTeams
<1>2. CASE \E coin \in BOOLEAN : ConShuffleTeams(order, coin)
  BY <1>2, ShuffleTeamsAwaits DEF ConShuffleTeams
<1>3. ASSUME NEW t \in Teams, ConSetTeamAll(t, order) PROVE Awaits(room')
  <2> DEFINE ps == InRoom(room)
             to == [p \in ps |-> t]
  <2>1. room' = ChangeTeams(room, to, order)  BY <1>3 DEF ConSetTeamAll
  <2>2. ps \in SUBSET Players /\ to \in [ps -> Teams]  BY DEF InRoom
  <2> HIDE DEF ps, to
  <2>. QED  BY <2>1, <2>2, ChangeTeamsAwaits
<1>. QED  BY <1>1, <1>2, <1>3

LEMMA SetWarmupAwaits ==
    ASSUME Awaits(room), Steady(room'), NEW n \in Warmups, SetWarmup(n)
    PROVE  Awaits(room')
<1>1. room \in Room  BY DEF Awaits, Steady, Typed
<1>2. /\ room'.state = room.state /\ room'.timer = room.timer
      /\ room'.readyMode = room.readyMode
      /\ room'.team = room.team /\ room'.ready = room.ready
  BY <1>1 DEF SetWarmup, Room
<1>. QED  BY <1>2, SameAwaits

LEMMA SetMinimumPlayersAwaits ==
    ASSUME Fine(room), Awaits(room), Steady(room'), NEW n \in Minimums, NEW order \in Orders,
           SetMinimumPlayers(n, order)
    PROVE  Awaits(room')
<1> DEFINE g == [room EXCEPT !.minimumPlayers = n]
<1>1. room \in Room /\ room' = TryStartWarmup(g, TRUE, order)
  BY DEF Awaits, Steady, Typed, SetMinimumPlayers
<1>2. /\ g \in Room
      /\ g.state = room.state /\ g.timer = room.timer /\ g.started = room.started
      /\ g.paused = room.paused /\ g.request = room.request
      /\ g.unbalanced = room.unbalanced /\ g.size = room.size /\ g.team = room.team
      /\ g.connecting = room.connecting
      /\ g.readyMode = room.readyMode /\ g.ready = room.ready
  BY <1>1 DEF Room
<1> HIDE DEF g
<1>3. Steady(g)  BY <1>2, Retuned
<1>4. Awaits(g)  BY <1>2, <1>3, SameAwaits
<1>5. room' = g \/ Asks(room')  BY <1>1, <1>3, TryStartWarmupAsks
<1>. QED  BY <1>4, <1>5, AsksAwaits

LEMMA SetCountdownAwaits ==
    ASSUME Fine(room), Awaits(room), Steady(room'), NEW n \in Countdowns, SetCountdown(n)
    PROVE  Awaits(room')
<1> DEFINE g == [room EXCEPT !.countdown = n]
<1>1. room \in Room /\ (room' = StartCountdown(g) \/ room' = g)
  BY DEF Awaits, Steady, Typed, SetCountdown
<1>2. /\ g \in Room
      /\ g.state = room.state /\ g.timer = room.timer /\ g.started = room.started
      /\ g.paused = room.paused /\ g.request = room.request
      /\ g.unbalanced = room.unbalanced /\ g.size = room.size /\ g.team = room.team
      /\ g.connecting = room.connecting
      /\ g.readyMode = room.readyMode /\ g.ready = room.ready
  BY <1>1 DEF Room
<1> HIDE DEF g
<1>3. Steady(g)  BY <1>2, Retuned
<1>4. Awaits(g)  BY <1>2, <1>3, SameAwaits
<1>5. room' = g \/ Asks(room')  BY <1>1, <1>3, StartCountdownAsks
<1>. QED  BY <1>4, <1>5, AsksAwaits

LEMMA AwaitsNext ==
    ASSUME ~Lobby, 0 \notin Warmups, "player_ready_mode" \notin Commands,
           IInv, IInv', Awaits(room), [Next]_room
    PROVE  Awaits(room')
<1>1. Fine(room) /\ Steady(room') /\ room.connecting = {}
  <2>1. Exact  BY Zenon DEF Exact
  <2>. QED  BY <2>1 DEF IInv, Fine, Sized
<1>2. CASE PlayerStep
  <2>1. PICK order \in Orders, p \in Players :
          \/ \E t \in Teams : Connect(p, t)
          \/ DropConnecting(p, order)
          \/ Join(p, order)
          \/ Leave(p, order)
          \/ \E t \in Teams : ChangeTeam(p, t, order)
          \/ OnPlayerReadyChange(p, order)
    BY <1>2 DEF PlayerStep
  <2>2. ~(\E t \in Teams : Connect(p, t)) /\ ~DropConnecting(p, order)
    <3>1. ~(\E t \in Teams : Connect(p, t))  BY Zenon DEF Connect
    <3>. QED  BY <1>1, <3>1 DEF DropConnecting
  <2>3. CASE Join(p, order)  BY <1>1, <2>3, JoinAwaits
  <2>4. CASE Leave(p, order)  BY <1>1, <2>4, LeaveAwaits
  <2>5. CASE \E t \in Teams : ChangeTeam(p, t, order)
    BY <2>5, DoTeamChangeAwaits DEF ChangeTeam
  <2>6. CASE OnPlayerReadyChange(p, order)
    <3>1. PICK g \in Room : Fine(g) /\ room' = CheckReadyStates(g, {}, order)
      BY <2>6, ReadyChangeFacts
    <3>. QED  BY <1>1, <3>1, ReadyChangeAwaits
  <2>. QED  BY <2>1, <2>2, <2>3, <2>4, <2>5, <2>6
<1>3. CASE CommandStep
  <2>1. PICK order \in Orders :
          \/ \E p \in Players, t \in Teams : ForceTeam(p, t, order)
          \/ \E s \in Seconds : ConPause(s) \/ ConRestart(s, order)
          \/ ConSwapTeams(order)
          \/ \E coin \in BOOLEAN : ConShuffleTeams(order, coin)
          \/ \E t \in Teams : ConSetTeamAll(t, order)
          \/ \E n \in Warmups : SetWarmup(n)
          \/ \E n \in ReadyModes : SetReadyMode(n)
          \/ \E n \in Minimums : SetMinimumPlayers(n, order)
          \/ \E n \in Countdowns : SetCountdown(n)
    BY <1>3 DEF CommandStep
  <2>2. CASE \E p \in Players, t \in Teams : ForceTeam(p, t, order)
    BY <2>2, DoTeamChangeAwaits DEF ForceTeam
  <2>3. CASE \E s \in Seconds : ConPause(s) \/ ConRestart(s, order)
    BY <1>1, <2>3, ConPauseAwaits, ConRestartAwaits
  <2>4. CASE \/ ConSwapTeams(order)
             \/ \E coin \in BOOLEAN : ConShuffleTeams(order, coin)
             \/ \E t \in Teams : ConSetTeamAll(t, order)
    BY <2>4, ConTeamsAwaits
  <2>5. CASE \E n \in Warmups : SetWarmup(n)  BY <1>1, <2>5, SetWarmupAwaits
  <2>6. ~(\E n \in ReadyModes : SetReadyMode(n))  BY Zenon DEF SetReadyMode
  <2>7. CASE \E n \in Minimums : SetMinimumPlayers(n, order)
    BY <1>1, <2>7, SetMinimumPlayersAwaits
  <2>8. CASE \E n \in Countdowns : SetCountdown(n)  BY <1>1, <2>8, SetCountdownAwaits
  <2>. QED  BY <2>1, <2>2, <2>3, <2>4, <2>5, <2>6, <2>7, <2>8
<1>4. CASE ServerStep
  <2>1. PICK order \in Orders :
          \/ \E canPause, coin, decided \in BOOLEAN : Tick(canPause, order, coin, decided)
          \/ StartController(order)
    BY <1>4 DEF ServerStep
  <2>. QED  BY <1>1, <2>1, TickAwaits, StartControllerAwaits
<1>5. CASE SoftReload  BY <1>1, <1>5, SoftReloadAwaits
<1>6. CASE UNCHANGED room
  <2>1. room' = room  BY <1>6
  <2>. QED  BY <2>1
<1>. QED  BY <1>2, <1>3, <1>4, <1>5, <1>6 DEF Next

\* Under the same conditions, and as long as nobody changes player_ready_mode, a room
\* that waits for its players to be ready always waits for somebody: whoever leaves,
\* spectates or joins while it waits, there is one whose answer ends the wait.
THEOREM SomebodyIsAwaited ==
    ASSUME ~Lobby, 0 \notin Warmups, "player_ready_mode" \notin Commands
    PROVE  Spec => []SomeoneToWaitFor
<1> DEFINE WInv == Awaits(room)
<1>1. Init => WInv
  <2> SUFFICES ASSUME Init PROVE WInv
    OBVIOUS
  <2>1. IInv  BY InitStep
  <2>2. room.state = "game_running"  BY DEF Init
  <2>3. Waiting(room, {})  BY <2>2, NoReadyMode, AsksWaiting
  <2>. QED  BY <2>1, <2>3 DEF IInv, Fine, Awaits
<1>2. IInv /\ IInv' /\ WInv /\ [Next]_room => WInv'
  <2> SUFFICES ASSUME IInv, IInv', WInv, [Next]_room PROVE WInv'
    OBVIOUS
  <2>1. Awaits(room')  BY AwaitsNext
  <2>2. WInv' <=> Awaits(room')  BY DEF Awaits, Waiting
  <2>. QED  BY <2>1, <2>2
<1>3. WInv => SomeoneToWaitFor  BY DEF Awaits, Waiting, SomeoneToWaitFor
<1> HIDE DEF WInv
<1>. QED  BY <1>1, <1>2, <1>3, Invariant, PTL DEF Spec

-----------------------------------------------------------------------------
(* What becomes of a match without players, and of a warm-up.              *)

\* Without teams, or with sizes that are exact, balancing takes no team's last player.
Level(g) == ~Teamplay \/ (Exact /\ Sized(g))

Lost(g) == HasNoPlayers(g) /\ g.state # "warmup_game"

Even(g, h)   == Level(g) => (HasNoPlayers(h) <=> HasNoPlayers(g))
Resets(g, h) == Level(g) => (Lost(h) => Lost(g))

Warm(g) == g.state \in {"warmup_game", "warmup_user"}

\* A warm-up, or what comes out of one: a match with players, which the balancer leaves alone
Manned(g) ==
    \/ Warm(g)
    \/ /\ g.state \in {"start_countdown", "game_running"}
       /\ HasEnoughPlayers(g)
       /\ g.unbalanced = TBALANCE_OK \/ ~NeedsBalance(g)

Opens(g, h) == Warm(g) => Manned(h)
Warms(g, h) == Exact /\ Warm(g) => Warm(h)

LEMMA LevelGoes == ASSUME NEW g, NEW h, Goes(g, h) PROVE Steady(h) /\ (Level(g) => Level(h))
  BY DEF Level, Goes

LEMMA SteadyRoom == ASSUME NEW g, Steady(g) PROVE g \in Room /\ Typed(g)
  BY DEF Steady, Typed

LEMMA SameEven == ASSUME NEW g PROVE Even(g, g) /\ Resets(g, g) /\ Warms(g, g) /\ Opens(g, g)
  BY DEF Even, Resets, Warms, Opens, Manned

LEMMA PlacedEven ==
    ASSUME NEW g, NEW h, Placed(g, h)
    PROVE  HasNoPlayers(h) <=> HasNoPlayers(g)
  BY DEF Placed, HasNoPlayers

LEMMA EvenTwice ==
    ASSUME NEW f, NEW g, NEW h, Goes(f, g), Even(f, g), Even(g, h)
    PROVE  Even(f, h)
  BY LevelGoes DEF Even

\* A room in the middle of a match is not lost by what moves nobody.
LEMMA EvenResets ==
    ASSUME NEW g, NEW h, Even(g, h), g.state # "warmup_game"
    PROVE  Resets(g, h)
  BY DEF Even, Resets, Lost

LEMMA EnoughAreSome ==
    ASSUME NEW g \in Room, HasEnoughPlayers(g)
    PROVE  ~HasNoPlayers(g)
<1>1. "red" \in Sides  BY SideFacts
<1>2. g.size["red"] > 0 /\ g.size["red"] \in Int  BY <1>1 DEF HasEnoughPlayers, Room
<1>. QED  BY <1>1, <1>2 DEF HasNoPlayers

LEMMA SizedEmpty ==
    ASSUME NEW g, Sized(g)
    PROVE  HasNoPlayers(g) <=> Playing(g) = {}
<1>1. ASSUME NEW t \in Sides PROVE g.size[t] = 0 <=> OfTeam(g, t) = {}
  <2>1. g.size[t] = Cardinality(OfTeam(g, t))  BY DEF Sized
  <2>2. IsFiniteSet(OfTeam(g, t))  BY TeamsFinite
  <2>. QED  BY <2>1, <2>2, FS_EmptySet
<1>2. Playing(g) = {} <=> \A t \in Sides : OfTeam(g, t) = {}
  BY DEF Playing, OfTeam
<1>. QED  BY <1>1, <1>2 DEF HasNoPlayers

LEMMA ResetGameEven ==
    ASSUME NEW g, Steady(g), NEW order \in Orders
    PROVE  LET h == ResetGame(g, order)
           IN  /\ Even(g, h)
               /\ h.unbalanced = TBALANCE_OK \/ ~NeedsBalance(h)
<1> DEFINE k == GameRunning(g)
           x == [k EXCEPT !.reset = TRUE]
           t == Bigger(x)
           pass == [r \in Room |-> IF OfTeam(r, t) = {} THEN r
                                   ELSE MoveTo(r, First(OfTeam(r, t), order), Other(t))]
           S == {r \in Room : Steady(r) /\ Playing(r) # {}}
           y == Times(Passes(x), pass, x)
           h == ResetGame(g, order)
<1>1. Steady(k) /\ Still(g, k)  BY SteadyRoom, GameRunningSteady
<1>2. Goes(g, h) /\ (HasNoPlayers(g) => Still(g, h))  BY SteadyRoom, ResetGameGoes
<1>3. h = IF NeedsBalance(x) THEN Balanced(y) ELSE x  BY DEF ResetGame
<1> HIDE DEF k
<1>4. x \in Room /\ Steady(x) /\ Still(k, x)
  <2>1. k \in Room /\ Typed(k)  BY <1>1 DEF Steady, Typed
  <2>2. x \in Room  BY <2>1 DEF Room
  <2>3. /\ x.state = k.state /\ x.timer = k.timer /\ x.started = k.started
        /\ x.paused = k.paused /\ x.request = k.request /\ x.unbalanced = k.unbalanced
    BY <2>1 DEF Room
  <2>4. Still(k, x)  BY <2>1 DEF Room, Still, Placed, Frame
  <2> HIDE DEF x
  <2>5. x.unbalanced \in TBALANCE_CHECK .. TeambalanceTime  BY <2>1, <2>3 DEF Typed
  <2>. QED  BY <1>1, <2>2, <2>3, <2>4, <2>5, Alike
<1> HIDE DEF x, h
<1>5. Still(g, x)  BY <1>1, <1>4, StillTwice
<1>6. CASE ~NeedsBalance(x)
  <2>1. h = x  BY <1>3, <1>6
  <2>2. HasNoPlayers(x) <=> HasNoPlayers(g)  BY <1>5, PlacedEven DEF Still
  <2>. QED  BY <1>6, <2>1, <2>2 DEF Even, h
<1>7. CASE NeedsBalance(x)
  <2>1. /\ Passes(x) \in Nat /\ t \in Sides /\ Other(t) \in Teams /\ Teamplay
        /\ ~HasNoPlayers(x)
    BY <1>4, <1>7, BalanceFacts DEF NeedsBalance, AreTeamsUnbalanced
  <2>2. Other(t) \in Sides  BY <2>1, OtherSide
  <2> HIDE DEF t
  <2>3. ASSUME NEW r \in S PROVE pass[r] \in S
    <3>1. r \in Room /\ Steady(r) /\ Playing(r) # {}  OBVIOUS
    <3>2. CASE OfTeam(r, t) = {}  BY <3>1, <3>2
    <3>3. CASE OfTeam(r, t) # {}
      <4> DEFINE p == First(OfTeam(r, t), order)
                 m == MoveTo(r, p, Other(t))
      <4>1. p \in Players
        <5>1. OfTeam(r, t) \in SUBSET Players  BY DEF OfTeam
        <5>. QED  BY <3>3, <5>1, FirstIsIn
      <4>2. pass[r] = m  BY <3>1, <3>3
      <4> HIDE DEF p
      <4>3. Steady(m) /\ Moved(r, m, p, Other(t))  BY <2>1, <3>1, <4>1, MoveToSteady
      <4> HIDE DEF m
      <4>4. m.team = [r.team EXCEPT ![p] = Other(t)]  BY <4>3 DEF Moved
      <4>5. r.team \in [Players -> Teams \cup {"out"}]  BY <3>1 DEF Room
      <4>6. p \in Playing(m)  BY <2>2, <4>1, <4>4, <4>5 DEF Playing
      <4>7. m \in Room  BY <4>3 DEF Steady, Typed
      <4>. QED  BY <4>2, <4>3, <4>6, <4>7
    <3>. QED  BY <3>2, <3>3
  <2>4. ASSUME Sized(g) PROVE ~HasNoPlayers(g) /\ ~HasNoPlayers(h)
    <3>1. Sized(g) /\ Sized(h) /\ Sized(x)
      <4>1. Sized(g)  BY <2>4
      <4>2. Sized(h)  BY <1>2, <4>1 DEF Goes
      <4>. QED  BY <1>5, <4>1, <4>2, PlacedSized DEF Still
    <3>2. ~HasNoPlayers(g)  BY <1>5, <2>1, PlacedEven DEF Still
    <3>3. x \in S  BY <1>4, <2>1, <3>1, SizedEmpty
    <3> HIDE DEF S, pass
    <3>4. y \in S  BY <2>1, <2>3, <3>3, TimesKeeps
    <3> HIDE DEF y
    <3>5. Steady(y) /\ Playing(y) # {}  BY <3>4 DEF S
    <3>6. h = Balanced(y) /\ Placed(y, Balanced(y))  BY <1>3, <1>7, <3>5, BalancedSteady
    <3>7. Playing(h) # {}  BY <3>5, <3>6 DEF Placed, Playing
    <3>. QED  BY <3>1, <3>2, <3>7, SizedEmpty
  <2>5. h.unbalanced = TBALANCE_OK
    <3> DEFINE S2 == {r \in Room : Steady(r)}
    <3>1. ASSUME NEW r \in S2 PROVE pass[r] \in S2
      <4>1. CASE OfTeam(r, t) = {}  BY <4>1
      <4>2. CASE OfTeam(r, t) # {}
        <5> DEFINE p == First(OfTeam(r, t), order)
                   m == MoveTo(r, p, Other(t))
        <5>1. p \in Players
          <6>1. OfTeam(r, t) \in SUBSET Players  BY DEF OfTeam
          <6>. QED  BY <4>2, <6>1, FirstIsIn
        <5>2. pass[r] = m  BY <4>2
        <5> HIDE DEF p
        <5>3. Steady(m)  BY <2>1, <5>1, MoveToSteady
        <5> HIDE DEF m
        <5>. QED  BY <5>2, <5>3 DEF Steady, Typed
      <4>. QED  BY <4>1, <4>2
    <3>2. x \in S2  BY <1>4
    <3> HIDE DEF S2, pass
    <3>3. y \in S2  BY <2>1, <3>1, <3>2, TimesKeeps
    <3> HIDE DEF y
    <3>4. y \in Room  BY <3>3 DEF S2
    <3>5. h = [y EXCEPT !.unbalanced = TBALANCE_OK]  BY <1>3, <1>7 DEF Balanced
    <3>. QED  BY <3>4, <3>5 DEF Room
  <2>. QED  BY <2>1, <2>4, <2>5 DEF Even, Level, h
<1>. QED  BY <1>6, <1>7

LEMMA MannedPlaced ==
    ASSUME NEW g, NEW h, Still(g, h), HasEnoughPlayers(g),
           g.unbalanced = TBALANCE_OK \/ ~NeedsBalance(g),
           h.state \in {"start_countdown", "game_running"}
    PROVE  Manned(h)
<1>1. HasEnoughPlayers(h)  BY StillEnough
<1>2. h.unbalanced = g.unbalanced /\ h.size = g.size  BY DEF Still, Placed
<1>. QED  BY <1>1, <1>2 DEF Manned, NeedsBalance, AreTeamsUnbalanced

LEMMA StartMatchKeeps ==
    ASSUME NEW g, Steady(g), NEW order \in Orders
    PROVE  LET h == StartMatch(g, order) IN Even(g, h) /\ Resets(g, h) /\ Opens(g, h)
<1> DEFINE r == ResetGame(g, order)
           h == StartMatch(g, order)
<1>0. g \in Room /\ Steady(g) /\ Typed(g)  BY SteadyRoom
<1>1. Goes(g, r) /\ r.state = "game_running"  BY <1>0, ResetGameGoes
<1>2. Even(g, r) /\ (r.unbalanced = TBALANCE_OK \/ ~NeedsBalance(r))  BY ResetGameEven
<1>3. h = IF IsWarmup(g) /\ ~HasEnoughPlayers(g) THEN WarmupGame(g)
          ELSE IF HasEnoughPlayers(r) THEN StartCountdown(r)
          ELSE BeginWarmupUser(r, TIMER_INFINITE)
  BY DEF StartMatch
<1>4. Steady(r) /\ Typed(r) /\ (Level(g) => Level(r))  BY <1>1, LevelGoes DEF Steady
<1>5. g.state = "warmup_game" /\ HasNoPlayers(g) => h.state = "warmup_game"
  <2> SUFFICES ASSUME g.state = "warmup_game", HasNoPlayers(g) PROVE h.state = "warmup_game"
    OBVIOUS
  <2>1. IsWarmup(g) /\ ~HasEnoughPlayers(g)  BY <1>0, EnoughAreSome DEF IsWarmup
  <2> HIDE DEF r, h
  <2>2. h = WarmupGame(g)  BY <1>3, <2>1
  <2>. QED  BY <2>2, <1>0, WarmupGameSteady
<1> HIDE DEF r, h
<1>6. Even(g, h) /\ Opens(g, h)
  <2>1. CASE IsWarmup(g) /\ ~HasEnoughPlayers(g)
    <3> DEFINE k == WarmupGame(g)
    <3>1. g.state = "game_running" => ~g.request  BY <1>0, <2>1 DEF IsWarmup, Steady
    <3>2. Still(g, k) /\ (Warm(g) => k.state = "warmup_game")
      BY <1>0, <3>1, WarmupGameSteady DEF Warm
    <3>3. h = k  BY <1>3, <2>1
    <3> HIDE DEF k
    <3>4. HasNoPlayers(k) <=> HasNoPlayers(g)  BY <3>2, PlacedEven DEF Still
    <3>. QED  BY <3>2, <3>3, <3>4 DEF Even, Opens, Manned, Warm
  <2>2. CASE ~(IsWarmup(g) /\ ~HasEnoughPlayers(g)) /\ HasEnoughPlayers(r)
    <3> DEFINE k == StartCountdown(r)
    <3>1. Still(r, k) /\ (k = r \/ k.state \in {"start_countdown", "game_running"})
      BY <1>4, StartCountdownSteady
    <3>2. h = k  BY <1>3, <2>2
    <3> HIDE DEF k
    <3>3. k.state \in {"start_countdown", "game_running"}  BY <1>1, <3>1
    <3>4. Manned(k)  BY <1>2, <2>2, <3>1, <3>3, MannedPlaced
    <3>5. HasNoPlayers(k) <=> HasNoPlayers(r)  BY <3>1, PlacedEven DEF Still
    <3>. QED  BY <1>2, <3>2, <3>4, <3>5 DEF Even, Opens
  <2>3. CASE ~(IsWarmup(g) /\ ~HasEnoughPlayers(g)) /\ ~HasEnoughPlayers(r)
    <3> DEFINE k == BeginWarmupUser(r, TIMER_INFINITE)
    <3>1. Still(r, k) /\ k.state = "warmup_user"
      BY <1>4, TimerType, BeginWarmupUserSteady
    <3>2. h = k  BY <1>3, <2>3
    <3> HIDE DEF k
    <3>3. HasNoPlayers(k) <=> HasNoPlayers(r)  BY <3>1, PlacedEven DEF Still
    <3>. QED  BY <1>2, <3>1, <3>2, <3>3 DEF Even, Opens, Manned, Warm
  <2>. QED  BY <2>1, <2>2, <2>3
<1>7. Resets(g, h)  BY <1>5, <1>6 DEF Resets, Lost, Even
<1>. QED  BY <1>6, <1>7 DEF h

LEMMA WarmupUserKeeps ==
    ASSUME NEW g, Steady(g), NEW s \in Int, NEW order \in Orders
    PROVE  LET h == WarmupUser(g, s, order)
           IN  Even(g, h) /\ Opens(g, h) /\ (s # 0 => Warms(g, h))
<1> DEFINE h == WarmupUser(g, s, order)
<1>1. CASE g.state \in {"start_countdown", "end_match"}
  <2>1. h = g  BY <1>1 DEF WarmupUser
  <2>. QED  BY <2>1, SameEven
<1>2. CASE g.state \notin {"start_countdown", "end_match"} /\ s # 0
  <2> DEFINE k == BeginWarmupUser(g, s)
  <2>1. Still(g, k) /\ k.state = "warmup_user"  BY SteadyRoom, BeginWarmupUserSteady
  <2>2. h = k  BY <1>2 DEF WarmupUser
  <2> HIDE DEF h, k
  <2>3. HasNoPlayers(k) <=> HasNoPlayers(g)  BY <2>1, PlacedEven DEF Still
  <2>. QED  BY <2>1, <2>2, <2>3 DEF Even, Opens, Manned, Warms, Warm, h
<1>3. CASE g.state \notin {"start_countdown", "end_match"} /\ s = 0
  <2>1. h = StartMatch(g, order)  BY <1>3 DEF WarmupUser
  <2>. QED  BY <1>3, <2>1, StartMatchKeeps
<1>. QED  BY <1>1, <1>2, <1>3

LEMMA AwaitPlayersKeeps ==
    ASSUME NEW g, Steady(g), NEW fallback \in BOOLEAN, NEW order \in Orders
    PROVE  LET h == AwaitPlayers(g, fallback, order)
           IN  /\ Even(g, h) /\ Resets(g, h) /\ Warms(g, h)
               /\ Manned(g) => Manned(h)
<1> DEFINE h == AwaitPlayers(g, fallback, order)
<1>0. g \in Room /\ Steady(g)  BY SteadyRoom
<1>1. CASE h = g  BY <1>1, SameEven
<1>2. ASSUME NEW s \in Int, h = WarmupUser(g, s, order), Warm(g), HasEnoughPlayers(g),
             Exact => s # 0
      PROVE  /\ Even(g, h) /\ Resets(g, h) /\ Warms(g, h)
             /\ Manned(g) => Manned(h)
  <2> HIDE DEF h
  <2>1. Even(g, h) /\ Opens(g, h) /\ (s # 0 => Warms(g, h))  BY <1>2, WarmupUserKeeps
  <2>2. ~HasNoPlayers(g)  BY <1>0, <1>2, EnoughAreSome
  <2>. QED  BY <1>2, <2>1, <2>2 DEF Even, Resets, Lost, Opens, Warms
<1>3. CASE /\ g.state \in {"warmup_game", "warmup_user"} /\ g.timer = TIMER_INFINITE
           /\ ~HasEnoughPlayers(g) /\ fallback
  <2> DEFINE r == SetPlayersReadyState(g, TRUE)
             k == WarmupGame(r)
  <2>1. Steady(r) /\ Still(g, r) /\ r.state = g.state  BY <1>0, ReadySteady
  <2>2. h = k  BY <1>3 DEF AwaitPlayers
  <2> HIDE DEF r
  <2>3. Still(r, k) /\ k.state = "warmup_game"
    BY <1>3, <2>1, WarmupGameSteady
  <2> HIDE DEF h, k
  <2>4. Still(g, k)  BY <2>1, <2>3, StillTwice
  <2>5. HasNoPlayers(k) <=> HasNoPlayers(g)  BY <2>4, PlacedEven DEF Still
  <2>. QED  BY <2>2, <2>3, <2>5 DEF Even, Resets, Lost, Warms, Manned, Warm, h
<1>4. \/ h = g
      \/ /\ Warm(g) /\ HasEnoughPlayers(g)
         /\ h = WarmupUser(g, g.warmup, order) \/ h = WarmupUser(g, TIMER_INFINITE, order)
      \/ /\ g.state \in {"warmup_game", "warmup_user"} /\ g.timer = TIMER_INFINITE
         /\ ~HasEnoughPlayers(g) /\ fallback
  BY DEF AwaitPlayers, Warm
<1>5. /\ g.warmup \in Int /\ (Exact => g.warmup # 0)
      /\ TIMER_INFINITE \in Int /\ TIMER_INFINITE # 0
  BY <1>0, WarmupFacts DEF TIMER_INFINITE
<1> HIDE DEF h
<1>. QED  BY <1>1, <1>2, <1>3, <1>4, <1>5 DEF h

LEMMA ResetMatchKeeps ==
    ASSUME NEW g, Steady(g), NEW order \in Orders
    PROVE  LET h == ResetMatch(g, order)
           IN  Even(g, h) /\ (Level(g) => ~Lost(h)) /\ Manned(h) /\ (Exact => Warm(h))
<1> DEFINE r == ResetGame(g, order)
           k == WarmupGame(r)
           h == AwaitPlayers(k, FALSE, order)
<1>1. Goes(g, r) /\ r.state = "game_running" /\ ~r.request  BY SteadyRoom, ResetGameGoes
<1>2. Even(g, r)  BY ResetGameEven
<1>3. ResetMatch(g, order) = h  BY DEF ResetMatch
<1> HIDE DEF r
<1>4. Steady(r)  BY <1>1, LevelGoes
<1>5. Steady(k) /\ Still(r, k) /\ k.state = "warmup_game"  BY <1>1, <1>4, WarmupGameSteady
<1> HIDE DEF k
<1>6. Goes(g, k)  BY <1>1, <1>5, StillGoes, GoesTwice
<1>7. Even(r, k)  BY <1>5, PlacedEven DEF Still, Even
<1>8. Even(k, h) /\ Resets(k, h) /\ Warms(k, h) /\ (Manned(k) => Manned(h))
  BY <1>5, AwaitPlayersKeeps
<1> HIDE DEF h
<1>9. Even(g, h)  BY <1>1, <1>2, <1>6, <1>7, <1>8, EvenTwice
<1>. QED  BY <1>3, <1>5, <1>6, <1>8, <1>9, LevelGoes DEF Resets, Lost, Warms, Manned, Warm, h

LEMMA TryStartWarmupKeeps ==
    ASSUME NEW g, Steady(g), NEW fallback \in BOOLEAN, NEW order \in Orders
    PROVE  LET h == TryStartWarmup(g, fallback, order)
           IN  /\ Even(g, h) /\ (Level(g) => ~Lost(h)) /\ Warms(g, h)
               /\ Manned(g) => Manned(h)
<1> DEFINE h == TryStartWarmup(g, fallback, order)
<1>1. CASE g.state # "warmup_game" /\ HasNoPlayers(g)
  <2>1. h = ResetMatch(g, order)  BY <1>1 DEF TryStartWarmup
  <2>. QED  BY <2>1, ResetMatchKeeps DEF Warms
<1>2. CASE ~(g.state # "warmup_game" /\ HasNoPlayers(g))
  <2>1. h = AwaitPlayers(g, fallback, order)  BY <1>2 DEF TryStartWarmup
  <2> HIDE DEF h
  <2>2. /\ Even(g, h) /\ Resets(g, h) /\ Warms(g, h) /\ (Manned(g) => Manned(h))
    BY <2>1, AwaitPlayersKeeps
  <2>. QED  BY <1>2, <2>2 DEF Resets, Lost, h
<1>. QED  BY <1>1, <1>2

LEMMA CheckReadyStatesKeeps ==
    ASSUME NEW g, Steady(g), NEW without, NEW order \in Orders
    PROVE  LET h == CheckReadyStates(g, without, order)
           IN  Even(g, h) /\ Resets(g, h) /\ Warms(g, h) /\ Opens(g, h)
<1> DEFINE h == CheckReadyStates(g, without, order)
<1>0. g \in Room /\ Steady(g)  BY SteadyRoom
<1>1. CASE h = g  BY <1>1, SameEven
<1>2. CASE g.state = "warmup_user" /\ h = WarmupUser(g, g.warmup, order)
  <2>1. g.warmup \in Int /\ (Exact => g.warmup # 0)  BY <1>0, WarmupFacts
  <2> HIDE DEF h
  <2>2. Even(g, h) /\ Opens(g, h) /\ (g.warmup # 0 => Warms(g, h))
    BY <1>2, <2>1, WarmupUserKeeps
  <2>3. Resets(g, h)  BY <1>2, <2>2, EvenResets
  <2>. QED  BY <2>1, <2>2, <2>3 DEF Warms, h
<1>3. CASE g.state = "game_paused" /\ h = GamePaused(g, 0)
  <2> DEFINE k == GamePaused(g, 0)
  <2>1. Still(g, k)  BY <1>0, GamePausedSteady
  <2> HIDE DEF h, k
  <2>2. Even(g, k)  BY <2>1, PlacedEven DEF Still, Even
  <2>3. Resets(g, k)  BY <1>3, <2>2, EvenResets
  <2>. QED  BY <1>3, <2>2, <2>3 DEF Warms, Opens, Warm, h, k
<1>4. \/ h = g
      \/ g.state = "warmup_user" /\ h = WarmupUser(g, g.warmup, order)
      \/ g.state = "game_paused" /\ h = GamePaused(g, 0)
  BY DEF CheckReadyStates
<1>. QED  BY <1>1, <1>2, <1>3, <1>4

\* A team change, and whatever else it sets off
LEMMA DoTeamChangeKeeps ==
    ASSUME NEW g, Steady(g), NEW p \in Players, NEW t \in Teams, NEW order \in Orders
    PROVE  LET h == DoTeamChange(g, p, t, order)
           IN  Resets(g, h) /\ Warms(g, h) /\ Opens(g, h)
<1>1. CASE t = g.team[p]
  BY <1>1, SameEven DEF DoTeamChange
<1>2. CASE t # g.team[p]
  <2> DEFINE m == MoveTo(g, p, t)
             c == CheckReadyStates(m, {}, order)
             h == TryStartWarmup(c, TRUE, order)
  <2>1. DoTeamChange(g, p, t, order) = h  BY <1>2 DEF DoTeamChange
  <2>2. Goes(g, m) /\ m.state = g.state  BY SteadyRoom, MoveToGoes
  <2> HIDE DEF m
  <2>3. Steady(m) /\ (Level(g) => Level(m))  BY <2>2, LevelGoes, SteadyRoom
  <2>4. Goes(m, c)  BY <2>3, CheckReadyStatesGoes
  <2>5. Warms(m, c) /\ Opens(m, c)  BY <2>3, CheckReadyStatesKeeps
  <2> HIDE DEF c
  <2>6. Steady(c) /\ (Level(m) => Level(c))  BY <2>4, LevelGoes
  <2>7. (Level(c) => ~Lost(h)) /\ Warms(c, h) /\ (Manned(c) => Manned(h))
    BY <2>6, TryStartWarmupKeeps
  <2> HIDE DEF h
  <2>. QED  BY <2>1, <2>2, <2>3, <2>5, <2>6, <2>7 DEF Resets, Warms, Opens, Warm
<1>. QED  BY <1>1, <1>2

\* What the loops over the players keep of the room g they began with
Since(g, r) == Goes(g, r) /\ Resets(g, r) /\ Warms(g, r)

LEMMA SinceSame == ASSUME NEW g, Steady(g) PROVE Since(g, g)
  BY SteadyRoom, SameFrame, StillGoes, SameEven DEF Since

LEMMA SinceChange ==
    ASSUME NEW g, Steady(g), NEW r, Since(g, r), NEW p \in Players, NEW t \in Teams,
           NEW order \in Orders
    PROVE  LET h == DoTeamChange(r, p, t, order) IN Since(g, h) /\ h \in Room
<1> DEFINE h == DoTeamChange(r, p, t, order)
<1>1. Steady(r) /\ (Level(g) => Level(r))  BY LevelGoes DEF Since
<1>2. Goes(r, h)  BY <1>1, DoTeamChangeGoes
<1>3. Resets(r, h) /\ Warms(r, h)  BY <1>1, DoTeamChangeKeeps
<1> HIDE DEF h
<1>4. Goes(g, h)  BY <1>2, GoesTwice DEF Since
<1>5. h \in Room  BY <1>2 DEF Goes, Steady, Typed
<1>. QED  BY <1>1, <1>3, <1>4, <1>5 DEF Since, Resets, Warms, h

LEMMA DoTeamBalanceKeeps ==
    ASSUME NEW g, Steady(g), NEW order \in Orders
    PROVE  LET h == DoTeamBalance(g, order)
           IN  Resets(g, h) /\ Warms(g, h)
<1> DEFINE t == Bigger(g)
           pass == [r \in Room |->
                      IF OfTeam(r, t) = {} THEN r
                      ELSE DoTeamChange(r, First(OfTeam(r, t), order), Other(t), order)]
           S == {r \in Room : Since(g, r)}
           y == Times(Passes(g), pass, g)
<1>1. g \in Room  BY SteadyRoom
<1>2. DoTeamBalance(g, order) = IF NeedsBalance(g) THEN Balanced(y) ELSE g
  BY DEF DoTeamBalance
<1>3. CASE ~NeedsBalance(g)  BY <1>2, <1>3, SameEven
<1>4. CASE NeedsBalance(g)
  <2>1. Passes(g) \in Nat /\ Other(t) \in Teams  BY <1>1, <1>4, BalanceFacts
  <2> HIDE DEF t
  <2>2. ASSUME NEW r \in S PROVE pass[r] \in S
    <3>1. r \in Room /\ Since(g, r)  OBVIOUS
    <3>2. CASE OfTeam(r, t) = {}  BY <3>1, <3>2
    <3>3. CASE OfTeam(r, t) # {}
      <4> DEFINE p == First(OfTeam(r, t), order)
                 m == DoTeamChange(r, p, Other(t), order)
      <4>1. p \in Players
        <5>1. OfTeam(r, t) \in SUBSET Players  BY DEF OfTeam
        <5>. QED  BY <3>3, <5>1, FirstIsIn
      <4>2. pass[r] = m  BY <3>1, <3>3
      <4> HIDE DEF p
      <4>3. Since(g, m) /\ m \in Room  BY <2>1, <3>1, <4>1, SinceChange
      <4> HIDE DEF m
      <4>. QED  BY <4>2, <4>3
    <3>. QED  BY <3>2, <3>3
  <2>3. g \in S  BY <1>1, SinceSame
  <2> HIDE DEF pass, S
  <2>4. y \in S  BY <2>1, <2>2, <2>3, TimesKeeps
  <2> HIDE DEF y
  <2>5. Since(g, y)  BY <2>4 DEF S
  <2>6. Placed(y, Balanced(y)) /\ Balanced(y).state = y.state
    BY <2>5, BalancedSteady DEF Since, Goes
  <2>7. HasNoPlayers(Balanced(y)) <=> HasNoPlayers(y)  BY <2>6, PlacedEven
  <2>8. Resets(g, Balanced(y)) /\ Warms(g, Balanced(y))
    BY <2>5, <2>6, <2>7 DEF Since, Resets, Warms, Lost, Warm
  <2>. QED  BY <1>2, <1>4, <2>8
<1>. QED  BY <1>3, <1>4

LEMMA ChangeTeamsKeeps ==
    ASSUME NEW g, Steady(g), NEW ps \in SUBSET Players, NEW to \in [ps -> Teams],
           NEW order \in Orders
    PROVE  Since(g, ChangeTeams(g, to, order))
<1> DEFINE R == [room : Room, todo : SUBSET ps]
           change == [r \in R |->
                        IF r.todo = {} THEN r
                        ELSE LET p == First(r.todo, order)
                             IN  [room |-> DoTeamChange(r.room, p, to[p], order),
                                  todo |-> r.todo \ {p}]]
           S == {r \in R : Since(g, r.room)}
           x == [room |-> g, todo |-> ps]
           n == Cardinality(ps)
<1>1. g \in Room  BY SteadyRoom
<1>2. ChangeTeams(g, to, order) = Times(n, change, x).room
  <2>1. DOMAIN to = ps  OBVIOUS
  <2>. QED  BY <2>1, Zenon DEF ChangeTeams
<1>3. n \in Nat  BY PlayerAssumption, FS_Subset, FS_CardinalityType
<1>4. x \in S  BY <1>1, SinceSame
<1>5. ASSUME NEW r \in S PROVE change[r] \in S
  <2>1. r \in R /\ Since(g, r.room)  OBVIOUS
  <2>2. CASE r.todo = {}  BY <2>1, <2>2
  <2>3. CASE r.todo # {}
    <3> DEFINE p == First(r.todo, order)
               m == DoTeamChange(r.room, p, to[p], order)
    <3>1. p \in r.todo /\ r.todo \in SUBSET ps
      <4>1. r.todo \in SUBSET Players  BY <2>1
      <4>. QED  BY <2>1, <2>3, <4>1, FirstIsIn
    <3>2. change[r] = [room |-> m, todo |-> r.todo \ {p}]  BY <2>1, <2>3
    <3> HIDE DEF p
    <3>3. p \in Players /\ to[p] \in Teams  BY <3>1
    <3>4. Since(g, m) /\ m \in Room  BY <2>1, <3>3, SinceChange
    <3> HIDE DEF m
    <3>. QED  BY <2>1, <3>1, <3>2, <3>4
  <2>. QED  BY <2>2, <2>3
<1> DEFINE y == Times(n, change, x)
<1> HIDE DEF n, change, x
<1>6. y \in S
  <2> HIDE DEF S
  <2>. QED  BY <1>3, <1>4, <1>5, TimesKeeps
<1> HIDE DEF y
<1>7. ChangeTeams(g, to, order) = y.room  BY <1>2 DEF y
<1>. QED  BY <1>6, <1>7

LEMMA SwapTeamsKeeps ==
    ASSUME NEW g, Steady(g), NEW order \in Orders
    PROVE  LET h == SwapTeams(g, order) IN Since(g, h) /\ (~Teamplay => h = g)
<1>1. CASE ~Teamplay  BY <1>1, SinceSame DEF SwapTeams
<1>2. CASE Teamplay
  <2> DEFINE to == [p \in Playing(g) |-> Other(g.team[p])]
             ps == Playing(g)
  <2>1. to \in [ps -> Teams] /\ ps \in SUBSET Players
    <3>1. ASSUME NEW p \in Playing(g) PROVE Other(g.team[p]) \in Teams
      <4>1. g.team[p] \in Sides  BY DEF Playing
      <4>. QED  BY <1>2, <4>1, OtherSide, SideFacts
    <3>. QED  BY <3>1 DEF Playing
  <2>2. SwapTeams(g, order) = ChangeTeams(g, to, order)  BY <1>2 DEF SwapTeams
  <2> HIDE DEF to, ps
  <2>. QED  BY <1>2, <2>1, <2>2, ChangeTeamsKeeps
<1>. QED  BY <1>1, <1>2

LEMMA ShuffleTeamsKeeps ==
    ASSUME NEW g, Steady(g), NEW order \in Orders, NEW coin \in BOOLEAN
    PROVE  LET h == ShuffleTeams(g, order, coin) IN Since(g, h) /\ (~Teamplay => h = g)
<1>1. CASE ~Teamplay  BY <1>1, SinceSame DEF ShuffleTeams
<1>2. CASE Teamplay
  <2>1. PICK to \in [Playing(g) -> Teams] :
          ShuffleTeams(g, order, coin) = ChangeTeams(g, to, order)
    BY <1>2, ShuffleTeamsPicks
  <2>2. Playing(g) \in SUBSET Players  BY DEF Playing
  <2>. QED  BY <1>2, <2>1, <2>2, ChangeTeamsKeeps
<1>. QED  BY <1>1, <1>2

-----------------------------------------------------------------------------
(* Time, and what it makes of a match without players and of a warm-up.    *)

\* Only a room without players may become lost.
Bears(g, h) == Level(g) => (Lost(h) => HasNoPlayers(g))

LEMMA Bearing ==
    ASSUME NEW g, NEW h, Even(g, h) \/ Resets(g, h)
    PROVE  Bears(g, h)
  BY DEF Even, Resets, Bears, Lost

LEMMA TimerFiresKeeps ==
    ASSUME NEW g, Steady(g), NEW order \in Orders, NEW coin \in BOOLEAN
    PROVE  LET h == TimerFires(g, order, coin) IN Bears(g, h) /\ Opens(g, h)
<1> DEFINE h == TimerFires(g, order, coin)
<1>0. Steady(g) /\ Typed(g)  BY SteadyRoom
<1>1. CASE g.state = "warmup_user"
  <2>1. h = WarmupUser(g, 0, order)  BY <1>1 DEF TimerFires
  <2> HIDE DEF h
  <2>2. Even(g, h) /\ Opens(g, h)  BY <2>1, WarmupUserKeeps
  <2>. QED  BY <2>2, Bearing DEF h
<1>2. CASE g.state = "start_countdown"
  <2> DEFINE k == GameRunning(g)
  <2>1. h = k  BY <1>2 DEF TimerFires
  <2>2. Still(g, k)  BY <1>0, GameRunningSteady
  <2> HIDE DEF h, k
  <2>3. Even(g, k)  BY <2>2, PlacedEven DEF Still, Even
  <2>. QED  BY <1>2, <2>1, <2>3, Bearing DEF Opens, Warm, h
<1>3. CASE g.state = "game_paused"
  <2> DEFINE k == GamePaused(g, 0)
  <2>1. h = k  BY <1>3 DEF TimerFires
  <2>2. Still(g, k)  BY <1>0, GamePausedSteady
  <2> HIDE DEF h, k
  <2>3. Even(g, k)  BY <2>2, PlacedEven DEF Still, Even
  <2>. QED  BY <1>3, <2>1, <2>3, Bearing DEF Opens, Warm, h
<1>4. CASE g.state = "end_match"
  <2> DEFINE k == CASE MatchSwap = 1 -> SwapTeams(g, order)
                    [] MatchSwap = 2 -> ShuffleTeams(g, order, coin)
                    [] OTHER         -> g
             l == IF ResetOnMatchEnd THEN ResetMatch(k, order) ELSE StartMatch(k, order)
  <2>1. h = l  BY <1>4 DEF TimerFires
  <2>2. Since(g, k)
    <3>1. k = SwapTeams(g, order) \/ k = ShuffleTeams(g, order, coin) \/ k = g
      <4>1. CASE MatchSwap = 1  BY <4>1
      <4>2. CASE MatchSwap = 2  BY <4>2
      <4>3. CASE MatchSwap \notin {1, 2}  BY <4>3
      <4>. QED  BY <4>1, <4>2, <4>3
    <3>2. Since(g, SwapTeams(g, order))  BY SwapTeamsKeeps
    <3>3. Since(g, ShuffleTeams(g, order, coin))  BY ShuffleTeamsKeeps
    <3>4. Since(g, g)  BY SinceSame
    <3> HIDE DEF k
    <3>. QED  BY <3>1, <3>2, <3>3, <3>4
  <2> HIDE DEF k
  <2>3. Steady(k) /\ (Level(g) => Level(k))  BY <2>2, LevelGoes DEF Since
  <2>4. Level(k) => (Lost(l) => Lost(k))
    <3>1. Level(k) => ~Lost(ResetMatch(k, order))  BY <2>3, ResetMatchKeeps
    <3>2. Resets(k, StartMatch(k, order))  BY <2>3, StartMatchKeeps
    <3>. QED  BY <3>1, <3>2 DEF Resets
  <2> HIDE DEF h, l
  <2>5. Resets(g, l)  BY <2>2, <2>3, <2>4 DEF Since, Resets
  <2>. QED  BY <1>4, <2>1, <2>5, Bearing DEF Opens, Warm, h
<1>5. CASE g.state \notin {"warmup_user", "start_countdown", "game_paused", "end_match"}
  <2>1. h = g  BY <1>5 DEF TimerFires
  <2>. QED  BY <2>1, SameEven, Bearing
<1>. QED  BY <1>1, <1>2, <1>3, <1>4, <1>5

LEMMA StateTimerKeeps ==
    ASSUME NEW g, Steady(g), NEW order \in Orders, NEW coin \in BOOLEAN
    PROVE  LET h == StateTimer(g, order, coin) IN Bears(g, h) /\ Opens(g, h)
<1> DEFINE n == IF g.timer > 0 THEN g.timer - 1 ELSE g.timer
           h == [g EXCEPT !.timer = n]
<1>1. Typed(g) /\ g \in Room /\ g.timer \in Int /\ g.timer >= TIMER_INFINITE /\ Steady(g)
  BY SteadyRoom DEF Typed, Room
<1>2. n \in Int /\ n >= TIMER_INFINITE /\ (g.timer = TIMER_INFINITE => n = TIMER_INFINITE)
  BY <1>1 DEF TIMER_INFINITE
<1>3. h = [g EXCEPT !.timer = IF @ > 0 THEN @ - 1 ELSE @]  BY <1>1 DEF Room
<1>4. StateTimer(g, order, coin) =
        IF g.state = "game_running" THEN g
        ELSE IF h.timer = 0 THEN TimerFires(h, order, coin)
        ELSE IF /\ h.state = "warmup_user" /\ h.timer = TIMER_INFINITE
                /\ ~ReadyStartsMatch(h)
        THEN WarmupUser(h, h.warmup, order)
        ELSE h
  <2> HIDE DEF h
  <2>. QED  BY <1>3 DEF StateTimer
<1> HIDE DEF n
<1>5. h.state = g.state /\ Still(g, h) /\ Steady(h)
  <2>1. h \in Room  BY <1>1, <1>2 DEF Room
  <2>2. /\ h.state = g.state /\ h.timer = n /\ h.started = g.started
        /\ h.paused = g.paused /\ h.request = g.request /\ h.unbalanced = g.unbalanced
    BY <1>1 DEF Room
  <2>3. Still(g, h)  BY <1>1 DEF Room, Still, Placed, Frame
  <2> HIDE DEF h
  <2>4. Typed(h)  BY <1>1, <1>2, <2>1, <2>2 DEF Typed
  <2>5. Steady(h)  BY <1>1, <1>2, <2>2, <2>4 DEF Steady, Paused
  <2>. QED  BY <2>2, <2>3, <2>5
<1> HIDE DEF h
<1>6. Level(g) => Level(h)  BY <1>5, StillGoes, LevelGoes
<1>7. HasNoPlayers(h) <=> HasNoPlayers(g)  BY <1>5, PlacedEven DEF Still
<1>8. Bears(h, TimerFires(h, order, coin)) /\ Opens(h, TimerFires(h, order, coin))
  BY <1>5, TimerFiresKeeps
<1>9. Bears(h, WarmupUser(h, h.warmup, order)) /\ Opens(h, WarmupUser(h, h.warmup, order))
  <2>1. h.warmup \in Int  BY <1>5, WarmupFacts
  <2>. QED  BY <1>5, <2>1, WarmupUserKeeps, Bearing
<1>10. Bears(g, g) /\ Opens(g, g) /\ Bears(h, h) /\ Opens(h, h)  BY SameEven, Bearing
<1>. QED  BY <1>4, <1>5, <1>6, <1>7, <1>8, <1>9, <1>10 DEF Bears, Opens, Warm

LEMMA PauseRequestKeeps ==
    ASSUME NEW g, Steady(g), NEW canPause \in BOOLEAN
    PROVE  LET h == PauseRequest(g, canPause) IN Even(g, h) /\ (Warm(g) => h = g)
<1> DEFINE k == GamePaused(g, TIMER_INFINITE)
           h == [k EXCEPT !.request = FALSE]
<1>0. Steady(g)  BY SteadyRoom
<1>1. PauseRequest(g, canPause) = IF g.request /\ canPause THEN h ELSE g
  BY DEF PauseRequest
<1>2. Steady(k) /\ Still(g, k)
  BY <1>0, GamePausedSteady DEF TIMER_INFINITE
<1> HIDE DEF k
<1>3. k \in Room  BY <1>2 DEF Steady, Typed
<1>4. Placed(k, h)  BY <1>3 DEF Room, Placed, Frame
<1> HIDE DEF h
<1>5. Even(g, h)  BY <1>2, <1>4, PlacedEven DEF Still, Even
<1>6. Warm(g) => ~g.request  BY <1>0 DEF Steady, Warm
<1>. QED  BY <1>1, <1>5, <1>6, SameEven

\* Of a match with players, the balancer only counts its timer on.
LEMMA BalanceTimerKeeps ==
    ASSUME NEW g, Steady(g), NEW order \in Orders
    PROVE  LET h == BalanceTimer(g, order)
           IN  Resets(g, h) /\ ((Exact \/ ~Teamplay) /\ Manned(g) => Manned(h))
<1> DEFINE h == BalanceTimer(g, order)
<1>0. g \in Room /\ Steady(g) /\ Typed(g)  BY SteadyRoom
<1>1. CASE h = g  BY <1>1, SameEven
<1>2. ASSUME NEW n \in Int, h = [g EXCEPT !.unbalanced = n], g.unbalanced # TBALANCE_OK
      PROVE  Resets(g, h) /\ ((Exact \/ ~Teamplay) /\ Manned(g) => Manned(h))
  <2> HIDE DEF h
  <2>1. h.state = g.state /\ Placed(g, h)  BY <1>0, <1>2 DEF Room, Placed, Frame
  <2>2. HasNoPlayers(h) <=> HasNoPlayers(g)  BY <2>1, PlacedEven
  <2>3. HasEnoughPlayers(h) = HasEnoughPlayers(g)  BY <2>1, PlacedEnough
  <2>4. NeedsBalance(h) = NeedsBalance(g)
    BY <2>1 DEF Placed, NeedsBalance, AreTeamsUnbalanced
  <2>. QED  BY <1>2, <2>1, <2>2, <2>3, <2>4 DEF Resets, Lost, Manned, Warm
<1>3. CASE Teamplay /\ g.unbalanced # TBALANCE_OK /\ h = DoTeamBalance(g, order)
  <2> HIDE DEF h
  <2>1. Resets(g, h) /\ Warms(g, h)  BY <1>3, DoTeamBalanceKeeps
  <2>2. ~NeedsBalance(g) => h = g  BY <1>3 DEF DoTeamBalance
  <2>. QED  BY <1>3, <2>1, <2>2 DEF Manned, Warms, Warm, h
<1>4. \/ h = g
      \/ \E n \in Int : h = [g EXCEPT !.unbalanced = n] /\ g.unbalanced # TBALANCE_OK
      \/ Teamplay /\ g.unbalanced # TBALANCE_OK /\ h = DoTeamBalance(g, order)
  <2>1. g.unbalanced \in Int  BY <1>0 DEF Room
  <2>2. \/ h = g
        \/ g.unbalanced # TBALANCE_OK
           /\ \/ h = [g EXCEPT !.unbalanced = 0]
              \/ h = [g EXCEPT !.unbalanced = TBALANCE_OK]
              \/ h = [g EXCEPT !.unbalanced = g.unbalanced + 1]
        \/ Teamplay /\ g.unbalanced # TBALANCE_OK /\ h = DoTeamBalance(g, order)
    BY <1>0 DEF BalanceTimer, Room
  <2> HIDE DEF h
  <2>. QED  BY <2>1, <2>2, TimerType
<1> HIDE DEF h
<1>. QED  BY <1>1, <1>2, <1>3, <1>4 DEF h

LEMMA WinCheckKeeps ==
    ASSUME NEW g, Steady(g), NEW decided \in BOOLEAN
    PROVE  LET h == WinCheck(g, decided)
           IN  Resets(g, h) /\ (Manned(g) => Manned(h) \/ h.state = "end_match")
<1> DEFINE k == EndMatch(g)
<1>1. Still(g, k)  BY SteadyRoom, EndMatchSteady
<1>2. \/ WinCheck(g, decided) = g
      \/ /\ WinCheck(g, decided) = k
         /\ g.state \in {"game_running", "game_paused"} /\ k.state = "end_match"
  <2>1. g.state \in {"game_running", "game_paused"} => k.state = "end_match"
    BY SteadyRoom DEF EndMatch, Room
  <2> HIDE DEF k
  <2>. QED  BY <2>1 DEF WinCheck, k
<1> HIDE DEF k
<1>3. Even(g, k)  BY <1>1, PlacedEven DEF Still, Even
<1>4. g.state \in {"game_running", "game_paused"} => Resets(g, k)  BY <1>3, EvenResets
<1>. QED  BY <1>2, <1>4, SameEven

-----------------------------------------------------------------------------
(* No step loses a match that has players, or starts one without enough.   *)

Staffed(h) == h.state \in {"game_running", "start_countdown"} => HasEnoughPlayers(h)

\* Where no command, and no swap, moves several players at once out of a warm-up
Orderly == Exact \/ (~Teamplay /\ "set_team_all" \notin Commands)

Abort == ConRestart(-1, CHOOSE o \in Orders : TRUE)

Kept ==
    /\ Bears(room, room')
    /\ Orderly /\ room.started /\ Warm(room) => Staffed(room') \/ Abort

\* What g says of players, and of the match, f says as well.
Same(g, f) ==
    f.state = g.state /\ f.size = g.size /\ f.minimumPlayers = g.minimumPlayers

LEMMA SameFacts ==
    ASSUME NEW g, NEW f, Same(g, f)
    PROVE  /\ HasNoPlayers(f) <=> HasNoPlayers(g)
           /\ HasEnoughPlayers(f) = HasEnoughPlayers(g)
           /\ Lost(f) <=> Lost(g)
           /\ Warm(f) <=> Warm(g)
  BY DEF Same, HasNoPlayers, HasEnoughPlayers, RealPlayerNum, Lost, Warm

LEMMA MannedStaffed == ASSUME NEW g, Manned(g) PROVE Staffed(g)
  BY DEF Manned, Staffed, Warm

LEMMA RoomLevel ==
    ASSUME IInv
    PROVE  Steady(room) /\ room \in Room /\ (Exact \/ ~Teamplay => Level(room))
  BY SteadyRoom DEF IInv, Fine, Level

\* A step that leaves the players and the match as they were
LEMMA SameKept == ASSUME Same(room, room') PROVE Kept
<1>1. (Lost(room') => HasNoPlayers(room)) /\ (Warm(room) => Warm(room'))
  BY SameFacts DEF Lost
<1>. QED  BY <1>1 DEF Kept, Bears, Staffed, Warm

\* A step that ends with TryStartWarmup
LEMMA TriedKept ==
    ASSUME NEW h, NEW f, Level(room) => ~Lost(h), Warm(room) => Manned(h), Same(h, f), room' = f
    PROVE  Kept
<1>1. (Lost(f) <=> Lost(h)) /\ HasEnoughPlayers(f) = HasEnoughPlayers(h)  BY SameFacts
<1>2. Warm(room) => Staffed(h)  BY MannedStaffed
<1>3. Warm(room) => Staffed(f)  BY <1>1, <1>2 DEF Staffed, Same
<1>. QED  BY <1>1, <1>3 DEF Kept, Bears

LEMMA TickKept ==
    ASSUME IInv, NEW canPause \in BOOLEAN, NEW coin \in BOOLEAN, NEW decided \in BOOLEAN,
           NEW order \in Orders, Tick(canPause, order, coin, decided)
    PROVE  Kept
<1> DEFINE a == PauseRequest(room, canPause)
           b == StateTimer(a, order, coin)
           c == BalanceTimer(b, order)
           d == WinCheck(c, decided)
           h == [d EXCEPT !.reset = FALSE]
<1>1. Steady(room)  BY RoomLevel
<1>2. Even(room, a) /\ (Warm(room) => a = room)  BY <1>1, PauseRequestKeeps
<1>3. Steady(a) /\ (Level(room) => Level(a))
  <2>1. Goes(room, a)  BY <1>1, PauseRequestLeads DEF Leads
  <2> HIDE DEF a
  <2>. QED  BY <1>1, <2>1, LevelGoes
<1>4. room' = h  BY DEF Tick
<1> HIDE DEF a
<1>5. Bears(a, b) /\ Opens(a, b)  BY <1>3, StateTimerKeeps
<1>6. Steady(b) /\ (Level(a) => Level(b))
  <2>1. Goes(a, b)  BY <1>3, StateTimerLeads DEF Leads
  <2> HIDE DEF b
  <2>. QED  BY <1>3, <2>1, LevelGoes
<1> HIDE DEF b
<1>7. Resets(b, c) /\ ((Exact \/ ~Teamplay) /\ Manned(b) => Manned(c))  BY <1>6, BalanceTimerKeeps
<1>8. Steady(c) /\ (Level(b) => Level(c))
  <2>1. Goes(b, c)  BY <1>6, BalanceTimerLeads DEF Leads
  <2> HIDE DEF c
  <2>. QED  BY <1>6, <2>1, LevelGoes
<1> HIDE DEF c
<1>9. Resets(c, d) /\ (Manned(c) => Manned(d) \/ d.state = "end_match")
  BY <1>8, WinCheckKeeps
<1>10. d \in Room
  <2>1. Goes(c, d)  BY <1>8, WinCheckLeads DEF Leads
  <2> HIDE DEF d
  <2>. QED  BY <2>1 DEF Goes, Steady, Typed
<1> HIDE DEF d
<1>11. Same(d, h)  BY <1>10 DEF Room, Same
<1> HIDE DEF h
<1>12. (Lost(h) <=> Lost(d)) /\ HasEnoughPlayers(h) = HasEnoughPlayers(d)
  BY <1>11, SameFacts
<1>13. Bears(room, h)
  BY <1>2, <1>3, <1>5, <1>6, <1>7, <1>8, <1>9, <1>12 DEF Even, Bears, Resets
<1>14. Orderly /\ Warm(room) => Staffed(h)
  <2>1. Orderly => Exact \/ ~Teamplay  BY DEF Orderly
  <2>2. Orderly /\ Warm(room) => Manned(d) \/ d.state = "end_match"
    BY <1>2, <1>5, <1>7, <1>9, <2>1 DEF Opens
  <2>3. Orderly /\ Warm(room) => Staffed(d)  BY <2>2, MannedStaffed DEF Staffed
  <2>. QED  BY <1>11, <1>12, <2>3 DEF Staffed, Same
<1>. QED  BY <1>4, <1>13, <1>14 DEF Kept

LEMMA StartControllerKept ==
    ASSUME IInv, NEW order \in Orders, StartController(order)
    PROVE  Kept
<1> DEFINE s == [room EXCEPT !.started = TRUE]
           w == WarmupGame(s)
           h == TryStartWarmup(w, FALSE, order)
<1>1. Fine(room) /\ Steady(room) /\ room \in Room /\ ~room.started /\ ~room.request
  BY DEF IInv, Fine, Steady, Typed, StartController
<1>2. room' = h  BY DEF StartController
<1>3. s \in Room  BY <1>1 DEF Room
<1>4. /\ s.state = room.state /\ s.timer = room.timer /\ s.started
      /\ s.paused = room.paused /\ ~s.request /\ s.unbalanced = room.unbalanced
      /\ s.size = room.size /\ s.team = room.team /\ s.connecting = room.connecting
  BY <1>1 DEF Room
<1> HIDE DEF s
<1>5. Steady(s)
  <2>1. Typed(s)  BY <1>1, <1>3, <1>4 DEF Steady, Typed
  <2>. QED  BY <1>1, <1>4, <2>1 DEF Steady, Paused
<1>6. Level(room) => Level(s)  BY <1>4 DEF Level, Sized, OfTeam
<1>7. Steady(w) /\ Still(s, w)  BY <1>4, <1>5, WarmupGameSteady
<1> HIDE DEF w
<1>8. Level(s) => Level(w)  BY <1>7, StillGoes, LevelGoes
<1>9. Level(w) => ~Lost(h)  BY <1>7, TryStartWarmupKeeps
<1>. QED  BY <1>1, <1>2, <1>6, <1>8, <1>9 DEF Kept, Bears

LEMMA JoinKept ==
    ASSUME IInv, NEW p \in Players, NEW order \in Orders, Join(p, order)
    PROVE  Kept
<1>1. Fine(room) /\ Steady(room) /\ room \in Room  BY DEF IInv, Fine, Steady, Typed
<1>2. PICK g, t : /\ t \in Teams /\ JoinsAs(g, p, t)
                  /\ room' = TryStartWarmup(g, FALSE, order)
  BY <1>1, JoinFacts
<1> DEFINE h == TryStartWarmup(g, FALSE, order)
<1>3. Steady(g) /\ (Level(room) => Level(g))  BY <1>2, JoinSized DEF Level
<1>4. (Level(g) => ~Lost(h)) /\ (Manned(g) => Manned(h))  BY <1>3, TryStartWarmupKeeps
<1> HIDE DEF h
<1>5. Warm(room) => Manned(g)  BY <1>2 DEF JoinsAs, Manned, Warm
<1>6. Same(h, h)  BY DEF Same
<1>. QED  BY <1>2, <1>3, <1>4, <1>5, <1>6, TriedKept DEF h

\* Whatever is to come of it: a room that is told that nobody plays waits for players.
LEMMA EmptyWaits ==
    ASSUME NEW g, Steady(g), HasNoPlayers(g), NEW fallback \in BOOLEAN, NEW order \in Orders
    PROVE  TryStartWarmup(g, fallback, order).state = "warmup_game"
<1>1. ASSUME NEW k, Steady(k), HasNoPlayers(k), k.state = "warmup_game", NEW b \in BOOLEAN
      PROVE  AwaitPlayers(k, b, order).state = "warmup_game"
  <2>1. ~HasEnoughPlayers(k)  BY <1>1, SteadyRoom, EnoughAreSome
  <2> DEFINE r == SetPlayersReadyState(k, TRUE)
             w == WarmupGame(r)
  <2>2. Steady(r) /\ r.state = k.state  BY <1>1, ReadySteady
  <2> HIDE DEF r
  <2>3. w.state = "warmup_game"  BY <1>1, <2>2, WarmupGameSteady
  <2> HIDE DEF w
  <2>4. AwaitPlayers(k, b, order) = k \/ AwaitPlayers(k, b, order) = w
    BY <2>1 DEF AwaitPlayers, w, r
  <2>. QED  BY <1>1, <2>3, <2>4
<1>2. CASE g.state = "warmup_game"
  <2>1. TryStartWarmup(g, fallback, order) = AwaitPlayers(g, fallback, order)
    BY <1>2 DEF TryStartWarmup
  <2>. QED  BY <1>1, <1>2, <2>1
<1>3. CASE g.state # "warmup_game"
  <2> DEFINE r == ResetGame(g, order)
             k == WarmupGame(r)
  <2>1. TryStartWarmup(g, fallback, order) = AwaitPlayers(k, FALSE, order)
    BY <1>3 DEF TryStartWarmup, ResetMatch
  <2>2. Steady(r) /\ Still(g, r) /\ r.state = "game_running" /\ ~r.request
    BY SteadyRoom, ResetGameGoes DEF Goes
  <2> HIDE DEF r
  <2>3. Steady(k) /\ Still(r, k) /\ k.state = "warmup_game"  BY <2>2, WarmupGameSteady
  <2> HIDE DEF k
  <2>4. HasNoPlayers(k)  BY <2>2, <2>3, PlacedEven DEF Still
  <2>. QED  BY <1>1, <2>1, <2>3, <2>4
<1>. QED  BY <1>2, <1>3

LEMMA LeaveKept ==
    ASSUME IInv, NEW p \in Players, NEW order \in Orders, Leave(p, order)
    PROVE  Kept
<1>1. Steady(room) /\ room \in Room  BY RoomLevel
<1>2. PICK g : /\ LeavesAs(g, p)
               /\ room' = [TryStartWarmup(CheckReadyStates(g, {p}, order), TRUE, order)
                             EXCEPT !.team[p] = "out", !.ready[p] = FALSE]
  BY <1>1, LeaveFacts
<1> DEFINE c == CheckReadyStates(g, {p}, order)
           h == TryStartWarmup(c, TRUE, order)
           f == [h EXCEPT !.team[p] = "out", !.ready[p] = FALSE]
<1>3. room' = f  BY <1>2
<1>4. Steady(g) /\ g.state = room.state  BY <1>2 DEF LeavesAs
<1>5. Goes(g, c) /\ (Exact => Still(g, c)) /\ Opens(g, c)
  BY <1>4, CheckReadyStatesGoes, CheckReadyStatesKeeps
<1> HIDE DEF c
<1>6. Steady(c) /\ (Level(g) => Level(c))  BY <1>5, LevelGoes
<1>7. Goes(c, h) /\ (Exact => Still(c, h)) /\ (Level(c) => ~Lost(h)) /\ (Manned(c) => Manned(h))
  BY <1>6, TryStartWarmupGoes, TryStartWarmupKeeps
<1>8. HasNoPlayers(c) => h.state = "warmup_game"  BY <1>6, EmptyWaits
<1> HIDE DEF h
<1>9. Level(room) => ~Lost(h)
  <2>1. CASE ~Teamplay  BY <1>6, <1>7, <2>1 DEF Level
  <2>2. CASE Exact
    <3>1. HasNoPlayers(h) <=> HasNoPlayers(c)  BY <1>7, <2>2, PlacedEven DEF Still
    <3>. QED  BY <1>8, <3>1 DEF Lost
  <2>. QED  BY <2>1, <2>2 DEF Level
<1>10. Warm(room) => Manned(h)  BY <1>4, <1>5, <1>7 DEF Opens, Warm
<1>11. Same(h, f)
  <2>1. h \in Room  BY <1>7, LevelGoes, SteadyRoom
  <2>. QED  BY <2>1 DEF Room, Same
<1> HIDE DEF f
<1>. QED  BY <1>3, <1>9, <1>10, <1>11, TriedKept

LEMMA ConnectingKept ==
    ASSUME IInv, NEW p \in Players, NEW t \in Teams, NEW order \in Orders,
           Connect(p, t) \/ DropConnecting(p, order)
    PROVE  Kept
<1>1. room \in Room  BY RoomLevel
<1>2. Same(room, room')  BY <1>1 DEF Connect, DropConnecting, Same, Room
<1>. QED  BY <1>2, SameKept

\* A step that changes teams as the match allows
LEMMA ChangedKept ==
    ASSUME IInv, Resets(room, room'), Orderly /\ Warm(room) => Manned(room')
    PROVE  Kept
<1>1. Orderly /\ Warm(room) => Staffed(room')  BY MannedStaffed
<1>. QED  BY <1>1, Bearing DEF Kept

LEMMA TeamChangeKept ==
    ASSUME IInv, NEW p \in Players, NEW t \in Teams, NEW order \in Orders,
           ChangeTeam(p, t, order) \/ ForceTeam(p, t, order)
    PROVE  Kept
<1>1. room' = DoTeamChange(room, p, t, order)  BY DEF ChangeTeam, ForceTeam
<1>2. Resets(room, room') /\ Opens(room, room')  BY <1>1, RoomLevel, DoTeamChangeKeeps
<1>. QED  BY <1>2, ChangedKept DEF Opens

LEMMA ReadyChangeKept ==
    ASSUME IInv, NEW p \in Players, NEW order \in Orders, OnPlayerReadyChange(p, order)
    PROVE  Kept
<1>1. PICK g \in Room : /\ Fine(g) /\ room' = CheckReadyStates(g, {}, order)
                        /\ g.state = room.state /\ g.size = room.size
  BY ReadyChangeFacts
<1>2. Steady(g) /\ (Exact \/ ~Teamplay => Level(g))  BY <1>1 DEF Fine, Level
<1>3. Resets(g, room') /\ Opens(g, room')  BY <1>1, <1>2, CheckReadyStatesKeeps
<1>4. Level(room) => Level(g)  BY <1>2 DEF Level
<1>5. (Lost(g) <=> Lost(room)) /\ (Warm(g) <=> Warm(room))
  BY <1>1 DEF Lost, Warm, HasNoPlayers
<1>. QED  BY <1>3, <1>4, <1>5, ChangedKept DEF Resets, Opens

LEMMA ConPauseKept ==
    ASSUME IInv, NEW s \in Seconds, ConPause(s)
    PROVE  Kept
<1> DEFINE h == GamePaused(room, s)
<1>1. room' = h  BY DEF ConPause
<1>2. s \in Int /\ s >= -1  BY SettingAssumption
<1>3. Still(room, h)  BY <1>2, RoomLevel, GamePausedSteady
<1>4. Even(room, h)  BY <1>3, PlacedEven DEF Still, Even
<1>5. Warm(room) => Warm(h) \/ h.state = "game_paused"
  <2>1. CASE room.state = "warmup_user"  BY <2>1 DEF GamePaused, Warm
  <2>2. CASE room.state = "warmup_game" /\ s = 0
    <3>1. h = room  BY <2>2 DEF GamePaused, StartCountdown
    <3>. QED  BY <3>1
  <2>3. CASE room.state = "warmup_game" /\ s # 0
    <3> DEFINE r == [room EXCEPT !.state = "game_paused", !.paused = TRUE]
               v == [r EXCEPT !.timer = TIMER_INFINITE]
    <3>1. r \in Room /\ r.state = "game_paused" /\ v.state = "game_paused"
      BY RoomLevel DEF Room, GameState
    <3>2. v \in Room  BY <3>1, TimerType DEF Room
    <3>3. SetPlayersReadyState(v, FALSE).state = "game_paused"
      <4> HIDE DEF r, v
      <4>1. PICK x \in [Players -> BOOLEAN] :
              SetPlayersReadyState(v, FALSE) = [v EXCEPT !.ready = x]
        BY <3>2, ReadyFacts
      <4>. QED  BY <3>1, <3>2, <4>1 DEF Room
    <3>4. \/ h = SetPlayersReadyState(v, FALSE)
          \/ h = [r EXCEPT !.timer = s * TickSpeed]
      BY <2>3 DEF GamePaused
    <3> HIDE DEF h, r, v
    <3>. QED  BY <3>1, <3>3, <3>4 DEF Room
  <2>. QED  BY <2>1, <2>2, <2>3 DEF Warm
<1> HIDE DEF h
<1>6. Warm(room) => Staffed(h)  BY <1>5 DEF Staffed, Warm
<1>. QED  BY <1>1, <1>4, <1>6, Bearing DEF Kept

LEMMA ConRestartKept ==
    ASSUME IInv, NEW s \in Seconds, NEW order \in Orders, ConRestart(s, order)
    PROVE  Kept
<1>1. s \in Int /\ s >= -1  BY SettingAssumption
<1>2. CASE s >= 0
  <2> DEFINE h == WarmupUser(room, s, order)
  <2>1. room' = h  BY <1>2 DEF ConRestart
  <2>2. Even(room, h) /\ Opens(room, h)  BY <1>1, RoomLevel, WarmupUserKeeps
  <2> HIDE DEF h
  <2>3. Warm(room) => Staffed(h)  BY <2>2, MannedStaffed DEF Opens
  <2>. QED  BY <2>1, <2>2, <2>3, Bearing DEF Kept
<1>3. CASE ~(s >= 0)
  <2>1. s = -1  BY <1>1, <1>3
  <2>2. Abort  BY <2>1 DEF ConRestart, Abort
  <2>3. Bears(room, room')
    <3>1. Still(room, GameRunning(room))  BY RoomLevel, SteadyRoom, GameRunningSteady
    <3>2. Even(room, GameRunning(room))  BY <3>1, PlacedEven DEF Still, Even
    <3>3. room' = GameRunning(room) \/ room' = room  BY <1>3 DEF ConRestart
    <3>. QED  BY <3>2, <3>3, SameEven, Bearing
  <2>. QED  BY <2>2, <2>3 DEF Kept
<1>. QED  BY <1>2, <1>3

LEMMA ConTeamsKept ==
    ASSUME IInv, NEW order \in Orders,
           \/ ConSwapTeams(order)
           \/ \E coin \in BOOLEAN : ConShuffleTeams(order, coin)
           \/ \E t \in Teams : ConSetTeamAll(t, order)
    PROVE  Kept
<1>1. Steady(room)  BY RoomLevel
<1>2. ASSUME Since(room, room'), Orderly => Exact \/ room' = room PROVE Kept
  <2>1. Orderly /\ Warm(room) => Manned(room')  BY <1>2 DEF Since, Warms, Manned
  <2>. QED  BY <1>2, <2>1, ChangedKept DEF Since
<1>3. CASE ConSwapTeams(order)
  <2>1. room' = SwapTeams(room, order)  BY <1>3 DEF ConSwapTeams
  <2>. QED  BY <1>1, <1>2, <2>1, SwapTeamsKeeps DEF Orderly
<1>4. ASSUME NEW coin \in BOOLEAN, ConShuffleTeams(order, coin) PROVE Kept
  <2>1. room' = ShuffleTeams(room, order, coin)  BY <1>4 DEF ConShuffleTeams
  <2>. QED  BY <1>1, <1>2, <2>1, ShuffleTeamsKeeps DEF Orderly
<1>5. ASSUME NEW t \in Teams, ConSetTeamAll(t, order) PROVE Kept
  <2> DEFINE ps == InRoom(room)
             to == [p \in ps |-> t]
  <2>1. room' = ChangeTeams(room, to, order) /\ "set_team_all" \in Commands
    BY <1>5 DEF ConSetTeamAll
  <2>2. ps \in SUBSET Players /\ to \in [ps -> Teams]  BY DEF InRoom
  <2> HIDE DEF ps, to
  <2>3. Since(room, room')  BY <1>1, <2>1, <2>2, ChangeTeamsKeeps
  <2>. QED  BY <1>2, <2>1, <2>3 DEF Orderly
<1>. QED  BY <1>3, <1>4, <1>5

LEMMA SettingsKept ==
    ASSUME IInv, NEW n, SetWarmup(n) \/ SetReadyMode(n) \/ SoftReload
    PROVE  Kept
<1>1. room \in Room  BY RoomLevel
<1>2. Same(room, room')  BY <1>1 DEF SetWarmup, SetReadyMode, SoftReload, Same, Room
<1>. QED  BY <1>2, SameKept

LEMMA SetMinimumPlayersKept ==
    ASSUME IInv, NEW n \in Minimums, NEW order \in Orders, SetMinimumPlayers(n, order)
    PROVE  Kept
<1> DEFINE g == [room EXCEPT !.minimumPlayers = n]
           h == TryStartWarmup(g, TRUE, order)
<1>1. Fine(room) /\ room \in Room  BY RoomLevel DEF IInv
<1>2. room' = h  BY DEF SetMinimumPlayers
<1>3. g \in Room  BY <1>1 DEF Room
<1>4. /\ g.state = room.state /\ g.timer = room.timer /\ g.started = room.started
      /\ g.paused = room.paused /\ g.request = room.request
      /\ g.unbalanced = room.unbalanced /\ g.size = room.size /\ g.team = room.team
      /\ g.connecting = room.connecting
  BY <1>1 DEF Room
<1> HIDE DEF g
<1>5. Steady(g) /\ (Exact => Sized(g))  BY <1>1, <1>3, <1>4, Retuned
<1>6. (Level(g) => ~Lost(h)) /\ (Manned(g) => Manned(h))  BY <1>5, TryStartWarmupKeeps
<1> HIDE DEF h
<1>7. (Level(room) => Level(g)) /\ (Warm(room) => Manned(g))
  BY <1>4, <1>5 DEF Level, Warm, Manned
<1>8. Same(h, h)  BY DEF Same
<1>. QED  BY <1>2, <1>6, <1>7, <1>8, TriedKept

LEMMA SetCountdownKept ==
    ASSUME IInv, NEW n \in Countdowns, SetCountdown(n)
    PROVE  Kept
<1> DEFINE g == [room EXCEPT !.countdown = n]
           h == StartCountdown(g)
<1>1. Fine(room) /\ room \in Room  BY RoomLevel DEF IInv
<1>2. room' = h \/ room' = g  BY DEF SetCountdown
<1>3. g \in Room /\ Same(room, g)  BY <1>1 DEF Room, Same
<1>4. /\ g.state = room.state /\ g.timer = room.timer /\ g.started = room.started
      /\ g.paused = room.paused /\ g.request = room.request
      /\ g.unbalanced = room.unbalanced /\ g.size = room.size /\ g.team = room.team
      /\ g.connecting = room.connecting /\ g.minimumPlayers = room.minimumPlayers
  BY <1>1 DEF Room
<1> HIDE DEF g
<1>5. Steady(g)  BY <1>1, <1>3, <1>4, Retuned DEF Fine
<1>6. Still(g, h)  BY <1>5, StartCountdownSteady
<1>7. Warm(g) => h = g  BY DEF StartCountdown, Warm
<1> HIDE DEF h
<1>8. CASE room' = g  BY <1>3, <1>8, SameKept
<1>9. CASE room' = h
  <2>1. HasNoPlayers(h) <=> HasNoPlayers(g)  BY <1>6, PlacedEven DEF Still
  <2>2. HasNoPlayers(g) <=> HasNoPlayers(room)  BY <1>3, SameFacts
  <2>3. Warm(room) => room' = g  BY <1>3, <1>7, <1>9, SameFacts
  <2>4. Warm(room) => Warm(room')  BY <1>3, <2>3, SameFacts
  <2>. QED  BY <1>9, <2>1, <2>2, <2>4 DEF Kept, Bears, Lost, Staffed, Warm
<1>. QED  BY <1>2, <1>8, <1>9

LEMMA StepKept == ASSUME IInv, Next PROVE Kept
<1>1. CASE PlayerStep
  <2>1. PICK order \in Orders, p \in Players :
          \/ \E t \in Teams : Connect(p, t)
          \/ DropConnecting(p, order)
          \/ Join(p, order)
          \/ Leave(p, order)
          \/ \E t \in Teams : ChangeTeam(p, t, order)
          \/ OnPlayerReadyChange(p, order)
    BY <1>1 DEF PlayerStep
  <2>2. "spectators" \in Teams  BY SideFacts
  <2>. QED  BY <2>1, <2>2, ConnectingKept, JoinKept, LeaveKept, TeamChangeKept,
               ReadyChangeKept
<1>2. CASE CommandStep
  <2>1. PICK order \in Orders :
          \/ \E p \in Players, t \in Teams : ForceTeam(p, t, order)
          \/ \E s \in Seconds : ConPause(s) \/ ConRestart(s, order)
          \/ ConSwapTeams(order)
          \/ \E coin \in BOOLEAN : ConShuffleTeams(order, coin)
          \/ \E t \in Teams : ConSetTeamAll(t, order)
          \/ \E n \in Warmups : SetWarmup(n)
          \/ \E n \in ReadyModes : SetReadyMode(n)
          \/ \E n \in Minimums : SetMinimumPlayers(n, order)
          \/ \E n \in Countdowns : SetCountdown(n)
    BY <1>2, Zenon DEF CommandStep
  <2>2. CASE \E p \in Players, t \in Teams : ForceTeam(p, t, order)
    BY <2>2, TeamChangeKept
  <2>3. CASE \E s \in Seconds : ConPause(s) \/ ConRestart(s, order)
    BY <2>3, ConPauseKept, ConRestartKept
  <2>4. CASE \/ ConSwapTeams(order)
             \/ \E coin \in BOOLEAN : ConShuffleTeams(order, coin)
             \/ \E t \in Teams : ConSetTeamAll(t, order)
    BY <2>4, ConTeamsKept
  <2>5. CASE \E n \in Warmups : SetWarmup(n)  BY <2>5, SettingsKept
  <2>6. CASE \E n \in ReadyModes : SetReadyMode(n)  BY <2>6, SettingsKept
  <2>7. CASE \E n \in Minimums : SetMinimumPlayers(n, order)  BY <2>7, SetMinimumPlayersKept
  <2>8. CASE \E n \in Countdowns : SetCountdown(n)  BY <2>8, SetCountdownKept
  <2>. QED  BY <2>1, <2>2, <2>3, <2>4, <2>5, <2>6, <2>7, <2>8
<1>3. CASE ServerStep
  <2>1. PICK order \in Orders :
          \/ \E canPause, coin, decided \in BOOLEAN : Tick(canPause, order, coin, decided)
          \/ StartController(order)
    BY <1>3 DEF ServerStep
  <2>. QED  BY <2>1, TickKept, StartControllerKept
<1>4. CASE SoftReload  BY <1>4, SettingsKept
<1>. QED  BY <1>1, <1>2, <1>3, <1>4 DEF Next

\* However the last player went, and whatever that set off, a match without players is
\* reset (TryStartWarmup); with teams, where the sizes are exact.
THEOREM EmptyMatchResets ==
    ASSUME ~Teamplay \/ (~Lobby /\ 0 \notin Warmups)
    PROVE  Spec => LastPlayerResets
<1>1. IInv /\ [Next]_room =>
        [~HasNoPlayers(room) /\ HasNoPlayers(room') => room'.state = "warmup_game"]_room
  <2>1. ASSUME IInv, Next
        PROVE  ~HasNoPlayers(room) /\ HasNoPlayers(room') => room'.state = "warmup_game"
    <3>1. Kept  BY <2>1, StepKept
    <3>2. Level(room)  BY <2>1, RoomLevel DEF Exact
    <3>. QED  BY <3>1, <3>2 DEF Kept, Bears, Lost
  <2>. QED  BY <2>1
<1>. QED  BY <1>1, Invariant, PTL DEF Spec, LastPlayerResets

\* However a warm-up ends, unless a command aborts it, there are players enough for the
\* match that begins (StartMatch, DoTeamBalance), where players change team one at a time.
THEOREM MatchBeginsStaffed ==
    ASSUME \/ ~Lobby /\ 0 \notin Warmups
           \/ ~Teamplay /\ "set_team_all" \notin Commands
    PROVE  Spec => MatchNeedsPlayers
<1>1. IInv /\ [Next]_room =>
        [/\ room.started /\ room.state \in {"warmup_game", "warmup_user"}
         /\ room'.state \in {"game_running", "start_countdown"}
         => HasEnoughPlayers(room') \/ ConRestart(-1, CHOOSE o \in Orders : TRUE)]_room
  <2>1. ASSUME IInv, Next,
               room.started, room.state \in {"warmup_game", "warmup_user"},
               room'.state \in {"game_running", "start_countdown"}
        PROVE  HasEnoughPlayers(room') \/ ConRestart(-1, CHOOSE o \in Orders : TRUE)
    <3>1. Kept  BY <2>1, StepKept
    <3>2. Orderly /\ Warm(room)  BY <2>1 DEF Orderly, Exact, Warm
    <3>. QED  BY <2>1, <3>1, <3>2 DEF Kept, Staffed, Abort
  <2>. QED  BY <2>1
<1>. QED  BY <1>1, Invariant, PTL DEF Spec, MatchNeedsPlayers
=============================================================================
