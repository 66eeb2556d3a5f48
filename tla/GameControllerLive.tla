------------------------- MODULE GameControllerLive -------------------------
(***************************************************************************)
(* What a room comes to when its players and its administrators leave it   *)
(* alone: from some moment on, which `quiet' marks, only the server acts.  *)
(* CGameTeams::OnTick is called on every tick of the server's main loop,   *)
(* which justifies the fairness.                                           *)
(***************************************************************************)
EXTENDS GameController

VARIABLES
    quiet,
    phase       \* changes on every call of OnTick

liveVars == <<room, quiet, phase>>

LiveInit == Init /\ quiet = FALSE /\ phase = 0

OnTick == phase' = 1 - phase

LiveNext ==
    \/ ~quiet /\ (PlayerStep \/ CommandStep \/ SoftReload) /\ UNCHANGED <<quiet, phase>>
    \/ ~quiet /\ quiet' = TRUE /\ UNCHANGED <<room, phase>>
    \/ ServerStep /\ OnTick /\ UNCHANGED quiet

\* A server step is possible in every state, so this asks for it for ever.
LiveSpec == LiveInit /\ [][LiveNext]_liveVars /\ WF_phase(OnTick)

\* A room that is left alone with enough players plays matches, again and again,
\* unless it was paused for good or waits for its players to be ready.  (A match
\* may be decided in the tick it is resumed in.)
GameGoesOn ==
    <>quiet => /\ []<>(\/ room.state \in {"game_running", "end_match"}
                       \/ ~HasEnoughPlayers(room)
                       \/ room.state = "game_paused" /\ room.timer = TIMER_INFINITE
                       \/ IsPlayerReadyMode(room))
               /\ []<>(room.state # "end_match")

\* Unbalanced teams that are left alone are balanced, and stay so.
TeamsEvenOut == <>quiet => <>[](~AreTeamsUnbalanced(room))
=============================================================================
