------------------------ MODULE MCGameControllerLive ------------------------
(* Small instances of GameControllerLive for TLC. *)
EXTENDS GameControllerLive

\* One order of the players: the scores stay as they are.
OneOrder == {CHOOSE f \in [Players -> 1 .. Cardinality(Players)] :
                \A p, q \in Players : f[p] = f[q] => p = q}

Everything == {"set_team", "pause", "restart", "swap_teams", "shuffle_teams",
               "set_team_all", "warmup", "player_ready_mode", "minimum_players",
               "countdown"}

Pauses == {-1, 0, 2}
=============================================================================
