-------------------------- MODULE MCGameController --------------------------
(* Small instances of GameController for TLC. *)
EXTENDS GameController, TLC

\* Every order of the players: no score or random number is left out.
AllOrders == {f \in [Players -> 1 .. Cardinality(Players)] :
                 \A p, q \in Players : f[p] = f[q] => p = q}

OneOrder == {CHOOSE f \in AllOrders : TRUE}

Symmetry == Permutations(Players)

UntilReady == {-1, 0, 2}

Everything == {"set_team", "pause", "restart", "swap_teams", "shuffle_teams",
               "set_team_all", "warmup", "player_ready_mode", "minimum_players",
               "countdown"}
Moves == Everything \ {"pause", "restart"}
Settings == Everything \ {"set_team", "set_team_all"}
Nothing == {}
=============================================================================
