------------------------------ MODULE RoomsLive ------------------------------
(***************************************************************************)
(* What the rooms come to when no more of them are created or reloaded:    *)
(* from some moment on, which `quiet' marks, clients still come and go.    *)
(* CGameTeams::OnTick is called on every tick of the server's main loop,   *)
(* which justifies the fairness.                                           *)
(***************************************************************************)
EXTENDS Rooms

VARIABLES
    quiet,
    phase       \* changes on every call of OnTick

liveVars == <<vars, quiet, phase>>

LiveInit == Init /\ quiet = FALSE /\ phase = 0

Ticked == quiet /\ phase' = 1 - phase

LiveNext ==
    \/ ClientStep /\ (quiet => created' \subseteq created) /\ UNCHANGED <<quiet, phase>>
    \/ ~quiet /\ ReloadRequest /\ UNCHANGED <<quiet, phase>>
    \/ ~quiet /\ quiet' = TRUE /\ UNCHANGED <<vars, phase>>
    \/ OnTick /\ (IF quiet THEN Ticked ELSE UNCHANGED phase) /\ UNCHANGED quiet

\* A tick is possible in every state, so this asks for ticks for ever once it is quiet.
LiveSpec == LiveInit /\ [][LiveNext]_liveVars /\ WF_phase(Ticked)

\* When no more rooms are created and no more reloads asked for, every room gets
\* started and every reload is carried out, though rooms share the entities that
\* one tick may load, and a reload waits until its room is started.
RoomsSettle ==
    <>quiet => <>[](\A r \in created : r \in init /\ reload[r] = "no")
=============================================================================
