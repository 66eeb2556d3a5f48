------------------------------ MODULE MCJobPool ------------------------------
(* Small instances of JobPool for TLC. *)
EXTENDS JobPool

CONSTANTS m1, m2

OneMaster == <<m1>>
TwoMasters == <<m1, m2>>

\* What sv_dnsbl and sv_register ask the pool for: one of them, or both.
OneUse == {{"clients"}, {"masters"}}
BothUses == {{"clients", "masters"}}
=============================================================================
