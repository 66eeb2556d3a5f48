------------------------------ MODULE SnapIDPool ------------------------------
(***************************************************************************)
(* The numbers of the items in snapshots (CSnapIDPool).  The numbers that  *)
(* are free and those that rest are two lists in one array: a number that   *)
(* an entity gives back rests for five seconds, so that no client takes a   *)
(* new item with it for the old one.  Times are relative to now.           *)
(***************************************************************************)
EXTENDS Integers, Sequences, FiniteSets

CONSTANTS
    MAX_IDS,
    RestSeconds     \* 5

ASSUME IdsAssumption == MAX_IDS \in Nat \ {0} /\ RestSeconds \in Nat \ {0}

VARIABLES
    ids,        \* m_aIDs: m_Next, m_State and what is left until m_Timeout
    firstFree, firstTimed, lastTimed,
    usage, inUsage

idVars == <<ids, firstFree, firstTimed, lastTimed, usage, inUsage>>

Ids == 0 .. MAX_IDS - 1
None == -1

\* Reset
IdsInit ==
    /\ ids = [i \in Ids |-> [next |-> IF i = MAX_IDS - 1 THEN None ELSE i + 1,
                             state |-> "free", left |-> 0]]
    /\ firstFree = 0 /\ firstTimed = None /\ lastTimed = None
    /\ usage = 0 /\ inUsage = 0

\* The list that starts with a number
ListFrom(from) ==
    LET tail[n \in 0 .. MAX_IDS] ==
            [i \in Ids \cup {None} |->
                IF i = None \/ n = 0 THEN <<>> ELSE <<i>> \o tail[n - 1][ids[i].next]]
    IN  tail[MAX_IDS][from]

Timed == ListFrom(firstTimed)

\* RemoveFirstTimeout, n times: the numbers go to the front of the free list, where
\* nothing reads their time any more.
Released(n) ==
    [i \in Ids |->
        IF \E m \in 1 .. n : Timed[m] = i
        THEN LET m == CHOOSE m \in 1 .. n : Timed[m] = i
             IN  [ids[i] EXCEPT !.next = IF m = 1 THEN firstFree ELSE Timed[m - 1],
                                !.state = "free", !.left = 0]
        ELSE ids[i]]

FreeAfter(n) == IF n = 0 THEN firstFree ELSE Timed[n]
TimedAfter(n) == IF n = Len(Timed) THEN None ELSE Timed[n + 1]

\* Mutant: all numbers are released as soon as the first one has rested.
ExpiredAll == IF Timed # <<>> /\ ids[Timed[1]].left < 0 THEN Len(Timed) ELSE 0

\* How many numbers at the front of the list of those that rest have rested enough.
Expired ==
    CHOOSE n \in 0 .. Len(Timed) :
        /\ \A m \in 1 .. n : ids[Timed[m]].left < 0
        /\ n < Len(Timed) => ids[Timed[n + 1]].left >= 0

\* NewID; a pool that has none left ends the server (dbg_assert).
NewID ==
    LET n == Expired
        id == FreeAfter(n)
    IN  /\ id # None
        /\ ids' = [Released(n) EXCEPT ![id].state = "allocated"]
        /\ firstFree' = Released(n)[id].next
        /\ firstTimed' = TimedAfter(n)
        /\ lastTimed' = IF TimedAfter(n) = None THEN None ELSE lastTimed
        /\ usage' = usage - n + 1
        /\ inUsage' = inUsage + 1

\* Mutant: the last number that rests is not linked to the one that comes.
FreeIDUnlinked(i) ==
    /\ i \in Ids /\ ids[i].state = "allocated"
    /\ inUsage' = inUsage - 1
    /\ ids' = [ids EXCEPT ![i] = [next |-> None, state |-> "timed", left |-> RestSeconds]]
    /\ firstTimed' = IF lastTimed = None THEN i ELSE firstTimed
    /\ lastTimed' = i
    /\ UNCHANGED <<firstFree, usage>>

FreeID(i) ==
    /\ i \in Ids /\ ids[i].state = "allocated"
    /\ inUsage' = inUsage - 1
    /\ ids' = [j \in Ids |->
                 IF j = i THEN [next |-> None, state |-> "timed", left |-> RestSeconds]
                 ELSE IF j = lastTimed THEN [ids[j] EXCEPT !.next = i]
                 ELSE ids[j]]
    /\ firstTimed' = IF lastTimed = None THEN i ELSE firstTimed
    /\ lastTimed' = i
    /\ UNCHANGED <<firstFree, usage>>

\* TimeoutIDs: a new map is loaded.
TimeoutIDs ==
    LET n == Len(Timed)
    IN  /\ ids' = Released(n) /\ firstFree' = FreeAfter(n)
        /\ firstTimed' = None
        /\ lastTimed' = IF n = 0 THEN lastTimed ELSE None
        /\ usage' = usage - n
        /\ UNCHANGED inUsage

\* A second goes by.
Second ==
    /\ ids' = [i \in Ids |-> IF ids[i].state = "timed" /\ ids[i].left >= 0
                             THEN [ids[i] EXCEPT !.left = @ - 1] ELSE ids[i]]
    /\ UNCHANGED <<firstFree, firstTimed, lastTimed, usage, inUsage>>

IdsNext == NewID \/ (\E i \in Ids : FreeID(i)) \/ TimeoutIDs \/ Second

IdsSpec == IdsInit /\ [][IdsNext]_idVars

-----------------------------------------------------------------------------
(* Properties                                                              *)

\* However numbers are taken, given back and released, the two lists and the
\* numbers in use share all numbers among them: none is lost, none is in two, and
\* the counters agree.
IdsAreShared ==
    LET in(state) == {i \in Ids : ids[i].state = state}
        isList(q, S) == {q[k] : k \in DOMAIN q} = S /\ Len(q) = Cardinality(S)
    IN  /\ isList(ListFrom(firstFree), in("free"))
        /\ isList(Timed, in("timed"))
        /\ inUsage = Cardinality(in("allocated"))
        /\ usage = Cardinality(in("allocated") \cup in("timed"))

\* A number that was given back is not given out again before it has rested,
\* unless the map is changed.
IdsRest ==
    [][\A i \in Ids : ids[i].state = "timed" /\ ids'[i].state = "allocated"
                      => ids[i].left < 0]_idVars
=============================================================================
