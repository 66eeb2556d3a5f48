---------------------------- MODULE MCServerParts ----------------------------
(***************************************************************************)
(* Five parts of the server that share no state, in one run: a behaviour   *)
(* is one of `part', and the others stay as they begin.                    *)
(***************************************************************************)
EXTENDS ServerSlots, AsyncWriter, MCJobPool, RingBuffer, SnapIDPool

\* All clients come from one host, which the limit on clients is about.
SameIp == [a \in Addrs \cup {NoAddr} |-> IF a = NoAddr THEN 0 ELSE 1]

VARIABLE part

vars == <<part, slotVars, aioVars, poolVars, ringVars, idVars>>

Init ==
    /\ part \in {"slots", "writer", "jobs", "ring", "ids"}
    /\ SlotsInit /\ AioInit /\ PoolInit /\ RingInit /\ IdsInit
    /\ part # "ring" => ~recycle
    /\ part # "jobs" => uses = {"clients"}

InSlots == part = "slots" /\ UNCHANGED <<part, aioVars, poolVars, ringVars, idVars>>
InWriter == part = "writer" /\ UNCHANGED <<part, slotVars, poolVars, ringVars, idVars>>
InJobs == part = "jobs" /\ UNCHANGED <<part, slotVars, aioVars, ringVars, idVars>>
InRing == part = "ring" /\ UNCHANGED <<part, slotVars, aioVars, poolVars, idVars>>
InIds == part = "ids" /\ UNCHANGED <<part, slotVars, aioVars, poolVars, ringVars>>

SlotsStep ==
    \/ \E T \in SUBSET Online, O \in SUBSET Kept : InSlots /\ Update(T, O)
    \/ \E a \in Addrs : InSlots /\ NewClient(a)
    \/ \E a \in Addrs : InSlots /\ NewClientNoAuth(a)
    \/ \E a \in Addrs : InSlots /\ Ban(a)
    \/ \E s \in Slots : InSlots /\ Close(s)
    \/ \E s \in Slots : InSlots /\ Kick(s)
    \/ \E s \in Slots : InSlots /\ ClientVer(s)
    \/ \E s \in Slots : InSlots /\ Info(s)
    \/ \E s \in Slots : InSlots /\ Ready(s)
    \/ \E s \in Slots : InSlots /\ StartInfo(s)
    \/ \E s \in Slots : InSlots /\ EnterGame(s)
    \/ \E s \in Slots : InSlots /\ EnterUnwanted(s)
    \/ \E s \in Slots, code \in Codes \cup {NoCode} : InSlots /\ ConTimeout(s, code)
    \/ InSlots /\ MapReload

WriterStep ==
    \/ \E n \in 1 .. MaxLine : InWriter /\ AioWrite(n)
    \/ InWriter /\ AioSignal
    \/ InWriter /\ AioClose
    \/ InWriter /\ AioWait
    \/ InWriter /\ AioFree
    \/ InWriter /\ ThreadEnds
    \/ InWriter /\ ThreadFindsNothing
    \/ InWriter /\ ThreadWakes
    \/ InWriter /\ ThreadTakes
    \/ InWriter /\ ThreadWrites

JobsStep ==
    \/ \E j \in Clients : InJobs /\ InitDnsbl(j)
    \/ InJobs /\ RefreshAddresses
    \/ InJobs /\ AddLookup
    \/ InJobs /\ Signal
    \/ InJobs /\ Destroy
    \/ InJobs /\ Join
    \/ \E t \in Threads : InJobs /\ Check(t)
    \/ \E t \in Threads : InJobs /\ Wake(t)
    \/ \E t \in Threads : InJobs /\ Fetch(t)
    \/ \E t \in Threads : InJobs /\ FetchNothing(t)
    \/ \E t \in Threads : InJobs /\ Run(t)
    \/ \E t \in Threads : InJobs /\ Done(t)

RingStep ==
    \/ InRing /\ PopFirst
    \/ \E n \in 1 .. MaxItem : InRing /\ Allocate(n)

IdsStep ==
    \/ InIds /\ NewID
    \/ \E i \in Ids : InIds /\ FreeID(i)
    \/ InIds /\ TimeoutIDs
    \/ InIds /\ Second

Next == SlotsStep \/ WriterStep \/ JobsStep \/ RingStep \/ IdsStep

\* The fairness of AioFairness and PoolFairness, within their parts.
Fairness ==
    /\ WF_vars(InWriter /\ AioThread) /\ WF_vars(InWriter /\ AioSignal)
    /\ WF_vars(InJobs /\ (AddLookup \/ Signal \/ Join))
    /\ \A t \in Threads : WF_vars(InJobs /\ WorkerThread(t))

Spec == Init /\ [][Next]_vars /\ Fairness
=============================================================================
