# Verification of the DDNet PvP server

TLA+ models of the game server in `src/src` (a DDNet fork in which one server hosts many *rooms*, each with its own
match), the TLC configurations that check them on small instances, and TLAPS proofs of the facts that hold for every
size. `PROJECT.json` lists the components, the runs, the code each definition stands for, the hazards and the theorems.
Paths below are relative to `src/src`.

## The system

One thread runs the server: `CServer::Run` pumps the network, calls `CGameContext::OnTick` fifty times a second, and
sends snapshots. Everything the game does happens in handlers of that thread, so its hard behaviours are not data races
but *sequences*: handlers that call each other several levels deep, state that is read before a nested call and used
after it, counts that are kept in several places, and clients that appear and vanish between any two steps. Other
threads only run jobs, write files and talk to databases. Concurrency in the strict sense is between the two ends of a
connection, over UDP.

| component | state | operations | hard behaviour | correct when |
|---|---|---|---|---|
| **Connection** `engine/shared/network_conn.cpp`, `network.cpp` | numbers sent, received and acknowledged (mod 1024), resend buffer, packet under construction | queue, flush, feed, fetch, update, disconnect | loss, duplication, reordering, wrap-around, full buffer, time-outs | vital chunks arrive once and in order; nothing unreceived is forgotten; everything is delivered in the end |
| **Rooms** `game/server/teams.cpp`, `game/teamscore.cpp` | room of each client, counts, locks, invitations, instances, how much of the map each has loaded, reloads asked for | enter, leave, /join, /create, /lock, /invite, kick, change map or game type, tick | a room destroyed by its last member's departure, controllers replaced under their players, a loading budget shared by all rooms | counts, rooms and controllers agree on who is where; every room gets ready |
| **Match** `game/server/gamecontroller.cpp` | game state and timer, team sizes, ready states, pause, balancing timer | join, leave, change team, ready, commands, tick, map reload | operations that start a match from within a leave or a balance; refused transitions; clients that are in the room but not in the game | team sizes are exact; states follow the players; nobody waits for ever |
| **Votes** `gamecontext.cpp`, `gamecontroller.cpp` | a vote of the server, one of each room | call, vote, tick, force, abort | the two exclude and cancel each other; a vote's command changes rooms and matches | a vote ends in time and with its victim, by the votes of those present |
| **Client slots** `engine/server/server.cpp`, `engine/shared/network_server.cpp` | state of each slot, tokens, map download | accept, ready, enter, drop, take over a timed-out slot | callbacks between three layers, reuse of slots | one client per slot, whose state the layers agree on |
| **Snapshot item numbers** `server.cpp` | free numbers, numbers that rest, in two lists through one array | take, give back, time out | order of the two lists, a change of the map | every number is in one place; none is reused early |
| **Ring buffer** `engine/shared/ringbuffer.cpp` | blocks in fixed memory, two places | allocate, pop | wrap-around, splitting and merging of blocks, recycling | a FIFO queue whose memory is not lost |
| **Jobs** `engine/shared/jobs.cpp` | list of jobs, semaphore, threads | add, fetch, run, destroy | threads in any order, jobs that are added again, shutdown | every job that is added is done |
| **File writer** `base/system.c` | ring of bytes, semaphore, thread, reference count | write, close, wait, free | growth of the ring while the thread writes, ends in any order | every byte is written, in order; the thread ends |
| **Databases** `engine/server/databases` | task ring, worker | execute, shutdown | ring without a full check | (no caller in this repository) |
| Snapshot storage and deltas, bans, register, console, players and characters, game modes, physics, demos, files, tools | | | | not modelled, see the end and `PROJECT.json` |

They interact by calls. The network calls `CServer`, which calls `CGameContext` when a client is connected, enters or is
dropped; that creates the `CPlayer` and calls `CGameTeams::OnPlayerConnect` and `OnPlayerDisconnect`; these move the
client and call `OnInternalPlayerJoin` and `OnInternalPlayerLeave` of the room's controller, from which the match counts
its teams. `CGameTeams::OnTick` ticks, reloads and loads all rooms. Votes run console commands, which call back into rooms
and matches. Invitations, and much else, are kept by client slot.

A client that has connected but still loads the map is the recurring hazard: it has a `CPlayer` with a team and room 0
as its room, but it was announced to no one.

## The modules

| module | models |
|---|---|
| `NetConnection` | both ends of an established connection and the network between them |
| `ReliableChannel` | what a connection promises: a FIFO channel in each direction, until that direction breaks |
| `NetConnection_proofs` | its invariants, and that it implements `ReliableChannel` |
| `Rooms` | `CGameTeams` |
| `RoomsLive`, `RoomsGuests` | `Rooms` with fairness; with the history of invitations |
| `Rooms_proofs` | its invariants, and that the lobby stays ready |
| `GameController`, `GameControllerLive` | the match of one room; the same with fairness |
| `GameController_proofs` | its invariants and action properties |
| `Votes` | the votes of the server and of all rooms |
| `Votes_proofs` | its invariants |
| `ServerSlots` | slots: `CNetServer`, `CServer` and what the game keeps for each |
| `ServerSlots_proofs` | its invariants |
| `AsyncWriter`, `JobPool`, `RingBuffer`, `SnapIDPool` | the parts of their names |
| `JobPool_proofs`, `SnapIDPool_proofs` | their invariants, and that numbers rest |
| `Buffers_proofs` | the invariants of `AsyncWriter` and `RingBuffer` |
| `MCNetConnection`, `MCGameController`, `MCGameControllerLive`, `MCVotes`, `MCJobPool` | values of constants for TLC |
| `MCServerParts` | one run of `ServerSlots`, `AsyncWriter`, `JobPool`, `RingBuffer` and `SnapIDPool`, which share no state: each behaviour is one of the five |

Operators named `...Unwrapped`, `...Keeping...`, `...Forgets` and so on, marked "Mutant" in their comment, are plausible
mistakes in the definition that follows them. No specification uses them: putting one in the place of its definition
violates a property, which shows that the property watches that code.

### NetConnection

A `conn` record is the `CNetConnection`; `unpacker` is what `CNetRecvUnpacker` has still to hand out; `wire` holds the
packets in flight. `Send`, `SendFlush`, `Recv`, `FetchChunk`, `Update` and `Drop` are the calls the two main loops make,
each with all it does (a `Recv` may resend the buffer, an `Update` may repeat, flush, send a keep-alive and disconnect).
`Recv` keeps a packet in flight when it is duplicated, any packet may be taken next, and `Lose` takes one away. Ghosts
(`payload`, `queued`, `delivered`, `overflow`, a packet's `acked`) number the chunks without wrapping around. A session
starts established; the clock appears as nondeterministic arguments of `Update`.

*Assumptions*: 32 KB hold fewer than half as many chunks as there are numbers (`BufferAssumption`: 455 of 1024), and a
packet is not delivered after the numbers have wrapped around to it (`LifetimeAssumption`). Without the second, UDP could
make any protocol with finite numbers fail.

### Rooms

`client`, `team` and `size` are the client's state and `CTeamsCore`; `open`, `locked`, `invited` and `reload` are the
arrays of `CGameTeams`; `created`, `init` and `entities` are the fields of its instances. `joined` condenses what the
room's present controller was told by `OnInternalPlayerJoin` and `OnInternalPlayerLeave`: joins less leaves, of each
client. Each chat command, console command and callback is an action; `OnTick` reloads and then loads. Its
loops are recursive functions, `visited` for a walk over the rooms and `rounds` for the walks that the tick makes, which stop
early, as the code does, when the tick's entities are spent. Where `vote_kick` reads a
controller it has deleted, the value read is any room. The tick of a controller, its votes and matches are in
`GameController` and `Votes`; what they do to rooms is always one of the commands.

### GameController

The controller and its world are one record, `room`, because the code's operations nest: `Leave` may run
`CheckReadyStates`, which starts a match, which balances the teams, which changes teams, which may start a match. Each is
an operator from room to room that calls the others where the code does. `IGS_...` states are the values of `state`;
`timer` is `m_GameStateTimer` in ticks. The loops that change several teams are `Times` of their body; `ChangeTeams` takes
the teams as a function of the players. Scores decide two things: that a match is over (any moment), and whom loops over
players prefer (an `order` chosen per step). Joining clients first are `connecting`, in room 0 only.

Left out: rounds and survival modes (lms, lts, catch, tkt), `m_PausePerMatch`, game modes that override a departure,
and players that `CanBeMovedOnBalance` exempts from balancing (who carries a flag, or is frozen).

### Votes

A *ballot* is the vote fields of the server (`CGameContext::m_Vote...`) or of a room's controller
(`IGameController::m_Vote...`): `ballot[Server]`, `ballot[r]`. `cast` is `m_Vote` and `m_VotePos` of each player, `votePos`
the counter of `CGameContext`: `Vote` takes the next position of it, a vote of the server sets it to 1, and a vote of a
room gives its caller the position 1 of another counter that nothing else reads. Zero is what the memory of a new
process and a change of the map (`Clear`) leave in it. `moderators` come and go (`Moderate`). Two fields are history:
`since`, who of an address has voted after a client, and `held`, that a count found enough votes while somebody
moderated. The calls of `NETMSGTYPE_CL_CALLVOTE` and `/setting` are `CallKick`, `CallSpectate`, `CallOption`,
`CallSetting`, `CallServerVote`; `Left`, `AfterMove` and `AfterDrop` are what `OnInternalPlayerLeave` and
`OnInternalPlayerJoin` do to ballots. `Tick(b)` is one ballot's part of a tick: count again if `m_VoteUpdate`, let the
clock decide, then end and run the command. `Result` is the count with the clock, as one value, so that an invariant can
speak of what the next tick will do. Counting goes by address, as in the loops of `Tick`: the first client of an
address that may vote stands for it, and the vote of the highest position, of the lowest id among equals, counts
(`Choice`). The share `Total / (100.0f / percentage)` is computed in single precision: `Enough` and `TooMany` compare
integers and have as a table (`ShareIsLess`) the six pairs of total and percentage that the rounding decides, found by computing every
total up to 64 clients and every percentage with IEEE arithmetic. (An x87 build may round otherwise.)

Simplified: a room is started as soon as it has a member; the ballot fields that `StartVote` sets before anybody reads
them are cleared when a ballot closes. Left out: the delays before votes and between votes of one client, players that
are away, the list of blocked addresses, `sv_vote_max_total`.

### ServerSlots

For each slot: `conn` and `peer` are the connection's `m_State` and `m_PeerAddr`, `protected` and `situation` its two
timeout flags, `client` the `m_State` of `CServer::m_aClients`, `player` the `CPlayer` (whose `m_TimeoutCode` and whether
its `StartInfo` has come matter), `members` the clients `CGameTeams` was told of. `Update` is a pass of
`CNetServer::Update`: the sets `T` of connections that time out in it and `O` of those whose protection ends stand for the
clock. `Drop` and `TakeOver` run the callbacks `DelClientCallback` and `OnClientDrop`. `ConTimeout` is `/timeout`, with
or without a code. `MapReload` is what a change of the map does to clients.

Left out: 0.7 clients, what the token handshake decides (an address that is let in has answered it), passwords, the limit
on connections in a short time, leaving a fng match; the data of a session is `NetConnection`.

### RingBuffer, SnapIDPool, JobPool, AsyncWriter

* `RingBuffer`: blocks in order of address, with a size and the item each holds; `Allocate` and `PopFirst` split and merge
  as the code does, in rings that recycle (web sockets) and rings that do not (connections). Sizes are in headers.
  `RingIsQueue` compares what `First` and `Next` find with a queue of items.
* `SnapIDPool`: the array with its two lists, linked as in the code; a step of the clock is a second.
* `JobPool`: the list of jobs under its lock, the semaphore, and each thread's place in `WorkerThread`; the two users of
  the pool add new jobs (`InitDnsbl`) or the same ones again (`RefreshAddresses`).
* `AsyncWriter`: the ring, `aio_thread` from one release of its lock to the next, and the calls of the thread that logs.

## The runs

| run | question | instance | why that is enough |
|---|---|---|---|
| `network_wrap` | order and memory across wrap-around | 5 chunks one way, 5 numbers, 2 packets in flight each | the numbers wrap round once with the buffer full; loss, duplication and reordering need two packets |
| `network_failures` | implements the channel, with failures | both ends send, may time out, close, overflow buffer and chunk count | every break of a direction happens |
| `network_delivery` | everything is delivered | 2 chunks one way | one chunk behind another; loss of either, of request and acknowledgement |
| `rooms` | counts, rooms, controllers; rooms get ready, the lobby stays so | 2 clients, lobby and 2 rooms, 2 entities, 1 per tick | a room with two members, one of whom leaves for a room it creates, while either loads or is reloaded; a round of loading ends before it has come to every unready room. The theorems hold for any number |
| `slot_reuse` (violation) | invitations | 2 clients, 1 room | |
| `match_states` | the state machine | 3 clients in room 0, all settings and timings | minimum of players is met, missed by one and exceeded |
| `match_teams` | sizes, balancing, readiness | 4 players, 2 teams, all orders | a balance must move one of several, and a shuffle has a choice |
| `match_goes_on` | liveness of a room left alone | 3 players, 2 teams | odd number of players: teams differ by one at best |
| `lobby_swap` (violation) | sizes at the end of a match | 2 clients in room 0 | |
| `votes` | votes exclude each other, end with their victim and in time, count addresses | 2 clients, lobby and 1 room, positions up to 2; four settings that have every pair of: one address or two, majority, room; in one of them client 1 may moderate, in another it may force votes | two positions tell the caller's tie with the first voter from the order after it; a caller and a victim, one of whom moves, leaves, comes back or votes in any state of both ballots; more addresses only change what is counted, and the theorem has any number |
| `server_parts` | slots, writer, jobs, ring, numbers | 3 slots, 2 addresses of one host, limit 2; buffer 2, local buffer 3, 7 bytes; 2 threads, 2 lookups of one kind; ring of 7; 4 numbers | the address that comes back finds its old slot, a slot of another and a free one; the buffer grows twice and wraps; both threads want one job; a ring holds three items and splits and joins on either side; both lists of numbers have a middle |
| `jobs_reuse` (violation) | jobs of both users | 2 threads, 2 clients, 1 master | |

The constants `MaxSend`, `MaxPackets`, `MaxMiscount`, `MaxVotes` bound counters and say so where they are declared. Nothing bounds the
length of a behaviour: all reachable states of each instance are explored, except in
`network_wrap`, whose constraint `Undisturbed` stops at a failed or closed session and at a chunk sent without a copy;
`network_failures` looks past those. The network runs, `server_parts` and
`jobs_reuse` turn the deadlock check off, because a session, a pool and a writer end; that they end only when they should
is what `Delivery`, `JobsGetDone` and `AioEnds` say. The others leave it on.

`match_states` is run in room 0, where clients that load the map are present; commands that move players are off there,
because moving such a client is the first finding. `match_teams` keeps the ready mode fixed and a warm-up before every
match, and is run in another room: without a warm-up a departure can start a match inside the leave handler, which counts
the leaver out twice (see "Further observations"). The sizes are exact outside these two circumstances, and only there.

In `jobs_reuse` both users share the pool, as they do in the server when `sv_dnsbl` is on; `server_parts` has one user at a
time, for which every property holds.

### Fairness

* `network_delivery`: both main loops drain the socket and call `Update` for ever, and its timers go off
  (`SF(Update)`, `SF(Repeat)`, `WF(FetchChunk)`); strong, since an end may be busy receiving in between. The link is fair
  (`FairLink`): a useful packet that is in flight again and again arrives again and again.
* `rooms`, `match_goes_on`: `CServer::Run` ticks the game for ever. A tick is possible in every state; `phase`
  changes with every tick and carries the weak fairness. What clients and administrators do is not assumed to happen; from
  the moment `quiet` they cause no new work (no new room, no new reload; in a match, nothing at all).
* `server_parts`: the system schedules every thread, so each worker thread and `aio_thread` goes on (`WF(WorkerThread(t))`,
  `WF(AioThread)`), and a thread that has let go of a lock to give a signal gives it (`WF(AioSignal)`, and for the main
  thread of the pool `WF(AddLookup \/ Signal \/ Join)`). No fairness between threads is assumed, nor that anything is
  ever logged, added or destroyed.

## What is proved

`NetConnection_proofs`, for every number space, buffer, packet size and bound that satisfies the assumptions:

* `TypeCorrect` (`TypeOK`), `DeliveredInOrder` (`InOrder`), `KeptUntilReceived` (`NothingForgotten`), `Refinement`
  (`ImplementsChannel`).
* The argument: the invariant `IInv` is `Numbering` (every chunk and acknowledgement, wherever it is, is the residue of
  an unwrapped number that the ghosts know) with `Direction(r)` for each receiver: what it has delivered is a prefix,
  the sender's buffer holds a contiguous run of numbers that begins no later than the first undelivered one, and
  what is in flight is recent. `InOrder` alone is not inductive: that the next number modulo 1024 *is* the
  next chunk follows only because nothing in flight is a whole number space away. `BackroomOf` and `WindowOf` are the
  arithmetic core: under the two assumptions the code's comparisons of residues decide the order of the unwrapped numbers.

`Rooms_proofs`, for any number of slots and rooms, any map and settings:

* `SizesAreRight` (`RoomSizes`), `RoomsAreTheirMembers` (`RoomsFollowMembers`), `ControllersAreTold`
  (`ControllersKnowMembers`).
* The three are inductive only together, and with three more facts: slots that are not in the game belong to the lobby
  (`LobbyOwnsTheRest`), the lobby exists, and its controller is never told of a leave without a join. A departure is the
  interesting step: `LastMember` shows that the code's test, a count of at most one, holds exactly for the last member,
  so that the room is destroyed with nobody in it, and every other room keeps its controller.
* `RoomsTypeCorrect` (`TypeOK`) and `LobbyIsReady` (`LobbyStaysReady`), which is about one tick, of any length: the tick may
  replace the lobby's map or its controller, and then has to load the lobby again before it ends. `Visits` and
  `Repeats` say of the two loops what they keep if every pass keeps it, by least counterexample. A walk
  comes to the lobby first, before the tick's budget can end it (`LobbyFirst`), so each walk that leaves it unready has
  added to its entities (`RoundKeeps`), and walks are repeated until it is ready (`LobbyLoaded`).

`Votes_proofs`, for any clients, rooms, addresses and settings:

* `VotesTypeCorrect` (`TypeOK`), `OneBallot` (`OneBallotToAClient`), `VictimStays` (`VictimIsThere`), `TimeDecides`
  (`EndsInTime`), `PassedByVoters` (`PassedByThoseHere`), and `LatestCounts` (`LatestVoteCounts`, which TLC finds true of
  the instance of `votes` too).
* Nearly every operation leaves each ballot *calmer* (`Calmer`): not opened, with no new victim, not decided for yes
  unless it was held.
  `CalmStep` proves the invariant for all of them at once, and calmness is transitive, so that a tick in which a vote is
  carried out, its victim leaves and another vote ends is put together from the parts (`DepartureStep`,
  `EndingDepartureStep`). Only the three ways to open a ballot need steps of their own.
* `PassedByThoseHere` needs two more facts. No open ballot is left with a yes of a count but one that was held for a
  moderator (`YesIsHeld`), else a yes could outlive those who voted it. And positions agree with the order in which
  votes were cast (`CastInv`): among the members of an open ballot a later vote has a higher position, unless both have
  position 1 (`InOrder`), and no position is beyond the counter but that of a caller (`Numbered`). Operations reset votes
  (`Faded`) or add one (`WithVoteFacts`); both keep the order, so that the vote of the highest position is the latest, or
  ties (`ChoiceIsLast`). The rest is counting: voters have distinct addresses, and each address present has a
  voter, its least client (`VotersOneByOne`, `AddressesOfVoters`).

`ServerSlots_proofs`, for any slots, addresses and codes:

* `SlotsTypeCorrect` (`SlotsTypeOK`), `LayersAgree` (`SlotsAgree`), `AddressesAreUnique` (`OneSlotPerAddress`),
  `ProtectionEnds` (`NewClientsUnprotected`), `LimitIsKept` (`AddressLimit`).
* The five are inductive together. The limit is the interesting part: sessions that are kept count, so an acceptance adds
  one holder of the host's address and has room for it, while a takeover gives the old slot the address of the new
  session and frees the new one, whatever host the old slot had been kept for (`TakeOverStep`).

`GameController_proofs`, for any players, settings, commands and orders in which loops visit the players:

* `MatchTypeCorrect` (`TypeOK`), `WaitsWhileTooFew` (`WaitsForPlayers`); where the map is never reloaded,
  `PausedWithTheMatch` (`WorldPaused`); outside a lobby and with a warm-up before every match, `SizesAreExact`
  (`TeamSizes`) and `BalancerIsAwake` (`BalancerAwake`); there, and with a fixed ready mode, `SomebodyIsAwaited`
  (`SomeoneToWaitFor`).
* The invariant is `Fine(room)`: `Steady` (types, timers and the pause follow the state), `Waits` and, where both
  conditions hold, `Sized` and `Awake`. None of them is about a step: each operator from room to room gets a lemma that
  says what it makes of *any* steady room (`Goes`, `Leads`, or `Still` if nobody moves), and since these compose, a leave
  that starts a match that balances the teams is no harder than its parts. The actions are then put together from lemmas.
* The loops are `Times(n, step, x)`, a recursive function: `TimesKeeps` (what every pass keeps, the loop keeps) and
  `TimesReaches` (what pass i leads from S[i] to S[i + 1]) are proved by least counterexample. `LoopEvens` says that the
  number of passes that `DoTeamBalance` computes beforehand is right, whatever each team change sets off.
* The conditions are needed: TLC finds that a departure that starts a match at once, in a room with warm-up 0, lets the
  balancer pick the leaver, which is counted out already (`TeamSizes` fails with five players), and that clients which are
  loading the map may be moved (`lobby_swap`).
* `SomebodyIsAwaited` rests on one fact about every way to begin waiting, that all players are asked (`Asks`), and on
  `CheckReadyStates`: after it the room either goes on or waits for somebody other than the one who leaves
  (`CheckReadyStatesWaiting`).
* `EmptyMatchResets` (`LastPlayerResets`), in modes without teams for every lobby and setting, with teams where the sizes
  are exact; `MatchBeginsStaffed` (`MatchNeedsPlayers`), where sizes are exact, and in modes without teams unless
  `set_team_all` is among the commands. Both are about steps, in which several handlers run inside each other. `Bears`
  says that an operator makes no match lose its players (`Lost`: nobody plays, and it is not in warm-up) that had some;
  `Even` and `Resets` are two reasons for it, that nobody leaves and that an empty match is reset. `Opens` says that an
  operator takes a warm-up to a warm-up or to a match with players enough (`Manned`), `Warms` that it ends none. `Even`,
  `Resets` and `Warms` compose like `Goes`, so that the lemma of a handler is put together from those of what it calls, and
  of `Next` (`StepKept`) from those of its actions. A departure counts the leaver out first and resets the match later, from
  a room that is lost already: `EmptyWaits`.
* These conditions are needed too. A command that moves all players one by one can make enough of them ready for a match
  without warm-up to begin in the middle of its loop; the rest of the loop then takes away the players it began with.

`JobPool_proofs`, for any number of threads and jobs:

* `PoolSignalsMatchJobs` (`SignalsMatchJobs`), for a pool that is used for one kind of jobs. For two kinds it is false, as
  `jobs_reuse` shows: there the kept pointer names a job of the other kind.
* The invariant has to say why the stale `m_pNext` of a job that is added a second time does no harm: the list is a stretch
  of the sequence in which its user adds them, every time (`Chain`), so that the pointer already names the job that comes next.

`SnapIDPool_proofs`, for any set of numbers and resting time:

* `NumbersAreShared` (`IdsAreShared`) and `NumbersRest` (`IdsRest`).
* The array is described by two sequences `f` and `t` (`Shared`): the numbers on the free list and on the timed list, without
  repetition, each linked to the next. Operations take from the front and append behind, of either list; each step names the
  new pair. That walking along the links gives back these sequences is proved by least counterexample.

`Buffers_proofs`, for any size of the rings, of the thread's buffer, of the lines and of the items:

* `WriterKeepsAll` (`AioKeepsAll`). The ring's contents are a stretch of memory that may wrap around; the lemmas say what a
  write, a read and the copy into a larger ring make of it. The thread writes outside its lock, while the ring
  it took the bytes from may grow.
* `QueueInMemory` (`RingIsQueue`) and `MemoryRejoins` (`RingRejoins`), for rings that recycle and rings that do not. The
  invariant gives the list of blocks a shape (`Laid`): first the items that wrapped around, then at most one free block,
  then the older items, then at most one free block, each part possibly empty, and the pointers to produce and to consume
  at their ends. `Addresses` says that the blocks lie behind each other and fill the ring, so that nothing is lost. A pop
  frees the oldest item and merges it with what is free behind and before it (`PoppedLaid`); an allocation takes the free
  memory behind the newest item, or wraps around to what is free at the beginning (`FoundLaid`, `TakenLaid`); recycling
  pops until there is room (`RoomStores`). That a walk meets the items in order, and no free block between them, is
  proved by the least place where it would not (`WalkIs`). An empty ring has only free blocks, and these are one.

Only model-checked:

* all liveness (`Delivery`, `RoomsSettle`, `GameGoesOn`, `TeamsEvenOut`, `AioEnds`, `JobsGetDone`): fairness and enabledness are
  beyond the prover;
* what the conditions of the theorems about matches and jobs exclude.

Induction over data of any size has no rule that the provers can apply; where a loop's length matters, the proofs name the
least pass at which the claim fails.

## Findings

* `lobby_swap`: commands and the end of a match move clients of room 0 that have not entered the game out of teams they
  were never counted in (`gamecontroller.cpp:1614`).
* `slot_reuse`: invitations outlive their client; the next one in the slot enters the locked room (`teams.cpp:446`). The
  two texts that refuse `/join` are also chosen the wrong way round (`ddracechat.cpp:523`).
* `jobs_reuse`: a job that is added a second time keeps the `m_pNext` of the first, so the list gets a wrong successor and
  a job behind it is lost (`jobs.cpp:69`; "add job to queue").

## Further observations

Met while modelling, not run as findings, most of them left out of the instances for the reason given.

* Matches: a departure that makes everyone else ready starts a match without warm-up within the leave handler, whose
  balancing moves the leaver and counts it out twice (`gamecontroller.cpp:1182`). A room reloaded in a pause does not
  "default to wait for more players": the controller stays paused over a world that runs (493, 1280). A pause with a timer
  leaves the ready states as they are (543), a change of the ready mode does not look at who waits (433), and `restart 0`
  does not end a warm-up (93).
* Votes: a second call while a vote is open gives the open vote the type and the victim of the call, though its command
  stays (`gamecontext.cpp:1956`, against the comments at `gamecontroller.cpp:1956` and 1185); `VictimIsThere` is about the
  name, the command goes by client id. A forced result may be counted over before the tick acts on it
  (`gamecontroller.cpp:2042`; the help at `gamecontext.cpp:2863` says a result is forced). Who leaves room 0 for another
  room and then the server ends no vote of room 0. With `sv_vote_majority` 0 the clock decides by the last count, which
  may be older than the last change of room. `vote_kick` of a room's last member deletes the controller that is running
  the vote (2061). After a change of the map the first vote
  cast has the position of the caller of a room's vote (2693, `gamecontext.cpp:1994`), and of two clients of one address the
  lower id counts: "count the latest vote by this ip" (2021) is then false, and TLC finds it within five steps if
  `LatestVoteCounts` leaves out `Tied`. A yes that a count gave while somebody moderated stays, and passes without a new
  majority when the time is up or the last moderator has left (2054). At 45 percent 27 of 60 addresses pass a vote, since
  `60 / (100.0f / 45)` rounds to less than 27 (2042).
* Rooms: `m_aTeamReload` outlives a destroyed room, and the next room with the number is reloaded (`teams.cpp:376`).
* Slots: with `sv_max_clients_per_ip` 1 the slot kept for a client counts against the client itself, which cannot come
  back (`network_server.cpp:245`). A close between a takeover and the next `Update` finds `m_TimeoutSituation` still set,
  and protection survives a change of the map. `m_HasPersistentData` is not cleared when its slot is
  dropped (`server.cpp:1498`).
* Threads: `CJobPool::Init` starts as many threads as it is asked for, also past the end of its array, and remembers at
  most 32 of them (`jobs.cpp:87`). Logging after the
  writer was freed at exit uses freed memory (`system.c:201`). `Last` of a ring returns null when one item fills it
  (nothing calls it).
* Texts: a client goes to the recovery rate when it has acknowledged none of the snapshots stored, which are those of
  three seconds (`server.cpp:899`); the documentation of snapshots says one second. "redo the whole process after 60
  minutes" happens after 120 rounds of about 15 seconds (`register.cpp:261`).

## Not modelled

Game modes, weapons, physics and the world (numeric simulation, whose correctness is game play), demos, maps, storage,
compression and packing (functions on bytes, best tested), the console's parser and access levels, bans, the registration
with the masters, snapshot storage and deltas (planned), databases (no caller in this repository), the antibot interface,
port mapping, web sockets (empty or closed modules), tools, tests and vendored libraries.

A large part of the files counted as implementation are tables, headers of libraries and generated data; of the rest, most
lines are game play. The map covers the parts that keep state for several clients at once.

## Plan

Done: connection, rooms, match, votes, slots, ring, numbers, jobs, log writer; proofs of all of these.
Next, in this order:

1. Composition: `ServerSlots` implements the arrivals and departures that `Rooms` assumes, and the session that a takeover
   moves is a `NetConnection` (`network_conn.cpp:485`).
2. `SnapshotStorage` and the acknowledgement of deltas; bans in order of expiry; registration with retries.
