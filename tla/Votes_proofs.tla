----------------------------- MODULE Votes_proofs -----------------------------
(***************************************************************************)
(* Proofs about Votes, for any number of clients and rooms, any addresses   *)
(* and any settings.                                                       *)
(***************************************************************************)
EXTENDS Votes, FiniteSetTheorems, WellFoundedInduction, TLAPS

\* The types of what decides where clients are and which ballots are open.
BallotsTyped ==
    /\ room \in [Clients -> Rooms \cup {Out}]
    /\ spec \subseteq Clients
    /\ ballot \in [Ballots -> Ballot]
    /\ config \in Configs

\* A count that says yes is acted on in the tick that makes it, unless somebody
\* moderates: an open ballot is found with it only if it was held for a moderator.
Sound(v) == v.open /\ v.enforce = "yes" => v.held
YesIsHeld == \A b \in Ballots : Sound(ballot[b])

IInv ==
    /\ BallotsTyped
    /\ OneBallotToAClient
    /\ VictimIsThere
    /\ YesIsHeld

\* The votes are numbered: who has none has no position and follows nobody, who has
\* one has a position the counter has reached, or that of the caller of a room's vote.
Numbered(C, n) ==
    \A c \in Clients :
        /\ C[c].vote = 0 <=> C[c].pos = 0
        /\ C[c].vote = 0 => C[c].since = {}
        /\ C[c].pos <= n \/ C[c].pos = 1
        /\ \A d \in C[c].since : d # c /\ C[d].pos # 0

\* Later votes of the members M have higher positions, but where the caller's ties.
InOrder(C, M) ==
    \A c, d \in M : d \in C[c].since =>
        \/ C[c].pos < C[d].pos
        \/ C[c].pos = 1 /\ C[d].pos = 1

CastInv ==
    /\ cast \in [Clients -> Votes] /\ votePos \in 0 .. MaxVotes
    /\ Numbered(cast, votePos)
    /\ \A c \in Clients : ~InGame(c) => cast[c].pos = 0
    /\ \A b \in Ballots : ballot[b].open => InOrder(cast, Members(b))

\* The ballot w is v or what is left of it: it is not opened, gets no new victim,
\* keeps one only while it stays as open as it was, and is not decided for yes
\* unless it was held.
Calmer(v, w) ==
    /\ w \in Ballot
    /\ w.open => v.open
    /\ w.victim # Nobody => w.victim = v.victim /\ w.open = v.open
    /\ Sound(v) => Sound(w)

-----------------------------------------------------------------------------
(* What the operations make of a ballot.                                   *)

LEMMA Places == /\ Lobby \in Rooms /\ Rooms \subseteq Ballots /\ Rooms \subseteq Nat
                /\ Server \in Ballots /\ Server \notin Rooms /\ Out \notin Rooms
                /\ Nobody \notin Clients /\ Ballots = Rooms \cup {Server}
  BY VotesAssumption DEF Lobby, Rooms, Ballots, Server, Out, Nobody

LEMMA ConfigFacts ==
    ASSUME BallotsTyped
    PROVE  config.majority \in BOOLEAN
  BY VotesAssumption DEF BallotsTyped, Config

LEMMA NewBallotFacts ==
    NewBallot \in Ballot /\ ~NewBallot.open /\ NewBallot.victim = Nobody /\ Sound(NewBallot)
  BY DEF Sound, NewBallot, Ballot, NoCommand, Commands, Types, Decisions

LEMMA SameIsCalmer == ASSUME NEW v \in Ballot PROVE Calmer(v, v)
  BY DEF Calmer

LEMMA EndedIsCalmer ==
    ASSUME NEW v \in Ballot
    PROVE  Calmer(v, Ended(v)) /\ ~Ended(v).open /\ Ended(v).victim = Nobody
  BY NewBallotFacts DEF Calmer, Sound, Ended, Ballot, NewBallot

LEMMA NewIsCalmer == ASSUME NEW v \in Ballot PROVE Calmer(v, NewBallot)
  BY NewBallotFacts DEF Calmer

LEMMA TouchedIsCalmer ==
    ASSUME NEW v \in Ballot
    PROVE  Calmer(v, Touched(v))
  BY DEF Calmer, Sound, Touched, Ballot

LEMMA ForcedIsCalmer ==
    ASSUME NEW v \in Ballot, NEW yes \in BOOLEAN
    PROVE  Calmer(v, Forced(v, yes))
  BY DEF Calmer, Sound, Forced, Ballot, Decisions

LEMMA ExpiredIsCalmer ==
    ASSUME NEW v \in Ballot
    PROVE  Calmer(v, [v EXCEPT !.expired = TRUE])
  BY DEF Calmer, Sound, Ballot

LEMMA CalmerTwice ==
    ASSUME NEW u, NEW v, NEW w, Calmer(u, v), Calmer(v, w)
    PROVE  Calmer(u, w)
  BY DEF Calmer

-----------------------------------------------------------------------------
(* Steps.                                                                  *)

LEMMA InitStep == Init => IInv
<1> SUFFICES ASSUME Init PROVE IInv
  OBVIOUS
<1>1. \A b \in Ballots : ballot[b] = NewBallot  BY DEF Init
<1>2. BallotsTyped  BY NewBallotFacts DEF Init, BallotsTyped
<1>3. OneBallotToAClient  BY <1>1, NewBallotFacts, Places DEF OneBallotToAClient
<1>4. VictimIsThere  BY <1>1, NewBallotFacts, Places DEF VictimIsThere
<1>5. YesIsHeld  BY <1>1, NewBallotFacts DEF YesIsHeld
<1>. QED  BY <1>2, <1>3, <1>4, <1>5 DEF IInv

\* No ballot is opened, and the players that votes are about stay where they are.
LEMMA CalmStep ==
    ASSUME IInv,
           ballot' \in [Ballots -> Ballot],
           \A b \in Ballots : Calmer(ballot[b], ballot'[b]),
           room' \in [Clients -> Rooms \cup {Out}],
           \A r \in Rooms \ {Lobby} : ballot'[r].victim # Nobody
                => room'[ballot'[r].victim] = room[ballot'[r].victim],
           spec' \subseteq Clients, config' = config
    PROVE  IInv'
<1>1. BallotsTyped /\ OneBallotToAClient /\ VictimIsThere /\ YesIsHeld  BY DEF IInv
<1>2. BallotsTyped'  BY <1>1 DEF BallotsTyped
<1>3. OneBallotToAClient'
  BY <1>1, Places DEF OneBallotToAClient, Calmer
<1>4. VictimIsThere'
  <2> SUFFICES ASSUME NEW r \in Rooms \ {Lobby}, ballot'[r].victim # Nobody
               PROVE  ballot'[r].open /\ room'[ballot'[r].victim] = r
    BY DEF VictimIsThere
  <2>1. ballot'[r].victim = ballot[r].victim /\ ballot'[r].open = ballot[r].open
    BY Places DEF Calmer
  <2>2. ballot[r].open /\ room[ballot[r].victim] = r
    BY <1>1, <2>1 DEF VictimIsThere
  <2>. QED  BY <2>1, <2>2
<1>5. YesIsHeld'
  BY <1>1 DEF YesIsHeld, Calmer
<1>. QED  BY <1>2, <1>3, <1>4, <1>5 DEF IInv

\* The same with everybody where they were.
LEMMA QuietStep ==
    ASSUME IInv,
           ballot' \in [Ballots -> Ballot],
           \A b \in Ballots : Calmer(ballot[b], ballot'[b]),
           spec' \subseteq Clients, UNCHANGED <<room, config>>
    PROVE  IInv'
<1>1. room' \in [Clients -> Rooms \cup {Out}]  BY DEF IInv, BallotsTyped
<1>2. \A r \in Rooms \ {Lobby} : ballot'[r].victim # Nobody
          => room'[ballot'[r].victim] = room[ballot'[r].victim]
  OBVIOUS
<1>. QED  BY <1>1, <1>2, CalmStep

\* A vote of a room is opened or renamed by a member, for a victim in its room.
LEMMA CallRoomStep ==
    ASSUME IInv, NEW c \in Clients, NEW type \in Types, NEW victim \in Clients \cup {Nobody},
           NEW cmd \in Commands, victim # Nobody => room[victim] = room[c],
           CallRoomVote(c, type, victim, cmd)
    PROVE  IInv'
<1> DEFINE r == room[c]
           v == ballot[r]
           named == [v EXCEPT !.type = type, !.victim = IF victim # Nobody THEN victim ELSE @]
<1>1. BallotsTyped /\ OneBallotToAClient /\ VictimIsThere /\ YesIsHeld  BY DEF IInv
<1>2. /\ r \in Rooms /\ ~ballot[Server].open /\ UNCHANGED <<room, spec, config>>
      /\ \/ named.open /\ ballot' = [ballot EXCEPT ![r] = named]
         \/ ~named.open /\ ballot' = [ballot EXCEPT ![r] = Started(named, cmd)]
  BY <1>1, ConfigFacts DEF CallRoomVote
<1>3. v \in Ballot  BY <1>1, <1>2, Places DEF BallotsTyped
<1>4. /\ named \in Ballot /\ named.open = v.open /\ named.enforce = v.enforce /\ named.held = v.held
      /\ named.victim = IF victim # Nobody THEN victim ELSE v.victim
  BY <1>3 DEF Ballot
<1> HIDE DEF named
<1>5. /\ Started(named, cmd) \in Ballot /\ Started(named, cmd).open
      /\ Started(named, cmd).enforce = "unknown"
      /\ Started(named, cmd).victim = named.victim
  BY <1>4 DEF Started, Ballot, Decisions
<1>6. PICK w \in Ballot : /\ ballot' = [ballot EXCEPT ![r] = w]
                          /\ w.open /\ w.victim = named.victim
                          /\ Sound(v) => Sound(w)
  BY <1>2, <1>4, <1>5 DEF Sound
<1>r. r \in Ballots /\ ballot \in [Ballots -> Ballot] /\ r = room[c] /\ v = ballot[r]
  BY <1>1, <1>2, Places DEF BallotsTyped
<1> HIDE DEF r, v
<1>7. /\ ballot'[r] = w /\ ballot' \in [Ballots -> Ballot]
      /\ \A b \in Ballots \ {r} : ballot'[b] = ballot[b]
  BY <1>6, <1>r
<1>8. BallotsTyped'  BY <1>1, <1>2, <1>7 DEF BallotsTyped
<1>9. OneBallotToAClient'
  BY <1>2, <1>7, Places DEF OneBallotToAClient
<1>10. VictimIsThere'
  <2> SUFFICES ASSUME NEW q \in Rooms \ {Lobby}, ballot'[q].victim # Nobody
               PROVE  ballot'[q].open /\ room'[ballot'[q].victim] = q
    BY DEF VictimIsThere
  <2>1. CASE q # r
    <3>1. ballot'[q] = ballot[q]  BY <1>7, <2>1, Places
    <3>. QED  BY <1>1, <1>2, <3>1 DEF VictimIsThere
  <2>2. CASE q = r
    <3>1. ballot'[q].victim = named.victim /\ ballot'[q].open  BY <1>6, <1>7, <2>2
    <3>2. CASE victim # Nobody  BY <1>2, <1>4, <1>r, <2>2, <3>1, <3>2
    <3>3. CASE victim = Nobody
      <4>1. named.victim = v.victim  BY <1>4, <3>3
      <4>2. v.victim # Nobody  BY <3>1, <4>1
      <4>3. room[v.victim] = q  BY <1>1, <1>r, <2>2, <4>2 DEF VictimIsThere
      <4>. QED  BY <1>2, <3>1, <4>1, <4>3
    <3>. QED  BY <3>2, <3>3
  <2>. QED  BY <2>1, <2>2
<1>11. YesIsHeld'
  <2> SUFFICES ASSUME NEW b \in Ballots PROVE Sound(ballot'[b])
    BY DEF YesIsHeld
  <2>1. CASE b = r  BY <1>1, <1>6, <1>7, <1>r, <2>1 DEF YesIsHeld
  <2>2. CASE b # r  BY <1>1, <1>7, <2>2 DEF YesIsHeld
  <2>. QED  BY <2>1, <2>2
<1>. QED  BY <1>8, <1>9, <1>10, <1>11 DEF IInv

LEMMA CallsStep ==
    ASSUME IInv, NEW c \in Clients, NEW w \in Clients,
           CallKick(c, w) \/ CallSpectate(c, w) \/ CallOption(c) \/ CallSetting(c)
    PROVE  IInv'
<1>1. NoCommand \in Commands  BY DEF NoCommand, Commands
<1>2. Nobody \notin Clients  BY Places
<1>3. CASE CallKick(c, w)
  <2>1. [do |-> "kick", who |-> w] \in Commands  BY DEF Commands
  <2>. QED  BY <1>3, <2>1, CallRoomStep DEF CallKick, Types
<1>4. CASE CallSpectate(c, w)
  <2>1. [do |-> "spectate", who |-> w] \in Commands  BY DEF Commands
  <2>. QED  BY <1>4, <2>1, CallRoomStep DEF CallSpectate, Types
<1>5. CASE CallOption(c)
  BY <1>1, <1>5, CallRoomStep DEF CallOption, Types
<1>6. CASE CallSetting(c)
  <2>1. room[c] \in Ballots
    BY <1>6, Places DEF CallSetting, IInv, BallotsTyped
  <2>2. ballot[room[c]].type \in Types
    BY <2>1 DEF IInv, BallotsTyped, Ballot
  <2>. QED  BY <1>1, <1>6, <2>2, CallRoomStep DEF CallSetting
<1>. QED  BY <1>3, <1>4, <1>5, <1>6

LEMMA CallServerStep == ASSUME IInv, NEW c \in Clients, CallServerVote(c) PROVE IInv'
<1> DEFINE started == Started([ballot[Server] EXCEPT !.type = "option"], NoCommand)
<1>1. BallotsTyped /\ OneBallotToAClient /\ VictimIsThere /\ YesIsHeld  BY DEF IInv
<1>2. /\ UNCHANGED <<room, spec, config>>
      /\ ballot' = [b \in Ballots |->
                      IF b = Server THEN started
                      ELSE IF ballot[b].open THEN Ended(ballot[b]) ELSE ballot[b]]
  <2>1. [ballot[Server] EXCEPT !.type = "option"] = [ballot[Server] EXCEPT !.type = "option"]
    OBVIOUS
  <2>. QED  BY DEF CallServerVote
<1>3. ballot[Server] \in Ballot  BY <1>1, Places DEF BallotsTyped
<1>4. started \in Ballot /\ started.enforce = "unknown"
  BY <1>3, NewBallotFacts DEF Started, Ballot, Decisions, Types, NewBallot
<1> HIDE DEF started
<1>5. \A b \in Rooms : /\ ballot'[b] \in Ballot /\ ~ballot'[b].open
                       /\ b # Lobby => ballot'[b].victim = Nobody
  <2> SUFFICES ASSUME NEW b \in Rooms
               PROVE  /\ ballot'[b] \in Ballot /\ ~ballot'[b].open
                      /\ b # Lobby => ballot'[b].victim = Nobody
    OBVIOUS
  <2>1. /\ b \in Ballots /\ b # Server /\ ballot[b] \in Ballot
        /\ ballot'[b] = IF ballot[b].open THEN Ended(ballot[b]) ELSE ballot[b]
    BY <1>1, <1>2, Places DEF BallotsTyped
  <2>2. Ended(ballot[b]) \in Ballot /\ ~Ended(ballot[b]).open /\ Ended(ballot[b]).victim = Nobody
    BY <2>1, EndedIsCalmer DEF Calmer
  <2>3. ~ballot[b].open /\ b # Lobby => ballot[b].victim = Nobody
    BY <1>1 DEF VictimIsThere
  <2>. QED  BY <2>1, <2>2, <2>3
<1>6. ballot'[Server] = started  BY <1>2, Places
<1>7. BallotsTyped'
  <2>1. ballot' \in [Ballots -> Ballot]  BY <1>2, <1>4, <1>5, <1>6, Places
  <2>. QED  BY <1>1, <1>2, <2>1 DEF BallotsTyped
<1>8. OneBallotToAClient'  BY <1>5 DEF OneBallotToAClient
<1>9. VictimIsThere'  BY <1>5 DEF VictimIsThere
<1>10. YesIsHeld'  BY <1>4, <1>5, <1>6, Places DEF YesIsHeld, Sound
<1>. QED  BY <1>7, <1>8, <1>9, <1>10 DEF IInv

\* What a departure leaves of the ballots B.
LEMMA LeftFacts ==
    ASSUME BallotsTyped, NEW c \in Clients, room[c] \in Rooms, NEW disconnects \in BOOLEAN
    PROVE  LET L == Left(ballot, c, disconnects)
           IN  /\ L \in [Ballots -> Ballot]
               /\ \A b \in Ballots : Calmer(ballot[b], L[b])
               /\ room[c] # Lobby => L[room[c]].victim # c
<1> DEFINE r == room[c]
           v == ballot[r]
           aborted == v.victim = c /\ (r # Lobby \/ disconnects)
           w == IF r # Lobby /\ Members(r) = {c} THEN NewBallot
                ELSE IF aborted THEN Ended(v)
                ELSE Touched(v)
<1>1. r \in Ballots /\ v \in Ballot /\ ballot \in [Ballots -> Ballot]
  BY Places DEF BallotsTyped
<1>2. Left(ballot, c, disconnects) = [ballot EXCEPT ![r] = w]  BY DEF Left
<1>3. Touched(v).victim = v.victim  BY <1>1 DEF Touched, Ballot
<1>4. Calmer(v, w)
  BY <1>1, NewIsCalmer, EndedIsCalmer, TouchedIsCalmer
<1>5. r # Lobby => w.victim # c
  BY <1>1, <1>3, NewBallotFacts, EndedIsCalmer, Places
<1> HIDE DEF w
<1>6. w \in Ballot  BY <1>4 DEF Calmer
<1>7. \A b \in Ballots : Calmer(ballot[b], ballot[b])  BY <1>1, SameIsCalmer
<1> DEFINE L == [ballot EXCEPT ![r] = w]
<1>8. L \in [Ballots -> Ballot] /\ L[r] = w /\ \A b \in Ballots \ {r} : L[b] = ballot[b]
  BY <1>1, <1>6
<1> HIDE DEF L
<1>9. \A b \in Ballots : Calmer(ballot[b], L[b])
  <2> TAKE b \in Ballots
  <2>1. CASE b = r  BY <1>4, <1>8, <2>1
  <2>2. CASE b # r  BY <1>7, <1>8, <2>2
  <2>. QED  BY <2>1, <2>2
<1>10. Left(ballot, c, disconnects) = L  BY <1>2 DEF L
<1>. QED  BY <1>5, <1>8, <1>9, <1>10

\* One ballot of B becomes a calmer one.
LEMMA OneCalmer ==
    ASSUME NEW B \in [Ballots -> Ballot], NEW b \in Ballots, NEW w, Calmer(B[b], w)
    PROVE  /\ [B EXCEPT ![b] = w] \in [Ballots -> Ballot]
           /\ \A d \in Ballots : Calmer(B[d], [B EXCEPT ![b] = w][d])
<1>1. w \in Ballot  BY DEF Calmer
<1>2. \A d \in Ballots : Calmer(B[d], B[d])  BY SameIsCalmer
<1> DEFINE L == [B EXCEPT ![b] = w]
<1>3. L \in [Ballots -> Ballot] /\ L[b] = w /\ \A d \in Ballots \ {b} : L[d] = B[d]
  BY <1>1
<1> HIDE DEF L
<1>4. ASSUME NEW d \in Ballots PROVE Calmer(B[d], L[d])
  <2>1. CASE d = b  BY <1>3, <2>1
  <2>2. CASE d # b  BY <1>2, <1>3, <2>2
  <2>. QED  BY <2>1, <2>2
<1>5. L \in [Ballots -> Ballot] /\ \A d \in Ballots : Calmer(B[d], L[d])  BY <1>3, <1>4
<1>. QED  BY <1>5 DEF L

LEMMA TouchedIn ==
    ASSUME NEW B \in [Ballots -> Ballot], NEW b \in Ballots
    PROVE  /\ [B EXCEPT ![b] = Touched(@)] \in [Ballots -> Ballot]
           /\ \A d \in Ballots : Calmer(B[d], [B EXCEPT ![b] = Touched(@)][d])
<1>1. Calmer(B[b], Touched(B[b]))  BY TouchedIsCalmer
<1>2. [B EXCEPT ![b] = Touched(@)] = [B EXCEPT ![b] = Touched(B[b])]  OBVIOUS
<1>. QED  BY <1>1, <1>2, OneCalmer

LEMMA EndedIn ==
    ASSUME NEW B \in [Ballots -> Ballot], NEW b \in Ballots
    PROVE  /\ EndIn(B, b) \in [Ballots -> Ballot]
           /\ \A d \in Ballots : Calmer(B[d], EndIn(B, b)[d])
<1>1. Calmer(B[b], Ended(B[b]))  BY EndedIsCalmer
<1>2. EndIn(B, b) = [B EXCEPT ![b] = Ended(B[b])]  BY DEF EndIn
<1>. QED  BY <1>1, <1>2, OneCalmer

\* A client goes to another room or leaves, whatever else ends with it: the vote of
\* its room does not keep it as its victim.
LEMMA DepartureStep ==
    ASSUME IInv, NEW c \in Clients, room[c] \in Rooms, NEW q \in Rooms \cup {Out},
           NEW disconnects \in BOOLEAN,
           room' = [room EXCEPT ![c] = q],
           ballot' \in [Ballots -> Ballot],
           \A b \in Ballots : Calmer(Left(ballot, c, disconnects)[b], ballot'[b]),
           spec' \subseteq Clients, config' = config
    PROVE  IInv'
<1> DEFINE L == Left(ballot, c, disconnects)
<1>1. BallotsTyped /\ VictimIsThere  BY DEF IInv
<1>2. /\ \A b \in Ballots : Calmer(ballot[b], L[b])
      /\ room[c] # Lobby => L[room[c]].victim # c
  BY <1>1, LeftFacts
<1>3. \A b \in Ballots : Calmer(L[b], ballot'[b])  OBVIOUS
<1> HIDE DEF L
<1>4. \A b \in Ballots : Calmer(ballot[b], ballot'[b])  BY <1>2, <1>3, CalmerTwice
<1>5. room' \in [Clients -> Rooms \cup {Out}]  BY <1>1 DEF BallotsTyped
<1>6. ASSUME NEW r \in Rooms \ {Lobby}, ballot'[r].victim # Nobody
      PROVE  room'[ballot'[r].victim] = room[ballot'[r].victim]
  <2> DEFINE v == ballot'[r].victim
  <2>1. r \in Ballots  BY Places
  <2>2. v = ballot[r].victim /\ v = L[r].victim
    BY <1>3, <1>4, <1>6, <2>1 DEF Calmer
  <2>3. room[v] = r  BY <1>1, <1>6, <2>2 DEF VictimIsThere
  <2>4. v # c
    <3>1. SUFFICES ASSUME v = c PROVE FALSE
      OBVIOUS
    <3>2. r = room[c]  BY <2>3, <3>1
    <3>. QED  BY <1>2, <2>2, <3>1, <3>2
  <2>5. v \in Clients
    BY <1>6, <2>1 DEF Ballot
  <2>. QED  BY <1>1, <2>4, <2>5 DEF BallotsTyped
<1>. QED  BY <1>4, <1>5, <1>6, CalmStep

LEMMA InRooms ==
    ASSUME BallotsTyped, NEW c \in Clients, InGame(c)
    PROVE  room[c] \in Rooms
  BY DEF BallotsTyped, InGame

LEMMA AfterMoveFacts ==
    ASSUME BallotsTyped, NEW c \in Clients, room[c] \in Rooms, NEW r \in Rooms
    PROVE  /\ AfterMove(ballot, c, r) \in [Ballots -> Ballot]
           /\ \A b \in Ballots : Calmer(Left(ballot, c, FALSE)[b], AfterMove(ballot, c, r)[b])
<1> DEFINE L == Left(ballot, c, FALSE)
<1>1. L \in [Ballots -> Ballot]  BY LeftFacts
<1>2. r \in Ballots  BY Places
<1>3. AfterMove(ballot, c, r) = [L EXCEPT ![r] = Touched(@)]
  BY DEF AfterMove
<1> HIDE DEF L
<1>4. /\ [L EXCEPT ![r] = Touched(@)] \in [Ballots -> Ballot]
      /\ \A b \in Ballots : Calmer(L[b], [L EXCEPT ![r] = Touched(@)][b])
  BY <1>1, <1>2, TouchedIn
<1>. QED  BY <1>3, <1>4 DEF L

LEMMA AfterDropFacts ==
    ASSUME BallotsTyped, NEW c \in Clients, room[c] \in Rooms
    PROVE  /\ AfterDrop(ballot, c) \in [Ballots -> Ballot]
           /\ \A b \in Ballots : Calmer(Left(ballot, c, TRUE)[b], AfterDrop(ballot, c)[b])
<1> DEFINE L == Left(ballot, c, TRUE)
<1>1. L \in [Ballots -> Ballot]  BY LeftFacts
<1>2. AfterDrop(ballot, c) = [L EXCEPT ![Server] = Touched(@)]
  BY DEF AfterDrop
<1> HIDE DEF L
<1>3. /\ [L EXCEPT ![Server] = Touched(@)] \in [Ballots -> Ballot]
      /\ \A b \in Ballots : Calmer(L[b], [L EXCEPT ![Server] = Touched(@)][b])
  BY <1>1, Places, TouchedIn
<1>. QED  BY <1>2, <1>3 DEF L

LEMMA MoveStep == ASSUME IInv, NEW c \in Clients, NEW r \in Rooms, Move(c, r) PROVE IInv'
<1>1. BallotsTyped  BY DEF IInv
<1>2. /\ InGame(c) /\ room' = [room EXCEPT ![c] = r] /\ spec' = spec \ {c} /\ config' = config
      /\ ballot' = AfterMove(ballot, c, r)
  BY DEF Move, GoTo
<1>3. room[c] \in Rooms  BY <1>1, <1>2, InRooms
<1>4. spec' \subseteq Clients  BY <1>1, <1>2 DEF BallotsTyped
<1>. QED  BY <1>1, <1>2, <1>3, <1>4, AfterMoveFacts, DepartureStep

LEMMA DisconnectStep == ASSUME IInv, NEW c \in Clients, Disconnect(c) PROVE IInv'
<1>1. BallotsTyped  BY DEF IInv
<1>2. /\ InGame(c) /\ room' = [room EXCEPT ![c] = Out] /\ spec' = spec \ {c} /\ config' = config
      /\ ballot' = AfterDrop(ballot, c)
  BY DEF Disconnect, Drop
<1>3. room[c] \in Rooms  BY <1>1, <1>2, InRooms
<1>4. spec' \subseteq Clients  BY <1>1, <1>2 DEF BallotsTyped
<1>. QED  BY <1>1, <1>2, <1>3, <1>4, AfterDropFacts, DepartureStep

\* Two ballots are to be counted again.
LEMMA TwoTouched ==
    ASSUME BallotsTyped, NEW b \in Ballots, NEW d \in Ballots, b # d,
           ballot' = [ballot EXCEPT ![b] = Touched(@), ![d] = Touched(@)]
    PROVE  /\ ballot' \in [Ballots -> Ballot]
           /\ \A e \in Ballots : Calmer(ballot[e], ballot'[e])
<1>1. ballot \in [Ballots -> Ballot]  BY DEF BallotsTyped
<1>2. \A e \in Ballots : ballot'[e] = IF e \in {b, d} THEN Touched(ballot[e]) ELSE ballot[e]
  BY <1>1
<1>3. \A e \in Ballots : Calmer(ballot[e], Touched(ballot[e])) /\ Calmer(ballot[e], ballot[e])
  BY <1>1, TouchedIsCalmer, SameIsCalmer
<1>4. \A e \in Ballots : Calmer(ballot[e], ballot'[e])
  <2> TAKE e \in Ballots
  <2>1. CASE e \in {b, d}  BY <1>2, <1>3, <2>1
  <2>2. CASE e \notin {b, d}  BY <1>2, <1>3, <2>2
  <2>. QED  BY <2>1, <2>2
<1>5. \A e \in Ballots : ballot'[e] \in Ballot  BY <1>4 DEF Calmer
<1>. QED  BY <1>1, <1>4, <1>5

LEMMA EnterStep == ASSUME IInv, NEW c \in Clients, Enter(c) PROVE IInv'
<1>1. BallotsTyped /\ VictimIsThere  BY DEF IInv
<1>2. /\ room[c] = Out /\ room' = [room EXCEPT ![c] = Lobby] /\ UNCHANGED <<spec, config>>
      /\ ballot' = [ballot EXCEPT ![Lobby] = Touched(@), ![Server] = Touched(@)]
  BY DEF Enter, InGame
<1>3. /\ ballot' \in [Ballots -> Ballot]
      /\ \A b \in Ballots : Calmer(ballot[b], ballot'[b])
  BY <1>1, <1>2, Places, TwoTouched
<1>4. room' \in [Clients -> Rooms \cup {Out}]  BY <1>1, <1>2, Places DEF BallotsTyped
<1>5. ASSUME NEW r \in Rooms \ {Lobby}, ballot'[r].victim # Nobody
      PROVE  room'[ballot'[r].victim] = room[ballot'[r].victim]
  <2> DEFINE v == ballot'[r].victim
  <2>1. v = ballot[r].victim /\ v \in Clients  BY <1>3, <1>5, Places DEF Calmer, Ballot
  <2>2. room[v] = r  BY <1>1, <1>5, <2>1 DEF VictimIsThere
  <2>3. v # c  BY <1>2, <2>2, Places
  <2>. QED  BY <1>1, <1>2, <2>1, <2>3 DEF BallotsTyped
<1>6. spec' \subseteq Clients  BY <1>1, <1>2 DEF BallotsTyped
<1>. QED  BY <1>2, <1>3, <1>4, <1>5, <1>6, CalmStep

LEMMA ChangeTeamStep == ASSUME IInv, NEW c \in Clients, ChangeTeam(c) PROVE IInv'
<1>1. BallotsTyped  BY DEF IInv
<1>2. /\ InGame(c) /\ spec' = Toggled(spec, c) /\ UNCHANGED <<room, config>>
      /\ ballot' = [ballot EXCEPT ![room[c]] = Touched(@), ![Server] = Touched(@)]
  BY DEF ChangeTeam
<1>3. room[c] \in Ballots /\ room[c] # Server  BY <1>1, <1>2, InRooms, Places
<1>4. /\ ballot' \in [Ballots -> Ballot]
      /\ \A b \in Ballots : Calmer(ballot[b], ballot'[b])
  BY <1>1, <1>2, <1>3, Places, TwoTouched
<1>5. spec' \subseteq Clients  BY <1>1, <1>2 DEF BallotsTyped, Toggled
<1>. QED  BY <1>2, <1>4, <1>5, QuietStep

LEMMA VoteStep ==
    ASSUME IInv, NEW c \in Clients, NEW choice \in {-1, 1}, Vote(c, choice)
    PROVE  IInv'
<1>1. BallotsTyped  BY DEF IInv
<1>2. /\ InGame(c) /\ UNCHANGED <<room, spec, config>>
      /\ \/ ballot' = [ballot EXCEPT ![room[c]] = Touched(@), ![Server] = Touched(@)]
         \/ ballot' = ballot
  BY DEF Vote
<1>3. room[c] \in Ballots /\ room[c] # Server  BY <1>1, <1>2, InRooms, Places
<1>4. spec' \subseteq Clients  BY <1>1, <1>2 DEF BallotsTyped
<1>5. CASE ballot' = ballot
  <2>1. ballot' \in [Ballots -> Ballot] /\ \A b \in Ballots : Calmer(ballot[b], ballot'[b])
    BY <1>1, <1>5, SameIsCalmer DEF BallotsTyped
  <2>. QED  BY <1>2, <1>4, <2>1, QuietStep
<1>6. CASE ballot' = [ballot EXCEPT ![room[c]] = Touched(@), ![Server] = Touched(@)]
  <2>1. ballot' \in [Ballots -> Ballot] /\ \A b \in Ballots : Calmer(ballot[b], ballot'[b])
    BY <1>1, <1>3, <1>6, Places, TwoTouched
  <2>. QED  BY <1>2, <1>4, <2>1, QuietStep
<1>. QED  BY <1>2, <1>5, <1>6

LEMMA ModerateStep == ASSUME IInv, NEW c \in Clients, Moderate(c) PROVE IInv'
<1>1. UNCHANGED <<room, spec, ballot, config>>  BY DEF Moderate
<1>2. ballot' \in [Ballots -> Ballot] /\ \A b \in Ballots : Calmer(ballot[b], ballot'[b])
  BY <1>1, SameIsCalmer DEF IInv, BallotsTyped
<1>3. spec' \subseteq Clients  BY <1>1 DEF IInv, BallotsTyped
<1>. QED  BY <1>1, <1>2, <1>3, QuietStep

LEMMA ForceVoteStep ==
    ASSUME IInv, NEW c \in Clients, NEW yes \in BOOLEAN, ForceVote(c, yes)
    PROVE  IInv'
<1>1. BallotsTyped /\ ballot \in [Ballots -> Ballot]  BY DEF IInv, BallotsTyped
<1>2. /\ InGame(c) /\ UNCHANGED <<room, spec, config>>
      /\ ballot' = [ballot EXCEPT ![room[c]] = Forced(@, yes), ![Server] = Forced(@, yes)]
  BY DEF ForceVote
<1>3. room[c] \in Ballots /\ room[c] # Server  BY <1>1, <1>2, InRooms, Places
<1>4. \A b \in Ballots :
         ballot'[b] = IF b \in {room[c], Server} THEN Forced(ballot[b], yes) ELSE ballot[b]
  BY <1>1, <1>2, <1>3, Places
<1>5. \A b \in Ballots : Calmer(ballot[b], Forced(ballot[b], yes)) /\ Calmer(ballot[b], ballot[b])
  BY <1>1, ForcedIsCalmer, SameIsCalmer
<1>6. \A b \in Ballots : Calmer(ballot[b], ballot'[b])
  <2> TAKE b \in Ballots
  <2>1. CASE b \in {room[c], Server}  BY <1>4, <1>5, <2>1
  <2>2. CASE b \notin {room[c], Server}  BY <1>4, <1>5, <2>2
  <2>. QED  BY <2>1, <2>2
<1>7. ballot' \in [Ballots -> Ballot]
  <2>1. \A b \in Ballots : ballot'[b] \in Ballot  BY <1>6 DEF Calmer
  <2>. QED  BY <1>1, <1>2, <2>1
<1>8. spec' \subseteq Clients  BY <1>1, <1>2 DEF BallotsTyped
<1>. QED  BY <1>2, <1>6, <1>7, <1>8, QuietStep

LEMMA TimeUpStep == ASSUME IInv, NEW b \in Ballots, TimeUp(b) PROVE IInv'
<1>1. BallotsTyped /\ ballot \in [Ballots -> Ballot]  BY DEF IInv, BallotsTyped
<1>2. /\ UNCHANGED <<room, spec, config>>
      /\ ballot' = [ballot EXCEPT ![b] = [ballot[b] EXCEPT !.expired = TRUE]]
  BY DEF TimeUp
<1>3. Calmer(ballot[b], [ballot[b] EXCEPT !.expired = TRUE])  BY <1>1, ExpiredIsCalmer
<1>4. /\ ballot' \in [Ballots -> Ballot]
      /\ \A d \in Ballots : Calmer(ballot[d], ballot'[d])
  BY <1>1, <1>2, <1>3, OneCalmer
<1>5. spec' \subseteq Clients  BY <1>1, <1>2 DEF BallotsTyped
<1>. QED  BY <1>2, <1>4, <1>5, QuietStep

-----------------------------------------------------------------------------
(* Counting addresses.                                                     *)

LEMMA LeastNumber == ASSUME NEW S, S \subseteq Nat, S # {} PROVE \E x \in S : \A y \in S : x <= y
<1>1. \E x \in S : \A y \in S : ~ (<<y, x>> \in OpToRel(<, Nat))
  <2>1. IsWellFoundedOn(OpToRel(<, Nat), Nat)  BY NatLessThanWellFounded
  <2>. QED  BY <2>1, WFMin, Zenon
<1>2. \A x \in Nat, y \in Nat : <<y, x>> \in OpToRel(<, Nat) <=> y < x
  BY Zenon DEF OpToRel
<1>3. PICK x \in S : \A y \in S : ~ (<<y, x>> \in OpToRel(<, Nat))  BY <1>1
<1>4. ASSUME NEW y \in S PROVE x <= y
  <2>1. x \in Nat /\ y \in Nat  OBVIOUS
  <2>2. ~ (y < x)  BY <1>2, <1>3, <2>1, Zenon
  <2>. QED  BY <2>1, <2>2
<1>. QED  BY <1>4

LEMMA CardOfImage ==
    ASSUME NEW S, IsFiniteSet(S), NEW f, \A c, d \in S : f[c] = f[d] => c = d
    PROVE  Cardinality({f[c] : c \in S}) = Cardinality(S)
<1> DEFINE T == {f[c] : c \in S}
           g == [c \in S |-> f[c]]
<1>1. g \in [S -> T]  OBVIOUS
<1>2. \A c, d \in S : g[c] = g[d] => c = d  OBVIOUS
<1>3. \A t \in T : \E c \in S : g[c] = t  OBVIOUS
<1> HIDE DEF g, T
<1>4. g \in Bijection(S, T)
  BY <1>1, <1>2, <1>3 DEF Bijection, Injection, Surjection, IsInjective
<1>5. ExistsBijection(S, T)  BY <1>4 DEF ExistsBijection
<1>6. Cardinality(T) = Cardinality(S)  BY <1>5, FS_Bijection
<1>. QED  BY <1>6 DEF T

LEMMA LeastOf == ASSUME NEW S \in SUBSET Clients, S # {} PROVE \E x \in S : \A y \in S : x <= y
<1>1. S \subseteq Nat  BY VotesAssumption
<1>. QED  BY <1>1, LeastNumber

LEMMA VotersOneByOne ==
    ASSUME NEW b \in Ballots
    PROVE  /\ Voters(b) \subseteq Members(b) /\ IsFiniteSet(Voters(b))
           /\ \A c, d \in Voters(b) : config.addr[c] = config.addr[d] => c = d
<1>1. Voters(b) \subseteq Members(b) /\ Members(b) \subseteq Clients  BY DEF Voters, Members
<1>2. IsFiniteSet(Voters(b))  BY <1>1, VotesAssumption, FS_Subset
<1>3. ASSUME NEW c \in Voters(b), NEW d \in Voters(b), config.addr[c] = config.addr[d]
      PROVE  c = d
  <2>1. c \in SameAddr(b, d) /\ d \in SameAddr(b, c)  BY <1>1, <1>3 DEF SameAddr
  <2>2. MayVote(b, c) /\ MayVote(b, d)  BY DEF Voters
  <2>3. ~(c < d) /\ ~(d < c)  BY <2>1, <2>2 DEF Voters
  <2>4. c \in Nat /\ d \in Nat  BY <1>1, VotesAssumption
  <2>. QED  BY <2>3, <2>4
<1>. QED  BY <1>1, <1>2, <1>3

\* Every address with a client that may vote has one that stands for it.
LEMMA AddressesOfVoters ==
    ASSUME NEW b \in Ballots
    PROVE  {config.addr[c] : c \in {d \in Members(b) : MayVote(b, d)}}
             = {config.addr[c] : c \in Voters(b)}
<1>1. Voters(b) \subseteq {d \in Members(b) : MayVote(b, d)}  BY DEF Voters
<1>2. ASSUME NEW c \in Members(b), MayVote(b, c)
      PROVE  \E d \in Voters(b) : config.addr[d] = config.addr[c]
  <2> DEFINE S == {d \in SameAddr(b, c) : MayVote(b, d)}
  <2>1. c \in S  BY <1>2 DEF SameAddr
  <2>2. S \in SUBSET Clients  BY DEF SameAddr, Members
  <2>3. PICK x \in S : \A y \in S : x <= y  BY <2>1, <2>2, LeastOf
  <2>4. x \in Members(b) /\ config.addr[x] = config.addr[c] /\ MayVote(b, x)
    BY <2>3 DEF SameAddr
  <2>5. SameAddr(b, x) = SameAddr(b, c)  BY <2>4 DEF SameAddr
  <2>6. \A d \in SameAddr(b, x) : d < x => ~MayVote(b, d)
    <3> SUFFICES ASSUME NEW d \in SameAddr(b, x), d < x, MayVote(b, d) PROVE FALSE
      OBVIOUS
    <3>1. d \in S  BY <2>5
    <3>2. x <= d /\ x \in Nat /\ d \in Nat  BY <2>2, <2>3, <3>1, VotesAssumption
    <3>. QED  BY <3>2
  <2>. QED  BY <2>4, <2>6 DEF Voters
<1>. QED  BY <1>1, <1>2

\* Of the clients of an address one has the highest position, and of several the lowest id.
LEMMA HighestHeard ==
    ASSUME CastInv, NEW b \in Ballots, NEW c \in Members(b)
    PROVE  \E d \in Heard(b, c) : \A e \in Heard(b, c) :
              \/ cast[e].pos < cast[d].pos
              \/ cast[e].pos = cast[d].pos /\ d <= e
<1> DEFINE H == Heard(b, c)
           below(e) == MaxVotes - cast[e].pos
           D == {below(e) : e \in H}
<1>1. H \subseteq Clients /\ H \subseteq Nat /\ c \in H
  <2>1. Members(b) \subseteq Clients /\ Clients \subseteq Nat
    BY VotesAssumption DEF Members
  <2>2. c \in Nat  BY <2>1
  <2>3. c <= c  BY <2>2
  <2>. QED  BY <2>1, <2>3 DEF Heard, SameAddr
<1> HIDE DEF H
<1>2. \A e \in H : cast[e].pos \in 0 .. MaxVotes  BY <1>1 DEF CastInv, Votes
<1>3. MaxVotes \in Nat  BY VotesAssumption
<1>4. \A e \in H : below(e) \in Nat  BY <1>2, <1>3
<1>5. D \subseteq Nat /\ D # {}  BY <1>1, <1>4
<1>6. PICK x \in D : \A y \in D : x <= y
  <2> HIDE DEF D
  <2>. QED  BY <1>5, LeastNumber
<1>7. PICK h \in H : x = below(h)  BY <1>6
<1>8. \A e \in H : cast[e].pos <= cast[h].pos
  <2> TAKE e \in H
  <2>1. below(h) <= below(e)  BY <1>6, <1>7
  <2>. QED  BY <1>2, <1>3, <2>1
<1> DEFINE T == {e \in H : cast[e].pos = cast[h].pos}
<1>9. PICK d \in T : \A e \in T : d <= e
  <2>1. T \in SUBSET Clients /\ T # {}  BY <1>1
  <2> HIDE DEF T
  <2>. QED  BY <2>1, LeastOf
<1>10. ASSUME NEW e \in H
       PROVE  \/ cast[e].pos < cast[d].pos
              \/ cast[e].pos = cast[d].pos /\ d <= e
  BY <1>2, <1>8, <1>9
<1>11. d \in H  BY <1>9
<1>. QED  BY <1>10, <1>11 DEF H

\* The vote that counts for an address is one it has cast last, or that of the caller
\* or of the first voter after it, which have the same position; it is none only if the
\* address has cast none.
LEMMA ChoiceIsLast ==
    ASSUME CastInv, NEW b \in Ballots, ballot[b].open, NEW c \in Members(b)
    PROVE  /\ Choice(b, c) = 0 => \A d \in Heard(b, c) : cast[d].vote = 0
           /\ Choice(b, c) # 0 => LastIs(b, c, Choice(b, c)) \/ Tied(b, c)
<1> DEFINE H == Heard(b, c)
           highest(d) == \A e \in H : \/ cast[e].pos < cast[d].pos
                                      \/ cast[e].pos = cast[d].pos /\ d <= e
           d == CHOOSE d \in H : highest(d)
<1>1. H \subseteq Members(b) /\ H \subseteq Clients  BY DEF Heard, SameAddr, Members
<1>2. \E x \in H : highest(x)  BY HighestHeard
<1>3. d \in H /\ highest(d)
  <2> HIDE DEF H, highest
  <2>. QED  BY <1>2
<1>4. Choice(b, c) = cast[d].vote  BY DEF Choice
<1> HIDE DEF d
<1>5. \A e \in H : cast[e].pos \in Nat /\ (cast[e].vote = 0 <=> cast[e].pos = 0)
  <2>1. Numbered(cast, votePos) /\ cast \in [Clients -> Votes]  BY DEF CastInv
  <2>2. ASSUME NEW e \in H PROVE cast[e].pos \in Nat
    <3>1. cast[e] \in Votes  BY <1>1, <2>1
    <3>2. cast[e].pos \in 0 .. MaxVotes /\ MaxVotes \in Nat  BY <3>1, VotesAssumption DEF Votes
    <3>. QED  BY <3>2
  <2>3. \A e \in H : cast[e].vote = 0 <=> cast[e].pos = 0  BY <1>1, <2>1 DEF Numbered
  <2>. QED  BY <2>2, <2>3
<1>6. \A e \in H : cast[e].pos <= cast[d].pos  BY <1>3, <1>5
<1>7. CASE cast[d].vote = 0
  <2>1. cast[d].pos = 0  BY <1>3, <1>5, <1>7
  <2>2. ASSUME NEW e \in H PROVE cast[e].vote = 0
    <3>1. cast[e].pos <= 0 /\ cast[e].pos \in Nat  BY <1>5, <1>6, <2>1
    <3>2. cast[e].pos = 0  BY <3>1
    <3>. QED  BY <1>5, <3>2
  <2>. QED  BY <1>4, <1>7, <2>2
<1>8. CASE cast[d].vote # 0 /\ cast[d].since \cap H = {}
  BY <1>3, <1>4, <1>8 DEF LastIs
<1>9. CASE cast[d].vote # 0 /\ cast[d].since \cap H # {}
  <2>1. PICK e \in H : e \in cast[d].since  BY <1>9
  <2>2. e # d  BY <1>1, <1>3, <2>1 DEF CastInv, Numbered
  <2>3. \/ cast[d].pos < cast[e].pos
        \/ cast[d].pos = 1 /\ cast[e].pos = 1
    BY <1>1, <1>3, <2>1 DEF CastInv, InOrder
  <2>4. cast[d].pos = 1 /\ cast[e].pos = 1  BY <1>3, <1>5, <1>6, <2>3
  <2>5. Tied(b, c)  BY <1>3, <2>2, <2>4 DEF Tied
  <2>. QED  BY <1>4, <1>9, <2>5
<1>. QED  BY <1>7, <1>8, <1>9

\* More of the same number of voters are enough if fewer are.
LEMMA MoreIsEnough ==
    ASSUME NEW y \in Nat, NEW z \in Nat, NEW t \in Nat, y <= z, Enough(y, t)
    PROVE  Enough(z, t)
<1>1. YesPercentage \in Nat  BY VotesAssumption
<1>2. t * YesPercentage \in Nat  BY <1>1
<1>3. y * 100 >= t * YesPercentage  BY <1>2 DEF Enough
<1>4. CASE y = z  BY <1>4
<1>5. CASE y < z
  <2>1. z * 100 > y * 100  BY <1>5
  <2>2. z * 100 > t * YesPercentage  BY <1>2, <1>3, <2>1
  <2>. QED  BY <2>2 DEF Enough
<1>. QED  BY <1>4, <1>5

\* A count that says yes has found the votes of enough addresses (UpdateVote).
LEMMA CountedHasVotes ==
    ASSUME CastInv, NEW b \in Ballots, ballot[b].open, Enough(Yes(b), Total(b))
    PROVE  HasVotes(b)
<1> DEFINE V == Voters(b)
           Y == {d \in V : Choice(b, d) = 1}
           W == {d \in V : LastIs(b, d, 1) \/ Tied(b, d)}
<1>1. /\ V \subseteq Members(b) /\ IsFiniteSet(V)
      /\ \A c, d \in V : config.addr[c] = config.addr[d] => c = d
  BY VotersOneByOne
<1>2. Y \subseteq W
  <2> SUFFICES ASSUME NEW c \in Y PROVE c \in W
    OBVIOUS
  <2>1. c \in Members(b) /\ Choice(b, c) = 1  BY <1>1
  <2>2. LastIs(b, c, 1) \/ Tied(b, c)  BY <2>1, ChoiceIsLast
  <2>. QED  BY <2>2
<1>3. W \subseteq V  OBVIOUS
<1>4. Yes(b) = Cardinality(Y) /\ Total(b) = Cardinality(V)  BY DEF Yes, Total
<1>5. HasVotes(b) <=> Enough(Cardinality({config.addr[c] : c \in W}),
                             Cardinality({config.addr[c] : c \in V}))
  BY AddressesOfVoters DEF HasVotes
<1> HIDE DEF V, Y, W
<1>6. IsFiniteSet(W)  BY <1>1, <1>3, FS_Subset
<1>7. IsFiniteSet(Y) /\ Cardinality(Y) <= Cardinality(W)  BY <1>2, <1>6, FS_Subset
<1>8. Cardinality({config.addr[c] : c \in V}) = Cardinality(V)  BY <1>1, CardOfImage
<1>9. Cardinality({config.addr[c] : c \in W}) = Cardinality(W)
  BY <1>1, <1>3, <1>6, CardOfImage
<1>10. Cardinality(Y) \in Nat /\ Cardinality(W) \in Nat /\ Cardinality(V) \in Nat
  BY <1>1, <1>6, <1>7, FS_CardinalityType
<1>11. Enough(Cardinality(W), Cardinality(V))
  BY <1>4, <1>7, <1>10, MoreIsEnough
<1>. QED  BY <1>5, <1>8, <1>9, <1>11

-----------------------------------------------------------------------------
(* Ticks.                                                                  *)

\* A ballot ends and nothing else happens to the ballots.
LEMMA EndStep ==
    ASSUME IInv, NEW b \in Ballots, ballot' = EndIn(ballot, b),
           spec' \subseteq Clients, UNCHANGED <<room, config>>
    PROVE  IInv'
<1>1. ballot \in [Ballots -> Ballot]  BY DEF IInv, BallotsTyped
<1>2. /\ EndIn(ballot, b) \in [Ballots -> Ballot]
      /\ \A d \in Ballots : Calmer(ballot[d], EndIn(ballot, b)[d])
  BY <1>1, EndedIn
<1>. QED  BY <1>2, QuietStep

LEMMA SpecIsTyped == IInv => spec \subseteq Clients
  BY DEF IInv, BallotsTyped

\* A command about a player names a client.
LEMMA TargetIsClient ==
    ASSUME IInv, NEW b \in Ballots, Passing(b, "kick") \/ Passing(b, "spectate")
    PROVE  Target(b) \in Clients
<1>1. ballot[b].command \in Commands  BY DEF IInv, BallotsTyped, Ballot
<1>2. ballot[b].command.do # "set"  BY DEF Passing
<1>. QED  BY <1>1, <1>2 DEF Target, Commands, NoCommand

\* A departure in the tick that ends the ballot b.
LEMMA EndingDepartureStep ==
    ASSUME IInv, NEW c \in Clients, room[c] \in Rooms, NEW q \in Rooms \cup {Out},
           NEW disconnects \in BOOLEAN, NEW B \in [Ballots -> Ballot], NEW b \in Ballots,
           \A d \in Ballots : Calmer(Left(ballot, c, disconnects)[d], B[d]),
           room' = [room EXCEPT ![c] = q], ballot' = EndIn(B, b),
           spec' \subseteq Clients, config' = config
    PROVE  IInv'
<1> DEFINE L == Left(ballot, c, disconnects)
<1>1. \A d \in Ballots : Calmer(L[d], B[d])  OBVIOUS
<1> HIDE DEF L
<1>2. /\ ballot' \in [Ballots -> Ballot]
      /\ \A d \in Ballots : Calmer(B[d], ballot'[d])
  BY EndedIn
<1>3. \A d \in Ballots : Calmer(L[d], ballot'[d])  BY <1>1, <1>2, CalmerTwice
<1>. QED  BY <1>2, <1>3, DepartureStep DEF L

LEMMA TickKickStep == ASSUME IInv, TickKick PROVE IInv'
<1> DEFINE c == Target(Lobby)
<1>0. c \in Clients  BY TargetIsClient, Places DEF TickKick
<1>1. BallotsTyped  BY DEF IInv
<1>2. spec \subseteq Clients /\ Lobby \in Ballots  BY SpecIsTyped, Places
<1>3. CASE InGame(c)
  <2>1. /\ room' = [room EXCEPT ![c] = Out] /\ spec' = spec \ {c} /\ config' = config
        /\ ballot' = EndIn(AfterDrop(ballot, c), Lobby)
    BY <1>3 DEF TickKick, Drop
  <2>2. room[c] \in Rooms  BY <1>0, <1>1, <1>3, InRooms
  <2>3. c \in Clients  BY <1>0
  <2> HIDE DEF c
  <2>4. /\ AfterDrop(ballot, c) \in [Ballots -> Ballot]
        /\ \A d \in Ballots : Calmer(Left(ballot, c, TRUE)[d], AfterDrop(ballot, c)[d])
    BY <1>1, <2>2, <2>3, AfterDropFacts
  <2>5. spec' \subseteq Clients  BY <1>2, <2>1
  <2>. QED  BY <1>2, <2>1, <2>2, <2>3, <2>4, <2>5, EndingDepartureStep
<1>4. CASE ~InGame(c)
  <2>1. ballot' = EndIn(ballot, Lobby) /\ UNCHANGED <<room, spec, config>>
    BY <1>4 DEF TickKick
  <2>. QED  BY <1>2, <2>1, EndStep
<1>. QED  BY <1>3, <1>4

LEMMA TickRoomKickStep ==
    ASSUME IInv, NEW b \in Ballots, TickRoomKick(b)
    PROVE  IInv'
<1> DEFINE c == Target(b)
<1>0. c \in Clients  BY TargetIsClient DEF TickRoomKick
<1>1. BallotsTyped  BY DEF IInv
<1>2. spec \subseteq Clients /\ Lobby \in Rooms  BY SpecIsTyped, Places
<1>3. CASE InGame(c) /\ room[c] # Lobby
  <2>1. /\ room' = [room EXCEPT ![c] = Lobby] /\ spec' = spec \ {c} /\ config' = config
        /\ ballot' = EndIn(AfterMove(ballot, c, Lobby), b)
    BY <1>3 DEF TickRoomKick, GoTo
  <2>2. room[c] \in Rooms  BY <1>0, <1>1, <1>3, InRooms
  <2>3. c \in Clients  BY <1>0
  <2> HIDE DEF c
  <2>4. /\ AfterMove(ballot, c, Lobby) \in [Ballots -> Ballot]
        /\ \A d \in Ballots : Calmer(Left(ballot, c, FALSE)[d], AfterMove(ballot, c, Lobby)[d])
    BY <1>1, <1>2, <2>2, <2>3, AfterMoveFacts
  <2>5. spec' \subseteq Clients  BY <1>2, <2>1
  <2>. QED  BY <1>2, <2>1, <2>2, <2>3, <2>4, <2>5, EndingDepartureStep
<1>4. CASE ~(InGame(c) /\ room[c] # Lobby)
  <2>1. ballot' = EndIn(ballot, b) /\ UNCHANGED <<room, spec, config>>
    BY <1>4 DEF TickRoomKick
  <2>. QED  BY <1>2, <2>1, EndStep
<1>. QED  BY <1>3, <1>4

LEMMA TickSpectateStep ==
    ASSUME IInv, NEW b \in Ballots, TickSpectate(b)
    PROVE  IInv'
<1> DEFINE c == Target(b)
<1>0. c \in Clients  BY TargetIsClient DEF TickSpectate
<1>1. BallotsTyped /\ ballot \in [Ballots -> Ballot]  BY DEF IInv, BallotsTyped
<1>2. spec \subseteq Clients  BY SpecIsTyped
<1>3. CASE InGame(c) /\ c \notin spec
  <2> DEFINE B == [ballot EXCEPT ![room[c]] = Touched(@)]
  <2>1. /\ spec' = spec \cup {c} /\ UNCHANGED <<room, config>>
        /\ ballot' = EndIn(B, b)
    BY <1>3 DEF TickSpectate
  <2>2. room[c] \in Ballots  BY <1>0, <1>1, <1>3, InRooms, Places
  <2>3. B \in [Ballots -> Ballot] /\ \A d \in Ballots : Calmer(ballot[d], B[d])
    BY <1>1, <2>2, TouchedIn
  <2> HIDE DEF B
  <2>4. ballot' \in [Ballots -> Ballot] /\ \A d \in Ballots : Calmer(B[d], ballot'[d])
    BY <2>1, <2>3, EndedIn
  <2>5. \A d \in Ballots : Calmer(ballot[d], ballot'[d])  BY <2>3, <2>4, CalmerTwice
  <2>6. spec' \subseteq Clients  BY <1>0, <1>2, <2>1
  <2>. QED  BY <2>1, <2>4, <2>5, <2>6, QuietStep
<1>4. CASE ~(InGame(c) /\ c \notin spec)
  <2>1. ballot' = EndIn(ballot, b) /\ UNCHANGED <<room, spec, config>>
    BY <1>4 DEF TickSpectate
  <2>. QED  BY <1>2, <2>1, EndStep
<1>. QED  BY <1>3, <1>4

\* A count and the clock decide a ballot; they leave it open and its victim alone.
LEMMA CountedFacts ==
    ASSUME BallotsTyped, NEW b \in Ballots
    PROVE  /\ Counted(b) \in Ballot
           /\ Counted(b).open = ballot[b].open /\ Counted(b).victim = ballot[b].victim
           /\ Counted(b).type = ballot[b].type /\ Counted(b).expired = ballot[b].expired
           /\ Counted(b).held = ballot[b].held /\ Counted(b).update = ballot[b].update
           /\ Counted(b).enforce = "yes" =>
                 \/ ballot[b].enforce = "yes"
                 \/ ballot[b].update /\ Enough(Yes(b), Total(b))
<1> DEFINE v == ballot[b]
           e == IF Enough(Yes(b), Total(b)) THEN "yes"
                ELSE IF TooMany(No(b), Total(b)) THEN "no"
                ELSE v.enforce
           w == ~config.majority /\ Enough(Yes(b), Yes(b) + No(b))
<1>1. v \in Ballot  BY DEF BallotsTyped
<1>2. Counted(b) = IF ~v.update THEN v ELSE [v EXCEPT !.enforce = e, !.willPass = w]
  BY DEF Counted
<1>3. e \in Decisions  BY <1>1 DEF Ballot, Decisions
<1>4. w \in BOOLEAN  BY DEF Enough
<1>5. e = "yes" => v.enforce = "yes" \/ Enough(Yes(b), Total(b))  OBVIOUS
<1> HIDE DEF e, w, v
<1>6. CASE ~v.update  BY <1>1, <1>2, <1>6 DEF v
<1>7. CASE v.update
  <2>1. Counted(b) = [v EXCEPT !.enforce = e, !.willPass = w]  BY <1>2, <1>7
  <2>2. /\ Counted(b) \in Ballot /\ Counted(b).enforce = e
        /\ Counted(b).open = v.open /\ Counted(b).victim = v.victim
        /\ Counted(b).type = v.type /\ Counted(b).expired = v.expired
        /\ Counted(b).held = v.held /\ Counted(b).update = v.update
    BY <1>1, <1>3, <1>4, <2>1 DEF Ballot
  <2>. QED  BY <1>5, <1>7, <2>2 DEF v
<1>. QED  BY <1>6, <1>7

LEMMA ResultFacts ==
    ASSUME BallotsTyped, NEW b \in Ballots
    PROVE  /\ Result(b) \in Ballot
           /\ Result(b).open = ballot[b].open /\ Result(b).victim = ballot[b].victim
           /\ Result(b).type = ballot[b].type /\ Result(b).expired = ballot[b].expired
           /\ Result(b).held = ballot[b].held /\ Result(b).update = ballot[b].update
<1> DEFINE v == ballot[b]
           u == Counted(b)
<1>1. Result(b) = IF u.expired /\ ~config.majority
                  THEN [u EXCEPT !.enforce = IF u.willPass THEN "yes" ELSE "no"]
                  ELSE u
  BY DEF Result, Clocked
<1>2. u \in Ballot /\ u.open = v.open /\ u.victim = v.victim /\ u.type = v.type
      /\ u.expired = v.expired /\ u.held = v.held /\ u.update = v.update
  BY CountedFacts
<1> HIDE DEF u
<1>. QED  BY <1>1, <1>2 DEF Ballot, Decisions

LEMMA TickWaitsStep == ASSUME IInv, CastInv, NEW b \in Ballots, TickWaits(b) PROVE IInv'
<1> DEFINE u == Result(b)
           h == u.held \/ (u.update /\ moderators # {} /\ HasVotes(b))
           w == [u EXCEPT !.update = FALSE, !.held = h]
<1>1. BallotsTyped /\ ballot \in [Ballots -> Ballot]  BY DEF IInv, BallotsTyped
<1>2. /\ u \in Ballot /\ u.open = ballot[b].open /\ u.victim = ballot[b].victim
      /\ u.held = ballot[b].held /\ u.update = ballot[b].update /\ u.expired = ballot[b].expired
  BY <1>1, ResultFacts
<1>3. /\ ~Passes(u) /\ ballot' = [ballot EXCEPT ![b] = w]
      /\ UNCHANGED <<room, spec, config>>
  BY DEF TickWaits
<1>4. h \in BOOLEAN  BY <1>2 DEF Ballot
<1>5. u.enforce = "yes" => h \/ ballot[b].enforce = "yes"
  <2> SUFFICES ASSUME u.enforce = "yes" PROVE h \/ ballot[b].enforce = "yes"
    OBVIOUS
  <2>1. moderators # {} /\ ~u.expired  BY <1>3 DEF Passes
  <2>2. u = Counted(b)  BY <1>1, <1>2, <2>1, CountedFacts DEF Result, Clocked
  <2>3. ballot[b].enforce = "yes" \/ (ballot[b].update /\ Enough(Yes(b), Total(b)))
    BY <1>1, <2>2, CountedFacts
  <2>4. Enough(Yes(b), Total(b)) => HasVotes(b)
    BY CountedHasVotes DEF TickWaits
  <2>. QED  BY <1>2, <2>1, <2>3, <2>4
<1> HIDE DEF u, h
<1>6. Calmer(ballot[b], w)
  <2>1. /\ w \in Ballot /\ w.open = u.open /\ w.victim = u.victim
        /\ w.enforce = u.enforce /\ w.held = h
    BY <1>2, <1>4 DEF Ballot
  <2>2. ballot[b].held => h  BY <1>2 DEF h
  <2> HIDE DEF w
  <2>3. Sound(ballot[b]) => Sound(w)  BY <1>2, <1>5, <2>1, <2>2 DEF Sound
  <2>. QED  BY <1>2, <2>1, <2>3 DEF Calmer
<1> HIDE DEF w
<1>7. /\ ballot' \in [Ballots -> Ballot]
      /\ \A d \in Ballots : Calmer(ballot[d], ballot'[d])
  BY <1>1, <1>3, <1>6, OneCalmer
<1>8. spec' \subseteq Clients  BY <1>3, SpecIsTyped
<1>. QED  BY <1>3, <1>7, <1>8, QuietStep

LEMMA NextStep == IInv /\ CastInv /\ [Next]_vars => IInv'
<1> SUFFICES ASSUME IInv, CastInv, [Next]_vars PROVE IInv'
  OBVIOUS
<1>1. ASSUME NEW c \in Clients, NEW v \in Clients, CallKick(c, v) \/ CallSpectate(c, v)
      PROVE  IInv'
  BY <1>1, CallsStep
<1>2. ASSUME NEW c \in Clients,
             \/ CallOption(c) \/ CallSetting(c) \/ CallServerVote(c)
             \/ Enter(c) \/ Disconnect(c) \/ ChangeTeam(c) \/ Moderate(c)
             \/ \E r \in Rooms : Move(c, r)
             \/ \E choice \in {-1, 1} : Vote(c, choice)
             \/ \E yes \in BOOLEAN : ForceVote(c, yes)
      PROVE  IInv'
  BY <1>2, CallsStep, CallServerStep, EnterStep, DisconnectStep, ChangeTeamStep, ModerateStep,
     MoveStep, VoteStep, ForceVoteStep
<1>3. ASSUME NEW b \in Ballots, Tick(b) \/ TimeUp(b) PROVE IInv'
  <2>1. CASE TimeUp(b)  BY <2>1, TimeUpStep
  <2>2. CASE TickSet(b)
    <3>1. ballot' = EndIn(ballot, b) /\ UNCHANGED <<room, spec, config>>
      BY <2>2 DEF TickSet
    <3>. QED  BY <3>1, SpecIsTyped, EndStep
  <2>3. CASE b = Lobby /\ TickKick  BY <2>3, TickKickStep
  <2>4. CASE TickRoomKick(b)  BY <2>4, TickRoomKickStep
  <2>5. CASE TickSpectate(b)  BY <2>5, TickSpectateStep
  <2>6. CASE TickFails(b)
    <3>1. ballot' = EndIn(ballot, b) /\ UNCHANGED <<room, spec, config>>
      BY <2>6 DEF TickFails
    <3>. QED  BY <3>1, SpecIsTyped, EndStep
  <2>7. CASE TickWaits(b)  BY <2>7, TickWaitsStep
  <2>. QED  BY <1>3, <2>1, <2>2, <2>3, <2>4, <2>5, <2>6, <2>7 DEF Tick
<1>4. CASE UNCHANGED vars
  BY <1>4 DEF vars, IInv, BallotsTyped, OneBallotToAClient, VictimIsThere, YesIsHeld
<1>. QED  BY <1>1, <1>2, <1>3, <1>4 DEF Next

-----------------------------------------------------------------------------
(* What clients have voted.                                                *)

LEMMA CastInitStep == Init => CastInv
<1> SUFFICES ASSUME Init PROVE CastInv
  OBVIOUS
<1>1. \A c \in Clients : cast[c] = NoVote  BY DEF Init
<1>2. NoVote \in Votes /\ NoVote.vote = 0 /\ NoVote.pos = 0 /\ NoVote.since = {}
  BY VotesAssumption DEF NoVote, Votes
<1>3. cast \in [Clients -> Votes] /\ votePos = 0 /\ 0 \in 0 .. MaxVotes
  BY <1>2, VotesAssumption DEF Init
<1>4. Numbered(cast, votePos)  BY <1>1, <1>2, <1>3 DEF Numbered
<1>5. \A c \in Clients : ~InGame(c) => cast[c].pos = 0  BY <1>1, <1>2
<1>6. \A b \in Ballots : ballot[b].open => InOrder(cast, Members(b))
  BY <1>1, <1>2 DEF InOrder, Members
<1>. QED  BY <1>3, <1>4, <1>5, <1>6 DEF CastInv

\* D is what is left of the votes C: some are reset, the others stay, and nobody follows
\* a vote that is reset.
Faded(C, D) ==
    /\ D \in [Clients -> Votes]
    /\ \A c \in Clients :
        \/ D[c] = NoVote
        \/ D[c].vote = C[c].vote /\ D[c].pos = C[c].pos /\ D[c].since \subseteq C[c].since
    /\ \A c \in Clients : \A d \in D[c].since : D[d].pos = C[d].pos

LEMMA NoVoteFacts ==
    NoVote \in Votes /\ NoVote.vote = 0 /\ NoVote.pos = 0 /\ NoVote.since = {}
  BY VotesAssumption DEF NoVote, Votes

LEMMA SameIsFaded == ASSUME NEW C \in [Clients -> Votes] PROVE Faded(C, C)
  BY DEF Faded

LEMMA WithoutIsFaded ==
    ASSUME cast \in [Clients -> Votes], NEW S
    PROVE  Faded(cast, Without(S)) /\ \A c \in Clients \cap S : Without(S)[c] = NoVote
<1> DEFINE D == Without(S)
           kept(c) == [cast[c] EXCEPT !.since = @ \ S]
<1>1. \A c \in Clients : D[c] = IF c \in S THEN NoVote ELSE kept(c)  BY DEF Without
<1>2. ASSUME NEW c \in Clients
      PROVE  /\ kept(c) \in Votes /\ kept(c).vote = cast[c].vote /\ kept(c).pos = cast[c].pos
             /\ kept(c).since = cast[c].since \ S
             /\ cast[c].since \subseteq Clients
  BY DEF Votes
<1>3. D = [c \in Clients |-> D[c]]  BY DEF Without
<1> HIDE DEF D, kept
<1>4. \A c \in Clients : D[c] \in Votes  BY <1>1, <1>2, NoVoteFacts
<1>5. D \in [Clients -> Votes]  BY <1>3, <1>4
<1>6. \A c \in Clients : \/ D[c] = NoVote
                         \/ /\ D[c].vote = cast[c].vote /\ D[c].pos = cast[c].pos
                            /\ D[c].since \subseteq cast[c].since
  BY <1>1, <1>2
<1>7. ASSUME NEW c \in Clients, NEW d \in D[c].since PROVE D[d].pos = cast[d].pos
  <2>1. D[c] # NoVote  BY <1>7, NoVoteFacts
  <2>2. d \in Clients /\ d \notin S  BY <1>1, <1>2, <1>7, <2>1
  <2>. QED  BY <1>1, <1>2, <2>2
<1>8. \A c \in Clients \cap S : D[c] = NoVote  BY <1>1
<1>. QED  BY <1>5, <1>6, <1>7, <1>8 DEF Faded, D

LEMMA FadedIsNumbered ==
    ASSUME NEW C \in [Clients -> Votes], NEW n \in Nat, Numbered(C, n), NEW D, Faded(C, D)
    PROVE  Numbered(D, n)
<1> SUFFICES ASSUME NEW c \in Clients
             PROVE  /\ D[c].vote = 0 <=> D[c].pos = 0
                    /\ D[c].vote = 0 => D[c].since = {}
                    /\ D[c].pos <= n \/ D[c].pos = 1
                    /\ \A d \in D[c].since : d # c /\ D[d].pos # 0
  BY DEF Numbered
<1>1. /\ C[c].vote = 0 <=> C[c].pos = 0
      /\ C[c].vote = 0 => C[c].since = {}
      /\ C[c].pos <= n \/ C[c].pos = 1
      /\ \A d \in C[c].since : d # c /\ C[d].pos # 0
  BY DEF Numbered
<1>2. CASE D[c] = NoVote  BY <1>2, NoVoteFacts
<1>3. CASE D[c].vote = C[c].vote /\ D[c].pos = C[c].pos /\ D[c].since \subseteq C[c].since
  BY <1>1, <1>3 DEF Faded
<1>. QED  BY <1>2, <1>3 DEF Faded

\* Votes of members that were members before stay in order.
LEMMA FadedIsInOrder ==
    ASSUME NEW C \in [Clients -> Votes], NEW n \in Nat, Numbered(C, n), NEW D, Faded(C, D),
           NEW M, InOrder(C, M), NEW N \in SUBSET Clients,
           \A c \in N : c \in M \/ D[c] = NoVote
    PROVE  InOrder(D, N)
<1> SUFFICES ASSUME NEW c \in N, NEW d \in N, d \in D[c].since
             PROVE  \/ D[c].pos < D[d].pos
                    \/ D[c].pos = 1 /\ D[d].pos = 1
  BY DEF InOrder
<1>1. D[c] # NoVote  BY NoVoteFacts
<1>2. D[c].pos = C[c].pos /\ d \in C[c].since  BY <1>1 DEF Faded
<1>3. D[d].pos = C[d].pos /\ C[d].pos # 0  BY <1>2 DEF Faded, Numbered
<1>4. D[d] # NoVote  BY <1>3, NoVoteFacts
<1>5. c \in M /\ d \in M  BY <1>1, <1>4
<1>. QED  BY <1>2, <1>3, <1>5 DEF InOrder

\* c votes after the votes up to n.
LEMMA WithVoteFacts ==
    ASSUME NEW C \in [Clients -> Votes], NEW n \in Nat, Numbered(C, n),
           NEW c \in Clients, NEW choice \in {-1, 1}, NEW p \in 1 .. MaxVotes,
           NEW m \in Nat, n <= m, p <= m \/ p = 1
    PROVE  LET D == WithVote(C, c, choice, p)
           IN  /\ D \in [Clients -> Votes]
               /\ D[c].pos = p /\ \A d \in Clients \ {c} : D[d].pos = C[d].pos
               /\ Numbered(D, m)
               /\ \A M \in SUBSET Clients :
                     /\ InOrder(C, M)
                     /\ c \in M => \A d \in M \ {c} : C[d].pos < p \/ (C[d].pos = 1 /\ p = 1)
                     => InOrder(D, M)
<1> DEFINE new == [vote |-> choice, pos |-> p, since |-> {}]
           after(d) == [C[d] EXCEPT !.since = @ \cup {c}]
           D == WithVote(C, c, choice, p)
<1>1. /\ D = [d \in Clients |-> D[d]]
      /\ \A d \in Clients : \/ d = c /\ D[d] = new
                            \/ d # c /\ D[d] = C[d]
                            \/ d # c /\ C[d].vote # 0 /\ D[d] = after(d)
  BY DEF WithVote
<1>2. new \in Votes /\ new.vote # 0 /\ new.vote = choice /\ new.pos = p /\ new.since = {}
  BY VotesAssumption DEF Votes
<1>3. ASSUME NEW d \in Clients
      PROVE  /\ after(d) \in Votes /\ after(d).vote = C[d].vote /\ after(d).pos = C[d].pos
             /\ after(d).since = C[d].since \cup {c}
             /\ C[d].since \subseteq Clients /\ C[d].pos \in Nat
  BY VotesAssumption DEF Votes
<1>n. n \in Nat /\ m \in Nat /\ n <= m /\ p \in Nat /\ p # 0  BY VotesAssumption
<1> HIDE DEF D, new, after
<1>4. \A d \in Clients : D[d] \in Votes  BY <1>1, <1>2, <1>3
<1>5. D \in [Clients -> Votes]  BY <1>1, <1>4
<1>6. D[c] = new  BY <1>1
<1>7. \A d \in Clients \ {c} :
         /\ D[d].vote = C[d].vote /\ D[d].pos = C[d].pos
         /\ \/ D[d].since = C[d].since
            \/ C[d].vote # 0 /\ D[d].since = C[d].since \cup {c}
  BY <1>1, <1>3
<1>8. \A d \in Clients : C[d].pos # 0 => D[d].pos # 0  BY <1>2, <1>6, <1>7, <1>n
<1>9. Numbered(D, m)
  <2> SUFFICES ASSUME NEW d \in Clients
               PROVE  /\ D[d].vote = 0 <=> D[d].pos = 0
                      /\ D[d].vote = 0 => D[d].since = {}
                      /\ D[d].pos <= m \/ D[d].pos = 1
                      /\ \A e \in D[d].since : e # d /\ D[e].pos # 0
    BY DEF Numbered
  <2>1. CASE d = c  BY <1>2, <1>6, <1>n, <2>1
  <2>2. CASE d # c
    <3>1. /\ C[d].vote = 0 <=> C[d].pos = 0
          /\ C[d].vote = 0 => C[d].since = {}
          /\ C[d].pos <= n \/ C[d].pos = 1
          /\ \A e \in C[d].since : e # d /\ C[e].pos # 0
      BY DEF Numbered
    <3>2. C[d].pos \in Nat /\ C[d].since \subseteq Clients  BY <1>3
    <3>3. C[d].pos <= m \/ C[d].pos = 1  BY <1>n, <3>1, <3>2
    <3>4. ASSUME NEW e \in D[d].since PROVE e # d /\ D[e].pos # 0
      <4>1. e = c \/ e \in C[d].since  BY <1>7, <2>2
      <4>2. CASE e = c  BY <1>2, <1>6, <1>n, <2>2, <4>2
      <4>3. CASE e \in C[d].since  BY <1>8, <3>1, <3>2, <4>3
      <4>. QED  BY <4>1, <4>2, <4>3
    <3>. QED  BY <1>7, <2>2, <3>1, <3>3, <3>4
  <2>. QED  BY <2>1, <2>2
<1>10. ASSUME NEW M \in SUBSET Clients, InOrder(C, M),
              c \in M => \A d \in M \ {c} : C[d].pos < p \/ (C[d].pos = 1 /\ p = 1)
       PROVE  InOrder(D, M)
  <2> SUFFICES ASSUME NEW d \in M, NEW e \in M, e \in D[d].since
               PROVE  \/ D[d].pos < D[e].pos
                      \/ D[d].pos = 1 /\ D[e].pos = 1
    BY DEF InOrder
  <2>1. d # c  BY <1>2, <1>6
  <2>2. CASE e = c  BY <1>2, <1>6, <1>7, <1>10, <2>1, <2>2
  <2>3. CASE e # c
    <3>1. e \in C[d].since  BY <1>7, <2>1, <2>3
    <3>. QED  BY <1>7, <1>10, <2>1, <2>3, <3>1 DEF InOrder
  <2>. QED  BY <2>2, <2>3
<1>11. D[c].pos = p /\ \A d \in Clients \ {c} : D[d].pos = C[d].pos  BY <1>2, <1>6, <1>7
<1>. QED  BY <1>5, <1>9, <1>10, <1>11 DEF D

\* Votes are reset, and no ballot is opened.
LEMMA FadeStep ==
    ASSUME BallotsTyped, CastInv, Faded(cast, cast'), votePos' = votePos,
           \A b \in Ballots : ballot'[b].open => ballot[b].open,
           \A c \in Clients : room'[c] = room[c] \/ cast'[c] = NoVote
    PROVE  CastInv'
<1>1. cast \in [Clients -> Votes] /\ votePos \in 0 .. MaxVotes /\ Numbered(cast, votePos)
  BY DEF CastInv
<1>2. votePos \in Nat  BY <1>1, VotesAssumption
<1>3. cast' \in [Clients -> Votes] /\ votePos' \in 0 .. MaxVotes
  BY <1>1 DEF Faded
<1>4. Numbered(cast', votePos')  BY <1>1, <1>2, FadedIsNumbered
<1>5. ASSUME NEW c \in Clients, ~InGame(c)' PROVE cast'[c].pos = 0
  <2>1. CASE cast'[c] = NoVote  BY <2>1, NoVoteFacts
  <2>2. CASE cast'[c] # NoVote
    <3>1. cast'[c].pos = cast[c].pos  BY <2>2 DEF Faded
    <3>2. ~InGame(c)  BY <1>5, <2>2 DEF InGame
    <3>. QED  BY <3>1, <3>2 DEF CastInv
  <2>. QED  BY <2>1, <2>2
<1>6. ASSUME NEW b \in Ballots, ballot'[b].open PROVE InOrder(cast', Members(b)')
  <2>1. InOrder(cast, Members(b))  BY <1>6 DEF CastInv
  <2>2. Members(b)' \in SUBSET Clients  BY DEF Members
  <2>3. \A c \in Members(b)' : c \in Members(b) \/ cast'[c] = NoVote
    BY DEF Members, InGame
  <2>. QED  BY <1>1, <1>2, <2>1, <2>2, <2>3, FadedIsInOrder
<1>7. (\A c \in Clients : ~InGame(c) => cast[c].pos = 0)'  BY <1>5
<1>8. (\A b \in Ballots : ballot[b].open => InOrder(cast, Members(b)))'  BY <1>6 DEF InOrder
<1>. QED  BY <1>3, <1>4, <1>7, <1>8 DEF CastInv, Numbered

\* Nothing happens to the votes.
LEMMA KeepStep ==
    ASSUME BallotsTyped, CastInv, UNCHANGED <<room, cast, votePos>>,
           \A b \in Ballots : ballot'[b].open => ballot[b].open
    PROVE  CastInv'
<1>1. Faded(cast, cast')  BY SameIsFaded DEF CastInv
<1>. QED  BY <1>1, FadeStep

\* A ballot q is called by its member c.
LEMMA CallStep ==
    ASSUME BallotsTyped, CastInv, NEW q \in Ballots, NEW c \in Members(q),
           cast' = VotesReset(q, c), room' = room,
           votePos' = votePos \/ (q = Server /\ votePos' = 1),
           \A b \in Ballots \ {q} :
               ballot'[b].open => ballot[b].open /\ Members(b) \cap Members(q) = {}
    PROVE  CastInv'
<1> DEFINE M == Members(q)
           C == Without(M)
<1>1. c \in Clients /\ M \in SUBSET Clients  BY DEF Members
<1>2. cast \in [Clients -> Votes] /\ votePos \in 0 .. MaxVotes /\ Numbered(cast, votePos)
  BY DEF CastInv
<1>3. votePos \in Nat /\ votePos' \in 0 .. MaxVotes /\ 1 \in 1 .. MaxVotes /\ votePos' \in Nat
  BY <1>2, VotesAssumption
<1>4. Faded(cast, C) /\ \A d \in M : C[d] = NoVote  BY <1>1, <1>2, WithoutIsFaded
<1>5. cast' = WithVote(C, c, 1, 1)  BY DEF VotesReset
<1>6. \A d \in Clients : ~InGame(d) => C[d].pos = 0
  BY <1>4, NoVoteFacts DEF CastInv, Faded
<1>m. M = Members(q)  OBVIOUS
<1> HIDE DEF C, M
<1>7. C \in [Clients -> Votes]  BY <1>4 DEF Faded
<1>8. PICK n \in Nat : Numbered(C, n) /\ n <= votePos'
  <2>1. Numbered(C, votePos)  BY <1>2, <1>3, <1>4, FadedIsNumbered
  <2>2. CASE votePos' = votePos  BY <1>3, <2>1, <2>2
  <2>3. CASE q = Server /\ votePos' = 1
    <3>1. \A d \in Clients : C[d].pos = 0
      BY <1>4, <1>6, <1>m, <2>3, NoVoteFacts DEF Members
    <3>2. Numbered(C, 0)  BY <2>1, <3>1 DEF Numbered
    <3>. QED  BY <2>3, <3>2
  <2>. QED  BY <2>2, <2>3
<1>9. /\ cast' \in [Clients -> Votes]
      /\ \A d \in Clients \ {c} : cast'[d].pos = C[d].pos
      /\ Numbered(cast', votePos')
      /\ \A N \in SUBSET Clients :
            /\ InOrder(C, N)
            /\ c \in N => \A d \in N \ {c} : C[d].pos < 1 \/ (C[d].pos = 1 /\ 1 = 1)
            => InOrder(cast', N)
  BY <1>1, <1>3, <1>5, <1>7, <1>8, WithVoteFacts
<1>10. ASSUME NEW d \in Clients, ~InGame(d) PROVE cast'[d].pos = 0
  <2>1. d # c  BY <1>10 DEF Members
  <2>. QED  BY <1>6, <1>9, <1>10, <2>1
<1>11. ASSUME NEW b \in Ballots, ballot'[b].open PROVE InOrder(cast', Members(b))
  <2>0. Members(b) \in SUBSET Clients  BY DEF Members
  <2>1. CASE b = q
    <3>1. \A d \in Members(b) : C[d].pos = 0 /\ C[d].since = {}
      BY <1>4, <1>m, <2>1, NoVoteFacts
    <3>2. InOrder(C, Members(b))  BY <3>1 DEF InOrder
    <3>3. \A d \in Members(b) \ {c} : C[d].pos < 1  BY <3>1
    <3>. QED  BY <1>9, <2>0, <3>2, <3>3
  <2>2. CASE b # q
    <3>1. ballot[b].open /\ c \notin Members(b)  BY <1>11, <2>2
    <3>2. InOrder(cast, Members(b))  BY <3>1 DEF CastInv
    <3>3. InOrder(C, Members(b))  BY <1>2, <1>3, <1>4, <2>0, <3>2, FadedIsInOrder
    <3>. QED  BY <1>9, <2>0, <3>1, <3>3
  <2>. QED  BY <2>1, <2>2
<1>12. \A b \in Ballots : Members(b)' = Members(b)  BY DEF Members, InGame
<1>13. \A d \in Clients : InGame(d)' = InGame(d)  BY DEF InGame
<1>14. (\A d \in Clients : ~InGame(d) => cast[d].pos = 0)'  BY <1>10, <1>13
<1>15. (\A b \in Ballots : ballot[b].open => InOrder(cast, Members(b)))'
  BY <1>11, <1>12 DEF InOrder
<1>. QED  BY <1>3, <1>9, <1>14, <1>15 DEF CastInv, Numbered

LEMMA RoomVoteCastStep ==
    ASSUME BallotsTyped, CastInv, NEW c \in Clients, NEW type, NEW victim, NEW cmd,
           CallRoomVote(c, type, victim, cmd)
    PROVE  CastInv'
<1> DEFINE r == room[c]
           named == [ballot[r] EXCEPT !.type = type,
                                      !.victim = IF victim # Nobody THEN victim ELSE @]
<1>1. /\ r \in Rooms /\ ~ballot[Server].open /\ room' = room /\ votePos' = votePos
      /\ \/ named.open /\ ballot' = [ballot EXCEPT ![r] = named] /\ cast' = cast
         \/ /\ cast' = VotesReset(r, c)
            /\ ballot' = [ballot EXCEPT ![r] = Started(named, cmd)]
  BY ConfigFacts DEF CallRoomVote
<1>2. r \in Ballots /\ r # Server /\ r # Out /\ ballot \in [Ballots -> Ballot]
  BY <1>1, Places DEF BallotsTyped
<1>3. named.open = ballot[r].open  BY <1>2 DEF Ballot
<1> HIDE DEF named
<1>4. CASE named.open /\ ballot' = [ballot EXCEPT ![r] = named] /\ cast' = cast
  <2>1. \A b \in Ballots : ballot'[b].open => ballot[b].open  BY <1>2, <1>3, <1>4
  <2>. QED  BY <1>1, <1>4, <2>1, KeepStep
<1>5. CASE /\ cast' = VotesReset(r, c)
           /\ ballot' = [ballot EXCEPT ![r] = Started(named, cmd)]
  <2>1. \A b \in Ballots \ {r} : ballot'[b] = ballot[b]  BY <1>2, <1>5
  <2>2. ASSUME NEW b \in Ballots \ {r}, ballot'[b].open
        PROVE  ballot[b].open /\ Members(b) \cap Members(r) = {}
    <3> HIDE DEF r
    <3>1. ballot[b].open /\ b # Server  BY <1>1, <2>1, <2>2
    <3>. QED  BY <1>2, <3>1 DEF Members
  <2>3. c \in Members(r)  BY <1>2 DEF Members, InGame
  <2> HIDE DEF r
  <2>. QED  BY <1>1, <1>2, <1>5, <2>2, <2>3, CallStep
<1>. QED  BY <1>1, <1>4, <1>5

LEMMA ServerVoteCastStep ==
    ASSUME BallotsTyped, CastInv, NEW c \in Clients, CallServerVote(c)
    PROVE  CastInv'
<1>1. /\ InGame(c) /\ room' = room /\ votePos' = 1 /\ cast' = VotesReset(Server, c)
      /\ \A b \in Ballots \ {Server} :
            ballot'[b] = IF ballot[b].open THEN Ended(ballot[b]) ELSE ballot[b]
  BY DEF CallServerVote
<1>2. \A b \in Ballots : ~Ended(ballot[b]).open  BY EndedIsCalmer DEF BallotsTyped
<1>3. \A b \in Ballots \ {Server} : ~ballot'[b].open  BY <1>1, <1>2
<1>4. c \in Members(Server)  BY <1>1 DEF Members
<1>. QED  BY <1>1, <1>3, <1>4, Places, CallStep

LEMMA VoteCastStep ==
    ASSUME BallotsTyped, CastInv, NEW c \in Clients, NEW choice \in {-1, 1}, Vote(c, choice)
    PROVE  CastInv'
<1>1. /\ cast \in [Clients -> Votes] /\ votePos \in 0 .. MaxVotes /\ Numbered(cast, votePos)
      /\ ballot \in [Ballots -> Ballot]
  BY DEF CastInv, BallotsTyped
<1>2. InGame(c) /\ votePos < MaxVotes /\ votePos' = votePos + 1 /\ room' = room
  BY DEF Vote
<1>3. /\ votePos \in Nat /\ votePos <= votePos' /\ votePos' \in Nat
      /\ votePos' \in 0 .. MaxVotes /\ votePos' \in 1 .. MaxVotes
  BY <1>1, <1>2, VotesAssumption
<1>4. \A b \in Ballots : Members(b)' = Members(b)  BY <1>2 DEF Members, InGame
<1>5. \A d \in Clients : InGame(d)' = InGame(d)  BY <1>2 DEF InGame
<1>6. CASE UNCHANGED <<cast, ballot>>
  <2>1. Numbered(cast, votePos')
    <3>1. \A d \in Clients : cast[d].pos \in Nat  BY <1>1, VotesAssumption DEF Votes
    <3>2. ASSUME NEW d \in Clients PROVE cast[d].pos <= votePos' \/ cast[d].pos = 1
      <4>1. cast[d].pos <= votePos \/ cast[d].pos = 1  BY <1>1 DEF Numbered
      <4>. QED  BY <1>3, <3>1, <4>1
    <3>. QED  BY <1>1, <3>2 DEF Numbered
  <2>2. (\A d \in Clients : ~InGame(d) => cast[d].pos = 0)'  BY <1>5, <1>6 DEF CastInv
  <2>3. (\A b \in Ballots : ballot[b].open => InOrder(cast, Members(b)))'
    BY <1>4, <1>6 DEF InOrder, CastInv
  <2>. QED  BY <1>1, <1>3, <1>6, <2>1, <2>2, <2>3 DEF CastInv, Numbered
<1>7. CASE /\ cast' = WithVote(cast, c, choice, votePos')
           /\ ballot' = [ballot EXCEPT ![room[c]] = Touched(@), ![Server] = Touched(@)]
  <2>1. ASSUME NEW d \in Clients
        PROVE  cast[d].pos < votePos' \/ (cast[d].pos = 1 /\ votePos' = 1)
    <3>1. cast[d].pos \in Nat  BY <1>1, VotesAssumption DEF Votes
    <3>2. cast[d].pos <= votePos \/ cast[d].pos = 1  BY <1>1 DEF Numbered
    <3>. QED  BY <1>2, <1>3, <3>1, <3>2
  <2>2. /\ cast' \in [Clients -> Votes]
        /\ \A d \in Clients \ {c} : cast'[d].pos = cast[d].pos
        /\ Numbered(cast', votePos')
        /\ \A M \in SUBSET Clients :
              /\ InOrder(cast, M)
              /\ c \in M => \A d \in M \ {c} :
                    cast[d].pos < votePos' \/ (cast[d].pos = 1 /\ votePos' = 1)
              => InOrder(cast', M)
    <3>1. votePos' <= votePos' \/ votePos' = 1  BY <1>3
    <3>. QED  BY <1>1, <1>3, <1>7, <3>1, WithVoteFacts
  <2>3. \A d \in Clients : ~InGame(d) => cast'[d].pos = 0  BY <1>2, <2>2 DEF CastInv
  <2>4. ASSUME NEW b \in Ballots, ballot'[b].open PROVE InOrder(cast', Members(b))
    <3>1. ballot[b].open
      BY <1>1, <1>7, <2>4 DEF Touched, Ballot
    <3>2. InOrder(cast, Members(b)) /\ Members(b) \in SUBSET Clients
      BY <3>1 DEF CastInv, Members
    <3>. QED  BY <2>1, <2>2, <3>2
  <2>5. (\A d \in Clients : ~InGame(d) => cast[d].pos = 0)'  BY <1>5, <2>3
  <2>6. (\A b \in Ballots : ballot[b].open => InOrder(cast, Members(b)))'
    BY <1>4, <2>4 DEF InOrder
  <2>. QED  BY <1>3, <2>2, <2>5, <2>6 DEF CastInv, Numbered
<1>. QED  BY <1>6, <1>7 DEF Vote

\* Votes are reset, those of everybody who goes elsewhere too, and ballots get calmer.
LEMMA ResetStep ==
    ASSUME BallotsTyped, CastInv, NEW S, cast' = Without(S), votePos' = votePos,
           \A b \in Ballots : Calmer(ballot[b], ballot'[b]),
           \A c \in Clients \ S : room'[c] = room[c]
    PROVE  CastInv'
<1>1. Faded(cast, cast') /\ \A c \in Clients \cap S : cast'[c] = NoVote
  BY WithoutIsFaded DEF CastInv
<1>2. \A c \in Clients : room'[c] = room[c] \/ cast'[c] = NoVote  BY <1>1
<1>3. \A b \in Ballots : ballot'[b].open => ballot[b].open  BY DEF Calmer
<1>. QED  BY <1>1, <1>2, <1>3, FadeStep

LEMMA KeptStep ==
    ASSUME BallotsTyped, CastInv, UNCHANGED <<room, cast, votePos>>,
           \A b \in Ballots : Calmer(ballot[b], ballot'[b])
    PROVE  CastInv'
<1>1. \A b \in Ballots : ballot'[b].open => ballot[b].open  BY DEF Calmer
<1>. QED  BY <1>1, KeepStep

\* What a departure and the end of a ballot with it leave of the ballots.
LEMMA DepartureIsCalm ==
    ASSUME BallotsTyped, NEW c \in Clients, room[c] \in Rooms, NEW q \in Rooms, NEW b \in Ballots
    PROVE  /\ \A d \in Ballots : /\ Calmer(ballot[d], AfterMove(ballot, c, q)[d])
                                 /\ Calmer(ballot[d], AfterDrop(ballot, c)[d])
           /\ \A d \in Ballots : /\ Calmer(ballot[d], EndIn(AfterMove(ballot, c, q), b)[d])
                                 /\ Calmer(ballot[d], EndIn(AfterDrop(ballot, c), b)[d])
<1> DEFINE M == AfterMove(ballot, c, q)
           D == AfterDrop(ballot, c)
<1>1. /\ M \in [Ballots -> Ballot]
      /\ \A d \in Ballots : Calmer(Left(ballot, c, FALSE)[d], M[d])
  BY AfterMoveFacts
<1>2. /\ D \in [Ballots -> Ballot]
      /\ \A d \in Ballots : Calmer(Left(ballot, c, TRUE)[d], D[d])
  BY AfterDropFacts
<1>3. \A d \in Ballots : /\ Calmer(ballot[d], Left(ballot, c, FALSE)[d])
                         /\ Calmer(ballot[d], Left(ballot, c, TRUE)[d])
  BY LeftFacts
<1> HIDE DEF M, D
<1>4. \A d \in Ballots : Calmer(ballot[d], M[d]) /\ Calmer(ballot[d], D[d])
  BY <1>1, <1>2, <1>3, CalmerTwice
<1>5. \A d \in Ballots : Calmer(M[d], EndIn(M, b)[d]) /\ Calmer(D[d], EndIn(D, b)[d])
  BY <1>1, <1>2, EndedIn
<1>6. \A d \in Ballots : Calmer(ballot[d], EndIn(M, b)[d]) /\ Calmer(ballot[d], EndIn(D, b)[d])
  BY <1>4, <1>5, CalmerTwice
<1>. QED  BY <1>4, <1>6 DEF M, D

LEMMA GoingCastStep ==
    ASSUME BallotsTyped, CastInv, NEW c \in Clients,
           \/ Disconnect(c)
           \/ \E q \in Rooms : Move(c, q)
    PROVE  CastInv'
<1>1. InGame(c)  BY DEF Disconnect, Move
<1>2. room[c] \in Rooms  BY <1>1, InRooms
<1>3. CASE Disconnect(c)
  <2>1. /\ cast' = Without({c}) /\ votePos' = votePos /\ room' = [room EXCEPT ![c] = Out]
        /\ ballot' = AfterDrop(ballot, c)
    BY <1>3 DEF Disconnect, Drop
  <2>2. \A d \in Ballots : Calmer(ballot[d], ballot'[d])
    BY <1>2, <2>1, Places, DepartureIsCalm
  <2>3. \A d \in Clients \ {c} : room'[d] = room[d]  BY <2>1 DEF BallotsTyped
  <2>. QED  BY <2>1, <2>2, <2>3, ResetStep
<1>4. ASSUME NEW q \in Rooms, Move(c, q) PROVE CastInv'
  <2>1. /\ cast' = Without({c}) /\ votePos' = votePos /\ room' = [room EXCEPT ![c] = q]
        /\ ballot' = AfterMove(ballot, c, q)
    BY <1>4 DEF Move, GoTo
  <2>2. \A d \in Ballots : Calmer(ballot[d], ballot'[d])
    BY <1>2, <2>1, Places, DepartureIsCalm
  <2>3. \A d \in Clients \ {c} : room'[d] = room[d]  BY <2>1 DEF BallotsTyped
  <2>. QED  BY <2>1, <2>2, <2>3, ResetStep
<1>. QED  BY <1>3, <1>4

\* Who comes has no vote and follows none.
LEMMA EnterCastStep ==
    ASSUME BallotsTyped, CastInv, NEW c \in Clients, Enter(c)
    PROVE  CastInv'
<1>1. /\ ~InGame(c) /\ room' = [room EXCEPT ![c] = Lobby] /\ UNCHANGED <<cast, votePos>>
      /\ ballot' = [ballot EXCEPT ![Lobby] = Touched(@), ![Server] = Touched(@)]
  BY DEF Enter
<1>2. \A b \in Ballots : Calmer(ballot[b], ballot'[b])  BY <1>1, Places, TwoTouched
<1>3. \A b \in Ballots : ballot'[b].open => ballot[b].open  BY <1>2 DEF Calmer
<1>4. cast[c] \in Votes /\ cast[c].vote = 0 /\ cast[c].pos = 0 /\ cast[c].since = {}
  BY <1>1 DEF CastInv, Numbered
<1>5. cast'[c] = NoVote  BY <1>1, <1>4 DEF Votes, NoVote
<1>6. \A d \in Clients : room'[d] = room[d] \/ cast'[d] = NoVote
  BY <1>1, <1>5 DEF BallotsTyped
<1>7. Faded(cast, cast')  BY <1>1, SameIsFaded DEF CastInv
<1>. QED  BY <1>1, <1>3, <1>6, <1>7, FadeStep

LEMMA StayingCastStep ==
    ASSUME BallotsTyped, CastInv, NEW c \in Clients,
           \/ ChangeTeam(c) \/ Moderate(c)
           \/ \E yes \in BOOLEAN : ForceVote(c, yes)
    PROVE  CastInv'
<1>1. ballot \in [Ballots -> Ballot]  BY DEF BallotsTyped
<1>2. UNCHANGED <<room, cast, votePos>>  BY DEF ChangeTeam, Moderate, ForceVote
<1>3. CASE Moderate(c)
  <2>1. \A b \in Ballots : Calmer(ballot[b], ballot'[b])
    BY <1>1, <1>3, SameIsCalmer DEF Moderate
  <2>. QED  BY <1>2, <2>1, KeptStep
<1>4. CASE ChangeTeam(c)
  <2>1. \A b \in Ballots : ballot'[b].open => ballot[b].open
    BY <1>1, <1>4 DEF ChangeTeam, Touched, Ballot
  <2>. QED  BY <1>2, <2>1, KeepStep
<1>5. ASSUME NEW yes \in BOOLEAN, ForceVote(c, yes) PROVE CastInv'
  <2>1. \A b \in Ballots : ballot'[b].open => ballot[b].open
    BY <1>1, <1>5 DEF ForceVote, Forced, Ballot
  <2>. QED  BY <1>2, <2>1, KeepStep
<1>. QED  BY <1>3, <1>4, <1>5

LEMMA TickCastStep ==
    ASSUME IInv, CastInv, NEW b \in Ballots, Tick(b) \/ TimeUp(b)
    PROVE  CastInv'
<1>1. BallotsTyped /\ ballot \in [Ballots -> Ballot]  BY DEF IInv, BallotsTyped
<1>2. \A d \in Ballots : Calmer(ballot[d], EndIn(ballot, b)[d])  BY <1>1, EndedIn
<1>3. CASE TickSet(b) \/ TickFails(b)
  <2>1. /\ cast' = Without(Members(b)) /\ votePos' = votePos /\ room' = room
        /\ ballot' = EndIn(ballot, b)
    BY <1>3 DEF TickSet, TickFails
  <2>. QED  BY <1>1, <1>2, <2>1, ResetStep
<1>4. CASE b = Lobby /\ TickKick
  <2> DEFINE c == Target(Lobby)
  <2>1. c \in Clients  BY TargetIsClient, Places, <1>4 DEF TickKick
  <2>2. CASE InGame(c)
    <3>1. /\ cast' = Without({c}) /\ votePos' = votePos /\ room' = [room EXCEPT ![c] = Out]
          /\ ballot' = EndIn(AfterDrop(ballot, c), b)
      BY <1>4, <2>2 DEF TickKick, Drop
    <3> HIDE DEF c
    <3>2. \A d \in Ballots : Calmer(ballot[d], ballot'[d])
      BY <1>1, <2>1, <2>2, <3>1, InRooms, Places, DepartureIsCalm
    <3>3. \A d \in Clients \ {c} : room'[d] = room[d]  BY <1>1, <3>1 DEF BallotsTyped
    <3>. QED  BY <1>1, <3>1, <3>2, <3>3, ResetStep
  <2>3. CASE ~InGame(c)
    <3>1. ballot' = EndIn(ballot, b) /\ UNCHANGED <<room, cast, votePos>>
      BY <1>4, <2>3 DEF TickKick
    <3>. QED  BY <1>1, <1>2, <3>1, KeptStep
  <2>. QED  BY <2>2, <2>3
<1>5. CASE TickRoomKick(b)
  <2> DEFINE c == Target(b)
  <2>1. c \in Clients  BY TargetIsClient, <1>5 DEF TickRoomKick
  <2>2. CASE InGame(c) /\ room[c] # Lobby
    <3>1. /\ cast' = Without({c}) /\ votePos' = votePos /\ room' = [room EXCEPT ![c] = Lobby]
          /\ ballot' = EndIn(AfterMove(ballot, c, Lobby), b)
      BY <1>5, <2>2 DEF TickRoomKick, GoTo
    <3> HIDE DEF c
    <3>2. \A d \in Ballots : Calmer(ballot[d], ballot'[d])
      BY <1>1, <2>1, <2>2, <3>1, InRooms, Places, DepartureIsCalm
    <3>3. \A d \in Clients \ {c} : room'[d] = room[d]  BY <1>1, <3>1 DEF BallotsTyped
    <3>. QED  BY <1>1, <3>1, <3>2, <3>3, ResetStep
  <2>3. CASE ~(InGame(c) /\ room[c] # Lobby)
    <3>1. ballot' = EndIn(ballot, b) /\ UNCHANGED <<room, cast, votePos>>
      BY <1>5, <2>3 DEF TickRoomKick
    <3>. QED  BY <1>1, <1>2, <3>1, KeptStep
  <2>. QED  BY <2>2, <2>3
<1>6. CASE TickSpectate(b)
  <2> DEFINE c == Target(b)
             B == [ballot EXCEPT ![room[c]] = Touched(@)]
  <2>1. c \in Clients  BY TargetIsClient, <1>6 DEF TickSpectate
  <2>2. UNCHANGED <<room, cast, votePos>>  BY <1>6 DEF TickSpectate
  <2>3. CASE InGame(c) /\ c \notin spec
    <3>1. ballot' = EndIn(B, b)  BY <1>6, <2>3 DEF TickSpectate
    <3>2. room[c] \in Ballots  BY <1>1, <2>1, <2>3, InRooms, Places
    <3>3. B \in [Ballots -> Ballot] /\ \A d \in Ballots : Calmer(ballot[d], B[d])
      BY <1>1, <3>2, TouchedIn
    <3> HIDE DEF B
    <3>4. \A d \in Ballots : Calmer(B[d], ballot'[d])  BY <3>1, <3>3, EndedIn
    <3>5. \A d \in Ballots : Calmer(ballot[d], ballot'[d])  BY <3>3, <3>4, CalmerTwice
    <3>. QED  BY <1>1, <2>2, <3>5, KeptStep
  <2>4. CASE ~(InGame(c) /\ c \notin spec)
    <3>1. ballot' = EndIn(ballot, b)  BY <1>6, <2>4 DEF TickSpectate
    <3>. QED  BY <1>1, <1>2, <2>2, <3>1, KeptStep
  <2>. QED  BY <2>3, <2>4
<1>7. CASE TickWaits(b) \/ TimeUp(b)
  <2>1. UNCHANGED <<room, cast, votePos>>  BY <1>7 DEF TickWaits, TimeUp
  <2>2. ballot[b].open  BY <1>7 DEF TickWaits, TimeUp
  <2>3. \A d \in Ballots \ {b} : ballot'[d] = ballot[d]
    BY <1>1, <1>7 DEF TickWaits, TimeUp
  <2>. QED  BY <1>1, <2>1, <2>2, <2>3, KeepStep
<1>. QED  BY <1>3, <1>4, <1>5, <1>6, <1>7 DEF Tick

LEMMA CastStep == IInv /\ CastInv /\ [Next]_vars => CastInv'
<1> SUFFICES ASSUME IInv, CastInv, [Next]_vars PROVE CastInv'
  OBVIOUS
<1>0. BallotsTyped  BY DEF IInv
<1>1. ASSUME NEW c \in Clients, NEW v \in Clients, CallKick(c, v) \/ CallSpectate(c, v)
      PROVE  CastInv'
  BY <1>0, <1>1, RoomVoteCastStep DEF CallKick, CallSpectate
<1>2. ASSUME NEW c \in Clients, CallOption(c) \/ CallSetting(c) PROVE CastInv'
  BY <1>0, <1>2, RoomVoteCastStep DEF CallOption, CallSetting
<1>3. ASSUME NEW c \in Clients,
             \/ CallServerVote(c) \/ Enter(c) \/ Disconnect(c) \/ ChangeTeam(c) \/ Moderate(c)
             \/ \E r \in Rooms : Move(c, r)
             \/ \E choice \in {-1, 1} : Vote(c, choice)
             \/ \E yes \in BOOLEAN : ForceVote(c, yes)
      PROVE  CastInv'
  BY <1>0, <1>3, ServerVoteCastStep, EnterCastStep, GoingCastStep, StayingCastStep, VoteCastStep
<1>4. ASSUME NEW b \in Ballots, Tick(b) \/ TimeUp(b) PROVE CastInv'  BY <1>4, TickCastStep
<1>5. CASE UNCHANGED vars
  <2>1. \A b \in Ballots : ballot'[b].open => ballot[b].open  BY <1>5 DEF vars
  <2>. QED  BY <1>0, <1>5, <2>1, KeepStep DEF vars
<1>. QED  BY <1>1, <1>2, <1>3, <1>4, <1>5 DEF Next

\* No step makes a moderator of anybody but a client.
LEMMA ModeratorsStep == moderators \subseteq Clients /\ Next => moderators' \subseteq Clients
<1> SUFFICES ASSUME moderators \subseteq Clients, Next PROVE moderators' \subseteq Clients
  OBVIOUS
<1>1. ASSUME NEW c \in Clients, NEW v \in Clients, CallKick(c, v) \/ CallSpectate(c, v)
      PROVE  moderators' = moderators
  BY <1>1 DEF CallKick, CallSpectate, CallRoomVote
<1>2. ASSUME NEW c \in Clients,
             \/ CallOption(c) \/ CallSetting(c) \/ CallServerVote(c) \/ Enter(c)
             \/ ChangeTeam(c)
             \/ \E r \in Rooms : Move(c, r)
             \/ \E choice \in {-1, 1} : Vote(c, choice)
             \/ \E yes \in BOOLEAN : ForceVote(c, yes)
      PROVE  moderators' = moderators
  BY <1>2 DEF CallOption, CallSetting, CallRoomVote, CallServerVote, Enter, ChangeTeam, Move,
     GoTo, Vote, ForceVote
<1>3. ASSUME NEW c \in Clients, Disconnect(c) \/ Moderate(c)
      PROVE  moderators' \subseteq moderators \cup {c}
  BY <1>3 DEF Disconnect, Drop, Moderate, Toggled
<1>4. ASSUME NEW b \in Ballots, Tick(b) \/ TimeUp(b) PROVE moderators' \subseteq moderators
  <2>1. CASE TickKick  BY <2>1 DEF TickKick, Drop
  <2>2. CASE TickRoomKick(b)  BY <2>2 DEF TickRoomKick, GoTo
  <2>3. CASE TickSet(b) \/ TickFails(b) \/ TickSpectate(b) \/ TickWaits(b) \/ TimeUp(b)
    BY <2>3 DEF TickSet, TickFails, TickSpectate, TickWaits, TimeUp
  <2>. QED  BY <1>4, <2>1, <2>2, <2>3 DEF Tick
<1>. QED  BY <1>1, <1>2, <1>3, <1>4 DEF Next

-----------------------------------------------------------------------------
(* The theorems.                                                           *)

\* The inductive invariant holds in every state.
THEOREM VotesInvariant == Spec => [](IInv /\ CastInv)
<1>1. Init => IInv /\ CastInv  BY InitStep, CastInitStep
<1>2. IInv /\ CastInv /\ [Next]_vars => IInv' /\ CastInv'  BY NextStep, CastStep
<1>. QED  BY <1>1, <1>2, PTL DEF Spec

\* Rooms, spectators, moderators, ballots and the votes given keep their types, whatever a
\* ballot's command does in the tick that ends it.
THEOREM VotesTypeCorrect == Spec => []TypeOK
<1> DEFINE M == moderators \subseteq Clients
<1>1. Init => M  BY DEF Init
<1>2. M /\ [Next]_vars => M'
  <2> SUFFICES ASSUME M, [Next]_vars PROVE M'
    OBVIOUS
  <2>1. CASE Next  BY <2>1, ModeratorsStep
  <2>2. CASE UNCHANGED vars  BY <2>2 DEF vars
  <2>. QED  BY <2>1, <2>2
<1>3. Spec => []M
  <2> HIDE DEF M
  <2>. QED  BY <1>1, <1>2, PTL DEF Spec
<1>4. IInv /\ CastInv /\ M => TypeOK
  BY DEF IInv, BallotsTyped, CastInv, TypeOK
<1> HIDE DEF M
<1>. QED  BY <1>3, <1>4, VotesInvariant, PTL

\* A vote of the server and votes of rooms are never open together: calling one of the
\* server ends those of the rooms, and no room starts one meanwhile (CallVote).
THEOREM OneBallot == Spec => []OneBallotToAClient
<1>1. IInv => OneBallotToAClient  BY DEF IInv
<1>. QED  BY <1>1, VotesInvariant, PTL

\* The victim of a vote of a room is in that room while the vote is open, and no closed
\* vote keeps one: whoever leaves, by whatever command, ends the vote about it
\* (OnInternalPlayerLeave, EndVote).
THEOREM VictimStays == Spec => []VictimIsThere
<1>1. IInv => VictimIsThere  BY DEF IInv
<1>. QED  BY <1>1, VotesInvariant, PTL

\* A vote whose time is up is decided by the next tick: for every count there is a
\* branch of the tick that ends it.
THEOREM TimeDecides == Spec => []EndsInTime
<1>1. IInv => EndsInTime
  <2> SUFFICES ASSUME IInv, NEW b \in Ballots, ballot[b].open, ballot[b].expired
               PROVE  Passes(Result(b)) \/ Fails(Result(b))
    BY DEF EndsInTime
  <2> DEFINE u == Counted(b)
             v == Result(b)
  <2>1. v.expired
    BY ResultFacts DEF IInv
  <2>2. config.majority \in BOOLEAN  BY ConfigFacts DEF IInv
  <2>3. CASE config.majority
    BY <2>1, <2>3 DEF Fails
  <2>4. CASE ~config.majority
    <3>1. u.expired /\ u \in Ballot
      BY CountedFacts DEF IInv
    <3>2. v = [u EXCEPT !.enforce = IF u.willPass THEN "yes" ELSE "no"]
      BY <2>4, <3>1 DEF Result, Clocked
    <3>3. v.enforce \in {"yes", "no"}
      BY <3>1, <3>2 DEF Ballot
    <3> HIDE DEF u
    <3>. QED  BY <2>1, <3>3 DEF Passes, Fails
  <2>. QED  BY <2>3, <2>4
<1>. QED  BY <1>1, VotesInvariant, PTL

\* The vote that counts for an address is the one it has cast last, whoever of its clients
\* has come, gone or voted ("count the latest vote by this ip"), but where the caller of a
\* room's vote and the first voter after a change of the map have the same position.
THEOREM LatestCounts == Spec => []LatestVoteCounts
<1>1. IInv /\ CastInv => LatestVoteCounts
  <2> SUFFICES ASSUME CastInv, NEW b \in Ballots, ballot[b].open, NEW c \in Voters(b)
               PROVE  LET choice == Choice(b, c) IN
                      IF choice = 0 THEN \A d \in Heard(b, c) : cast[d].vote = 0
                      ELSE LastIs(b, c, choice) \/ Tied(b, c)
    BY DEF LatestVoteCounts
  <2>1. c \in Members(b)  BY VotersOneByOne
  <2>. QED  BY <2>1, ChoiceIsLast
<1>. QED  BY <1>1, VotesInvariant, PTL

\* A vote that no administrator decides passes only by enough addresses of those present,
\* which have voted yes last (or tie), when it is counted: in the tick that passes it, in
\* an earlier one that held it for a moderator, or by the clock (UpdateVote: one vote for
\* an address).
THEOREM PassedByVoters == Spec => []PassedByThoseHere
<1>1. IInv /\ CastInv => PassedByThoseHere
  <2> SUFFICES ASSUME IInv, CastInv, NEW b \in Ballots, ballot[b].open,
                      Result(b).enforce = "yes", ~(ballot[b].expired /\ ~config.majority)
               PROVE  HasVotes(b) \/ ballot[b].held
    BY DEF PassedByThoseHere
  <2>1. ballot[b].enforce = "yes" => ballot[b].held
    BY DEF IInv, YesIsHeld, Sound
  <2>2. Counted(b).expired = ballot[b].expired
    BY CountedFacts DEF IInv
  <2>3. Result(b) = Counted(b)  BY <2>2 DEF Result, Clocked
  <2>4. ballot[b].enforce = "yes" \/ Enough(Yes(b), Total(b))
    BY <2>3, CountedFacts DEF IInv
  <2>5. Enough(Yes(b), Total(b)) => HasVotes(b)  BY CountedHasVotes
  <2>. QED  BY <2>1, <2>4, <2>5
<1>. QED  BY <1>1, VotesInvariant, PTL
=============================================================================
