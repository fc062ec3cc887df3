------------------------------ MODULE HubProofs ------------------------------
(***************************************************************************)
(* The hub's maps, waiting rooms and games agree, for every set of players *)
(* and rooms and every number of seats, whatever is in flight. Three       *)
(* invariants, each inductive with those before it: Shape, of every room;  *)
(* Watched, of every room that is full and ready; Order, of every player   *)
(* whose calls have not met. A step is reduced to its effect on one room   *)
(* (JoinEffect, LeaveEffect, ...); all but one player, or all, then look   *)
(* on (NothingHappened).                                                   *)
(***************************************************************************)
EXTENDS Hub, FiniteSetTheorems, TLAPS

USE SeatCountAssumption, PlayersAssumption, RoomsAssumption

-----------------------------------------------------------------------------
(* Calls in flight.                                                        *)

\* The calls that the hub makes: all but idle ones name a room or a game.
ProperCall ==
  {call \in Call : /\ call.pc = "idle" => call = Idle
                   /\ call.pc \notin {"idle", "away"} => call.room \in Rooms
                   /\ call.pc = "away" => call.game \in Rooms}

Typed == HubTypeOK /\ calls \in [Players -> [Connections -> ProperCall]]

LEMMA CallTypes ==
  /\ Idle \in ProperCall
  /\ \A r \in Rooms, pc \in {"ready", "seat", "check", "start", "out"} : At(pc, r) \in ProperCall
  /\ \A r \in Rooms, match \in Rooms \cup {NoRoom} :
       [pc |-> "out", room |-> r, game |-> match] \in ProperCall
  /\ \A match \in Rooms : [pc |-> "away", room |-> NoRoom, game |-> match] \in ProperCall
BY DEF Idle, At, Call, ProperCall

\* A call that loses a room is a call; one on the way out of another room
\* stays on its way, and so does one that is about to start another game.
LEMMA WithoutFacts ==
  ASSUME NEW call \in ProperCall, NEW r \in Rooms
  PROVE  /\ Without(call, r) \in ProperCall
         /\ Without(Idle, r) = Idle
         /\ call.room # r /\ call.pc \notin {"idle", "away"} =>
              Without(call, r).pc = call.pc /\ Without(call, r).room = call.room
         /\ Without(call, r).pc = "out" => call.pc = "out" /\ call.room # r
                                             /\ Without(call, r).room = call.room
<1> USE DEF ProperCall
<1>1. Without(Idle, r) = Idle
  BY DEF Without, Idle
<1>2. CASE ~(call.room = r /\ call.pc # "start") /\ call.game # r
  <2>1. Without(call, r) = call
    BY <1>2 DEF Without
  <2>2. QED
    BY <1>1, <1>2, <2>1 DEF Call, Idle
<1>3. CASE (call.room = r /\ call.pc # "start") /\ call.game \in Rooms \ {r}
  <2>1. Without(call, r) = [pc |-> "away", room |-> NoRoom, game |-> call.game]
    BY <1>3 DEF Without
  <2>2. QED
    BY <1>1, <1>3, <2>1 DEF Call
<1>4. CASE call.room = r /\ call.pc # "start" /\ call.game \in {r, NoRoom}
  <2>1. Without(call, r) = Idle
    BY <1>4 DEF Without
  <2>2. QED
    BY <1>1, <1>4, <2>1, CallTypes DEF Idle
<1>5. CASE ~(call.room = r /\ call.pc # "start") /\ call.game = r
  <2>1. Without(call, r) = IF call.pc = "away" THEN Idle ELSE [call EXCEPT !.game = NoRoom]
    BY <1>5 DEF Without
  <2>2. QED
    BY <1>1, <1>5, <2>1, CallTypes DEF Call, Idle
<1>6. QED
  BY <1>1, <1>2, <1>3, <1>4, <1>5 DEF Call

LEMMA CallsWithoutType ==
  ASSUME NEW inFlight \in [Players -> [Connections -> ProperCall]], NEW r \in Rooms
  PROVE  /\ CallsWithout(inFlight, r) \in [Players -> [Connections -> ProperCall]]
         /\ \A p \in Players, c \in Connections :
              CallsWithout(inFlight, r)[p][c] = Without(inFlight[p][c], r)
BY WithoutFacts DEF CallsWithout

-----------------------------------------------------------------------------
(* Type correctness.                                                       *)

LEMMA Requests ==
  ASSUME Typed, NEW p \in Players, Asks(p)
  PROVE  Typed'
<1> USE DEF Typed
<1>1. ASSUME NEW r \in Rooms, CreateRoom(p, r)
      PROVE  Typed'
  BY <1>1 DEF HubTypeOK, CreateRoom, game, maps
<1>2. ASSUME NEW r \in Rooms, CreateSingle(p, r)
      PROVE  Typed'
  BY <1>2 DEF HubTypeOK, CreateSingle, waiting
<1>3. ASSUME NEW c \in Connections, NEW call \in ProperCall, Begins(p, c, call)
      PROVE  /\ calls' \in [Players -> [Connections -> ProperCall]]
             /\ calls' \in [Players -> [Connections -> Call]]
             /\ raced' \in SUBSET Players
  BY <1>3 DEF HubTypeOK, Begins, ProperCall
<1>4. ASSUME NEW r \in Rooms, ConnectGame(p, r)
      PROVE  Typed'
  <2>1. Begins(p, "own", Idle)
    BY <1>4 DEF ConnectGame
  <2>2. QED
    BY <1>3, <1>4, <2>1, CallTypes DEF HubTypeOK, ConnectGame, waiting, game, Connections
<1>5. ASSUME NEW r \in Rooms, ConnectRoom(p, r)
      PROVE  Typed'
  <2>1. \E call \in ProperCall : Begins(p, "own", call)
    BY <1>5, CallTypes DEF ConnectRoom
  <2>2. seat' \in [Rooms -> [SeatNumbers -> Players \cup {Nobody}]]
    <3>1. CASE seat' = seat
      BY <3>1 DEF HubTypeOK
    <3>2. CASE \E s \in SeatNumbers : seat' = [seat EXCEPT ![r][s] = p]
      BY <3>2 DEF HubTypeOK
    <3>3. QED
      BY <1>5, <3>1, <3>2 DEF ConnectRoom, JoinPlayer, SeatsOf
  <2>3. /\ ready' \in [Rooms -> SUBSET SeatNumbers]
        /\ elapsed' \in [Rooms -> BOOLEAN]
        /\ timer' \in [Rooms -> SUBSET {"armed", "firing"}]
    BY <1>5 DEF HubTypeOK, ConnectRoom, JoinPlayer
  <2>4. members' \in [Rooms -> SUBSET Players]
    <3>1. members' = members \/ members' = [members EXCEPT ![r] = @ \cup {p}]
      BY <1>5 DEF HubTypeOK, ConnectRoom, JoinPlayer
    <3>2. QED
      BY <3>1 DEF HubTypeOK
  <2>5. QED
    BY <1>3, <1>5, <2>1, <2>2, <2>3, <2>4 DEF HubTypeOK, ConnectRoom, game, Connections
<1>6. ASSUME Leave(p)
      PROVE  Typed'
  <2>1. \E call \in ProperCall : Begins(p, "own", call)
    BY <1>6, CallTypes DEF HubTypeOK, Leave
  <2>2. QED
    BY <1>3, <1>6, <2>1 DEF HubTypeOK, Leave, waiting, game, Connections
<1>7. ASSUME Disconnect(p)
      PROVE  Typed'
  <2>1. \E call \in ProperCall : Begins(p, "previous", call)
    BY <1>7, CallTypes DEF HubTypeOK, Disconnect
  <2>2. QED
    BY <1>3, <1>7, <2>1 DEF HubTypeOK, Disconnect, waiting, game, Connections
<1>8. ASSUME NEW pc \in {"ready", "seat"}, FindsRoom(p, pc)
      PROVE  Typed'
  <2>1. \E call \in ProperCall : Begins(p, "own", call)
    BY <1>8, CallTypes DEF HubTypeOK, FindsRoom
  <2>2. QED
    BY <1>3, <1>8, <2>1 DEF HubTypeOK, FindsRoom, waiting, game, maps, Connections
<1>9. ASSUME Resumes(p)
      PROVE  Typed'
  BY <1>9 DEF HubTypeOK, Resumes, waiting, maps
<1>10. QED
  BY <1>1, <1>2, <1>4, <1>5, <1>6, <1>7, <1>8, <1>9 DEF Asks

\* A room that is destroyed has the types of a room that has never been.
LEMMA DestroyedType ==
  ASSUME Typed, NEW r \in Rooms, Destroyed(r)
  PROVE  /\ seat' \in [Rooms -> [SeatNumbers -> Players \cup {Nobody}]]
         /\ ready' \in [Rooms -> SUBSET SeatNumbers]
         /\ members' \in [Rooms -> SUBSET Players]
         /\ elapsed' \in [Rooms -> BOOLEAN]
         /\ timer' \in [Rooms -> SUBSET {"armed", "firing"}]
BY DEF Typed, HubTypeOK, Destroyed, EmptySeats

LEMMA Steps ==
  ASSUME Typed, NEW p \in Players, Proceeds(p)
  PROVE  Typed'
<1> USE DEF Typed
<1>1. ASSUME NEW c \in Connections, NEW call \in ProperCall, Continues(p, c, call)
      PROVE  /\ calls' \in [Players -> [Connections -> ProperCall]]
             /\ calls' \in [Players -> [Connections -> Call]]
  BY <1>1 DEF HubTypeOK, Continues, ProperCall
<1>2. ASSUME NEW c \in Connections
      PROVE  /\ calls[p][c] \in ProperCall
             /\ calls[p][c].pc \notin {"idle", "away"} => calls[p][c].room \in Rooms
             /\ calls[p][c].game # NoRoom =>
                  [pc |-> "away", room |-> NoRoom, game |-> calls[p][c].game] \in ProperCall
  BY CallTypes DEF HubTypeOK, Call, ProperCall
<1>3. ASSUME NEW c \in Connections, LeavesRoom(p, c)
      PROVE  Typed'
  <2> DEFINE r == calls[p][c].room
  <2>1. r \in Rooms
    BY <1>2, <1>3 DEF LeavesRoom
  <2>2. \E call \in ProperCall : Continues(p, c, call)
    BY <1>2, <1>3, CallTypes DEF LeavesRoom
  <2>3. PlayerLeaves(r, p)
    BY <1>3 DEF LeavesRoom
  <2> HIDE DEF r
  <2>4. seat' = [seat EXCEPT ![r] = [s \in SeatNumbers |->
                                      IF seat[r][s] = p THEN Nobody ELSE seat[r][s]]]
    BY <2>1, <2>3 DEF PlayerLeaves, HubTypeOK
  <2>5. /\ ready' \in [Rooms -> SUBSET SeatNumbers]
        /\ members' \in [Rooms -> SUBSET Players]
    BY <2>1, <2>3 DEF PlayerLeaves, HubTypeOK
  <2>6. seat' \in [Rooms -> [SeatNumbers -> Players \cup {Nobody}]]
    BY <2>1, <2>4 DEF HubTypeOK
  <2>7. QED
    BY <1>1, <1>3, <2>2, <2>5, <2>6 DEF HubTypeOK, LeavesRoom, game, maps
<1>4. ASSUME NEW c \in Connections, LeavesGame(p, c)
      PROVE  Typed'
  <2>1. \E call \in ProperCall : Continues(p, c, call)
    BY <1>4, CallTypes DEF LeavesGame
  <2>2. QED
    BY <1>1, <1>4, <2>1 DEF HubTypeOK, LeavesGame, waiting, maps
<1>5. ASSUME ChoosesSeat(p)
      PROVE  Typed'
  <2> DEFINE r == calls[p]["own"].room
  <2>1. r \in Rooms
    BY <1>2, <1>5 DEF ChoosesSeat, Connections
  <2>2. \E call \in ProperCall : Continues(p, "own", call)
    BY <1>5, CallTypes DEF ChoosesSeat
  <2>3. /\ seat' \in [Rooms -> [SeatNumbers -> Players \cup {Nobody}]]
        /\ ready' \in [Rooms -> SUBSET SeatNumbers]
    <3>1. CASE UNCHANGED <<seat, ready>>
      BY <3>1 DEF HubTypeOK
    <3>2. ASSUME NEW s \in SeatNumbers,
                 seat' = [seat EXCEPT ![r] =
                            [t \in SeatNumbers |-> IF t = s /\ @[s] = Nobody THEN p
                                             ELSE IF @[t] = p THEN Nobody ELSE @[t]]],
                 ready' = [ready EXCEPT ![r] = @ \ ({s} \cup SeatsOf(r, p))]
          PROVE  /\ seat' \in [Rooms -> [SeatNumbers -> Players \cup {Nobody}]]
                 /\ ready' \in [Rooms -> SUBSET SeatNumbers]
      <4> HIDE DEF r
      <4>1. seat' = [seat EXCEPT ![r] =
                       [t \in SeatNumbers |-> IF t = s /\ seat[r][s] = Nobody THEN p
                                        ELSE IF seat[r][t] = p THEN Nobody ELSE seat[r][t]]]
        BY <2>1, <3>2 DEF HubTypeOK
      <4>2. QED
        BY <2>1, <3>2, <4>1 DEF HubTypeOK
    <3>3. QED
      BY <1>5, <3>1, <3>2 DEF ChoosesSeat
  <2>4. QED
    BY <1>1, <1>5, <2>2, <2>3 DEF HubTypeOK, ChoosesSeat, game, maps, Connections
<1>6. ASSUME NEW isReady \in BOOLEAN, SetsReady(p, isReady)
      PROVE  Typed'
  <2> DEFINE r == calls[p]["own"].room
  <2>1. r \in Rooms
    BY <1>2, <1>6 DEF SetsReady, Connections
  <2>2. \E call \in ProperCall : Continues(p, "own", call)
    BY <1>6, <2>1, CallTypes DEF SetsReady
  <2>3. ready' = ready \/ ready' = [ready EXCEPT ![r] = IF isReady THEN @ \cup SeatsOf(r, p)
                                                      ELSE @ \ SeatsOf(r, p)]
    BY <1>6 DEF SetsReady
  <2> HIDE DEF r
  <2>4. ready' \in [Rooms -> SUBSET SeatNumbers]
    <3> DEFINE mine == SeatsOf(r, p)
    <3>1. mine \subseteq SeatNumbers
      BY DEF SeatsOf
    <3>2. \/ ready' = ready
          \/ ready' = [ready EXCEPT ![r] = ready[r] \cup mine]
          \/ ready' = [ready EXCEPT ![r] = ready[r] \ mine]
      BY <2>1, <2>3 DEF HubTypeOK
    <3> HIDE DEF mine
    <3>3. QED
      BY <2>1, <3>1, <3>2 DEF HubTypeOK
  <2>5. QED
    BY <1>1, <1>6, <2>2, <2>4 DEF HubTypeOK, SetsReady, game, maps, Connections
<1>7. ASSUME ChecksRoom(p)
      PROVE  Typed'
  <2>1. \E call \in ProperCall : Continues(p, "own", call)
    BY <1>2, <1>7, CallTypes DEF ChecksRoom, Connections
  <2>2. QED
    BY <1>1, <1>7, <2>1 DEF HubTypeOK, ChecksRoom, waiting, game, maps, Connections
<1>8. ASSUME StartsGame(p)
      PROVE  Typed'
  <2> DEFINE r == calls[p]["own"].room
  <2>1. r \in Rooms
    BY <1>2, <1>8 DEF StartsGame, Connections
  <2>2. CASE phase[r] = "pending" /\ AllReady(r)
    <3> DEFINE others == [calls EXCEPT ![p]["own"] = Idle]
    <3>1. others \in [Players -> [Connections -> ProperCall]]
      BY CallTypes DEF Connections
    <3>2. calls' = CallsWithout(others, r) /\ Destroyed(r)
      BY <1>8, <2>2 DEF StartsGame
    <3>3. /\ phase' = [phase EXCEPT ![r] = "active"]
          /\ playing' = [playing EXCEPT ![r] = Seated(r)]
          /\ pendingOf' = [q \in Players |-> IF q \in Seated(r) THEN NoRoom ELSE pendingOf[q]]
          /\ activeOf' = [q \in Players |-> IF q \in Seated(r) THEN r ELSE activeOf[q]]
          /\ raced' = raced \cup {q \in Seated(r) : Leaving(q, r)}
          /\ UNCHANGED <<away, course, swept>>
      BY <1>8, <2>2 DEF StartsGame
    <3> HIDE DEF r, others
    <3>4. Seated(r) \subseteq Players
      BY <2>1 DEF HubTypeOK, Seated
    <3>5. calls' \in [Players -> [Connections -> ProperCall]]
      BY <2>1, <3>1, <3>2, CallsWithoutType
    <3>6. calls' \in [Players -> [Connections -> Call]]
      BY <3>5 DEF ProperCall
    <3>7. QED
      BY <2>1, <3>2, <3>3, <3>4, <3>5, <3>6, DestroyedType DEF HubTypeOK
  <2>3. CASE ~(phase[r] = "pending" /\ AllReady(r))
    <3>1. Continues(p, "own", Idle) /\ UNCHANGED <<phase, waiting, playing, maps, raced, away, course, swept>>
      BY <1>8, <2>3 DEF StartsGame
    <3>2. QED
      BY <1>1, <3>1, CallTypes DEF HubTypeOK, waiting, maps, Connections
  <2>4. QED
    BY <2>2, <2>3
<1>9. QED
  BY <1>3, <1>4, <1>5, <1>6, <1>7, <1>8 DEF Proceeds

LEMMA Others ==
  ASSUME Typed,
         \/ \E p \in Players, r \in Rooms : GoesAway(p, r)
         \/ \E r \in Rooms : EndsOfItself(r) \/ TimerFires(r) \/ TimerCallback(r)
         \/ \E r \in Rooms : CollectGame(r) \/ SweepRoom(r)
         \/ ScanRooms
  PROVE  Typed'
<1> USE DEF Typed
<1>1. ASSUME NEW p \in Players, NEW r \in Rooms, GoesAway(p, r)
      PROVE  Typed'
  BY <1>1 DEF HubTypeOK, GoesAway, waiting, maps
<1>2. ASSUME NEW r \in Rooms, EndsOfItself(r)
      PROVE  Typed'
  BY <1>2 DEF HubTypeOK, EndsOfItself, waiting, maps
<1>3. ASSUME NEW r \in Rooms, TimerFires(r)
      PROVE  Typed'
  BY <1>3 DEF HubTypeOK, TimerFires, game, maps
<1>4. ASSUME NEW r \in Rooms, TimerCallback(r)
      PROVE  Typed'
  <2>1. /\ timer' \in [Rooms -> SUBSET {"armed", "firing"}]
        /\ elapsed' = elapsed \/ elapsed' = [elapsed EXCEPT ![r] = TRUE]
                              \/ elapsed' = [elapsed EXCEPT ![r] = FALSE]
    BY <1>4 DEF HubTypeOK, TimerCallback
  <2>2. elapsed' \in [Rooms -> BOOLEAN]
    BY <2>1 DEF HubTypeOK
  <2>3. QED
    BY <1>4, <2>1, <2>2 DEF HubTypeOK, TimerCallback, game, maps
<1>5. ASSUME NEW r \in Rooms, CollectGame(r)
      PROVE  Typed'
  <2>1. CASE course[r] = "ended"
    <3>1. calls' \in [Players -> [Connections -> ProperCall]]
      BY <1>5, <2>1, CallsWithoutType DEF CollectGame
    <3>2. calls' \in [Players -> [Connections -> Call]]
      BY <3>1 DEF ProperCall
    <3>3. /\ phase' \in [Rooms -> {"none", "pending", "active"}]
          /\ playing' \in [Rooms -> SUBSET Players]
          /\ away' \in [Rooms -> SUBSET Players]
          /\ course' \in [Rooms -> {"on", "deserted", "ended"}]
      BY <1>5, <2>1 DEF HubTypeOK, CollectGame
    <3>4. activeOf' \in [Players -> Rooms \cup {NoRoom}]
      BY <1>5, <2>1 DEF HubTypeOK, CollectGame
    <3>5. UNCHANGED <<seat, ready, members, elapsed, timer, pendingOf, swept, raced>>
      BY <1>5 DEF CollectGame, waiting
    <3>6. QED
      BY <3>1, <3>2, <3>3, <3>4, <3>5 DEF HubTypeOK
  <2>2. CASE course[r] # "ended"
    BY <1>5, <2>2 DEF HubTypeOK, CollectGame, waiting
  <2>3. QED
    BY <2>1, <2>2
<1>6. ASSUME NEW r \in Rooms, SweepRoom(r)
      PROVE  Typed'
  <2>1. CASE phase[r] = "pending" /\ IsEmpty(r) /\ elapsed[r]
    <3>1. calls' \in [Players -> [Connections -> ProperCall]] /\ Destroyed(r)
      BY <1>6, <2>1, CallsWithoutType DEF SweepRoom
    <3>2. calls' \in [Players -> [Connections -> Call]]
      BY <3>1 DEF ProperCall
    <3>3. phase' \in [Rooms -> {"none", "pending", "active"}]
      BY <1>6, <2>1 DEF HubTypeOK, SweepRoom
    <3>4. pendingOf' \in [Players -> Rooms \cup {NoRoom}]
      BY <1>6, <2>1 DEF HubTypeOK, SweepRoom
    <3>5. /\ swept' \in SUBSET Rooms
          /\ UNCHANGED <<playing, away, course, activeOf, raced>>
      BY <1>6 DEF HubTypeOK, SweepRoom, game
    <3>6. QED
      BY <3>1, <3>2, <3>3, <3>4, <3>5, DestroyedType DEF HubTypeOK
  <2>2. CASE ~(phase[r] = "pending" /\ IsEmpty(r) /\ elapsed[r])
    BY <1>6, <2>2 DEF HubTypeOK, SweepRoom, waiting, game
  <2>3. QED
    BY <2>1, <2>2
<1>7. ASSUME ScanRooms
      PROVE  Typed'
  <2>1. elapsed' \in [Rooms -> BOOLEAN]
    BY <1>7 DEF ScanRooms
  <2>2. timer' \in [Rooms -> SUBSET {"armed", "firing"}]
    BY <1>7 DEF HubTypeOK, ScanRooms
  <2>3. swept' \in SUBSET Rooms
    BY <1>7 DEF ScanRooms
  <2>4. QED
    BY <1>7, <2>1, <2>2, <2>3 DEF HubTypeOK, ScanRooms, game, maps
<1>8. QED
  BY <1>1, <1>2, <1>3, <1>4, <1>5, <1>6, <1>7

LEMMA TypedAlways == HubSpec => []Typed
<1>1. HubInit => Typed
  BY CallTypes DEF HubInit, Typed, HubTypeOK, EmptySeats, ProperCall, Connections
<1>2. Typed /\ [HubNext]_hubVars => Typed'
  <2>1. ASSUME Typed, HubNext
        PROVE  Typed'
    BY <2>1, Requests, Steps, Others DEF HubNext
  <2>2. ASSUME Typed, UNCHANGED hubVars
        PROVE  Typed'
    BY <2>2 DEF Typed, HubTypeOK, hubVars, waiting, game, maps
  <2>3. QED
    BY <2>1, <2>2
<1>3. QED
  BY <1>1, <1>2, PTL DEF HubSpec

\* Every variable of the hub keeps its type, and every call in flight names
\* the room or the game that it goes on with.
THEOREM HubTypeCorrect == HubSpec => []HubTypeOK
<1>1. Typed => HubTypeOK
  BY DEF Typed
<1>2. QED
  BY <1>1, TypedAlways, PTL

-----------------------------------------------------------------------------
(* The shape of waiting rooms.                                             *)

ShapeOf(r) ==
  /\ \A s, t \in SeatNumbers : seat[r][s] # Nobody /\ seat[r][s] = seat[r][t] => s = t
  /\ \A s \in ready[r] : seat[r][s] # Nobody
  /\ IF r \in Duplicates THEN Seated(r) \subseteq members[r] ELSE members[r] = {}
  /\ IsFiniteSet(members[r]) /\ Cardinality(members[r]) <= SeatCount
  /\ phase[r] # "pending" => IsEmpty(r) /\ ~elapsed[r] /\ timer[r] = {}

Shape == \A r \in Rooms : ShapeOf(r)

\* What a step does to a room: nothing to its seats, or nothing at all.
SeatsKept(r) == seat'[r] = seat[r] /\ ready'[r] = ready[r] /\ members'[r] = members[r]
Untouched(r) == SeatsKept(r) /\ phase'[r] = phase[r] /\ elapsed'[r] = elapsed[r] /\ timer'[r] = timer[r]

LEMMA SameSeats ==
  ASSUME NEW r \in Rooms, SeatsKept(r)
  PROVE  /\ Seated(r)' = Seated(r) /\ Present(r)' = Present(r)
         /\ IsEmpty(r)' <=> IsEmpty(r)
         /\ AllReady(r)' <=> AllReady(r)
<1>1. Seated(r)' = Seated(r)
  BY DEF SeatsKept, Seated
<1>2. Present(r)' = Present(r)
  BY <1>1 DEF SeatsKept, Present
<1>3. QED
  BY <1>1, <1>2 DEF SeatsKept, IsEmpty, AllReady

LEMMA SameShape ==
  ASSUME NEW r \in Rooms, ShapeOf(r), SeatsKept(r),
         phase'[r] # "pending" => IsEmpty(r) /\ ~elapsed'[r] /\ timer'[r] = {}
  PROVE  ShapeOf(r)'
BY SameSeats DEF SeatsKept, ShapeOf

LEMMA UntouchedShape ==
  ASSUME NEW r \in Rooms, ShapeOf(r), Untouched(r)
  PROVE  ShapeOf(r)' /\ SeatsKept(r)
BY SameShape DEF Untouched, ShapeOf

\* Who joins a room is in it, and does not make it ready.
LEMMA JoinEffect ==
  ASSUME Typed, NEW r \in Rooms, NEW p \in Players, ShapeOf(r), JoinPlayer(r, p),
         phase[r] = "pending", phase' = phase
  PROVE  /\ ShapeOf(r)'
         /\ Present(r)' = Present(r) \cup {p}
         /\ AllReady(r)' => AllReady(r)
         /\ \A q \in Rooms \ {r} : Untouched(q)
<1> USE DEF Typed
<1>0. /\ seat \in [Rooms -> [SeatNumbers -> Players \cup {Nobody}]]
      /\ ready \in [Rooms -> SUBSET SeatNumbers]
      /\ members \in [Rooms -> SUBSET Players]
      /\ elapsed \in [Rooms -> BOOLEAN]
      /\ timer \in [Rooms -> SUBSET {"armed", "firing"}]
  BY DEF HubTypeOK
<1>1. \/ r \in Duplicates /\ seat' = seat
      \/ r \notin Duplicates /\ p \in Seated(r) /\ seat' = seat
      \/ /\ r \notin Duplicates /\ p \notin Seated(r)
         /\ \E s \in SeatNumbers : seat[r][s] = Nobody /\ seat' = [seat EXCEPT ![r][s] = p]
  BY DEF JoinPlayer, SeatsOf
<1>2. /\ ready'[r] = ready[r] \ SeatsOf(r, p)
      /\ members'[r] = IF r \in Duplicates THEN members[r] \cup {p} ELSE members[r]
  BY <1>0 DEF JoinPlayer
<1>3. \A q \in Rooms \ {r} : Untouched(q)
  <2>1. \A q \in Rooms \ {r} : seat'[q] = seat[q]
    BY <1>0, <1>1
  <2>2. \A q \in Rooms \ {r} : /\ ready'[q] = ready[q] /\ members'[q] = members[q]
                               /\ elapsed'[q] = elapsed[q] /\ timer'[q] = timer[q]
    BY <1>0 DEF JoinPlayer
  <2>3. QED
    BY <2>1, <2>2 DEF Untouched, SeatsKept
<1>4. CASE r \in Duplicates /\ seat' = seat
  <2>1. Seated(r)' = Seated(r)
    BY <1>4 DEF Seated
  <2>2. IsFiniteSet(members'[r]) /\ Cardinality(members'[r]) <= SeatCount
    <3>1. CASE p \in members[r]
      <4>1. members'[r] = members[r]
        BY <1>2, <1>4, <3>1
      <4>2. QED
        BY <4>1 DEF ShapeOf
    <3>2. CASE p \notin members[r]
      <4>1. Cardinality(members[r]) < SeatCount
        BY <1>4, <3>2 DEF JoinPlayer, CanJoin
      <4>2. IsFiniteSet(members[r]) /\ Cardinality(members[r]) \in Nat
        BY FS_CardinalityType DEF ShapeOf
      <4>3. /\ IsFiniteSet(members[r] \cup {p})
            /\ Cardinality(members[r] \cup {p}) = Cardinality(members[r]) + 1
        BY <3>2, <4>2, FS_AddElement
      <4>4. members'[r] = members[r] \cup {p}
        BY <1>2, <1>4
      <4>5. QED
        BY <4>1, <4>2, <4>3, <4>4
    <3>3. QED
      BY <3>1, <3>2
  <2>3. ShapeOf(r)'
    BY <1>2, <1>4, <2>1, <2>2 DEF ShapeOf
  <2>4. Present(r)' = Present(r) \cup {p}
    BY <1>2, <1>4, <2>1 DEF Present
  <2>5. QED
    BY <1>2, <1>3, <1>4, <2>3, <2>4 DEF AllReady
<1>5. CASE r \notin Duplicates /\ p \in Seated(r) /\ seat' = seat
  <2>1. Seated(r)' = Seated(r)
    BY <1>5 DEF Seated
  <2>2. ShapeOf(r)' /\ Present(r)' = Present(r) \cup {p}
    BY <1>2, <1>5, <2>1 DEF ShapeOf, Present
  <2>3. QED
    BY <1>2, <1>3, <1>5, <2>2 DEF AllReady
<1>6. CASE /\ r \notin Duplicates /\ p \notin Seated(r)
           /\ \E s \in SeatNumbers : seat[r][s] = Nobody /\ seat' = [seat EXCEPT ![r][s] = p]
  <2>1. PICK s \in SeatNumbers : seat[r][s] = Nobody /\ seat' = [seat EXCEPT ![r][s] = p]
    BY <1>6
  <2>2. /\ seat'[r][s] = p
        /\ \A t \in SeatNumbers \ {s} : seat'[r][t] = seat[r][t]
    BY <1>0, <2>1
  <2>3. /\ p # Nobody
        /\ \A t \in SeatNumbers : seat[r][t] # p
        /\ s \notin ready[r]
    BY <1>6, <2>1 DEF Seated, ShapeOf
  <2>4. Seated(r)' = Seated(r) \cup {p}
    BY <2>1, <2>2, <2>3 DEF Seated
  <2>5. ready'[r] \subseteq ready[r] \ {s}
    BY <1>2, <2>3
  <2>6. ShapeOf(r)'
    BY <1>2, <1>6, <2>2, <2>3, <2>4, <2>5 DEF ShapeOf
  <2>7. Present(r)' = Present(r) \cup {p}
    BY <1>2, <1>6, <2>4 DEF Present
  <2>8. ~AllReady(r)'
    BY <2>1, <2>5 DEF AllReady
  <2>9. QED
    BY <1>3, <2>6, <2>7, <2>8
<1>7. QED
  BY <1>1, <1>4, <1>5, <1>6

\* Who leaves a room is not in it any more, and does not make it ready.
LEMMA LeaveEffect ==
  ASSUME Typed, NEW r \in Rooms, NEW p \in Players, ShapeOf(r), PlayerLeaves(r, p),
         UNCHANGED <<phase, elapsed, timer>>
  PROVE  /\ ShapeOf(r)'
         /\ Present(r)' = Present(r) \ {p}
         /\ AllReady(r)' => AllReady(r)
         /\ \A q \in Rooms \ {r} : Untouched(q)
<1>0. /\ seat \in [Rooms -> [SeatNumbers -> Players \cup {Nobody}]]
      /\ ready \in [Rooms -> SUBSET SeatNumbers]
      /\ members \in [Rooms -> SUBSET Players]
  BY DEF Typed, HubTypeOK
<1>1. seat' = [seat EXCEPT ![r] = [s \in SeatNumbers |->
                                    IF seat[r][s] = p THEN Nobody ELSE seat[r][s]]]
  BY <1>0 DEF PlayerLeaves
<1>2. /\ \A s \in SeatNumbers : seat'[r][s] = IF seat[r][s] = p THEN Nobody ELSE seat[r][s]
      /\ ready'[r] = ready[r] \ SeatsOf(r, p)
      /\ members'[r] = members[r] \ {p}
  BY <1>0, <1>1 DEF PlayerLeaves
<1>3. \A q \in Rooms \ {r} : Untouched(q)
  BY <1>0, <1>1 DEF PlayerLeaves, Untouched, SeatsKept
<1>4. Seated(r)' = Seated(r) \ {p}
  BY <1>0, <1>2 DEF Seated
<1>5. Present(r)' = Present(r) \ {p}
  BY <1>2, <1>4 DEF Present
<1>6. /\ IsFiniteSet(members'[r]) /\ Cardinality(members'[r]) <= SeatCount
  <2>1. /\ IsFiniteSet(members[r]) /\ Cardinality(members[r]) \in Nat
        /\ Cardinality(members[r]) <= SeatCount
    BY FS_CardinalityType DEF ShapeOf
  <2>2. /\ IsFiniteSet(members[r] \ {p})
        /\ Cardinality(members[r] \ {p}) \in Nat
        /\ Cardinality(members[r] \ {p}) <= Cardinality(members[r])
    BY <2>1, FS_Subset, FS_CardinalityType
  <2>3. QED
    BY <1>2, <2>1, <2>2
<1>7. \A s \in ready'[r] : seat'[r][s] # Nobody
  BY <1>0, <1>2 DEF ShapeOf, SeatsOf
<1>8. ShapeOf(r)'
  BY <1>2, <1>4, <1>5, <1>6, <1>7 DEF ShapeOf, IsEmpty
<1>9. AllReady(r)' => AllReady(r)
  BY <1>2 DEF AllReady
<1>10. QED
  BY <1>3, <1>5, <1>8, <1>9

\* Who chooses a seat is a member of the room before and after.
LEMMA ChooseEffect ==
  ASSUME Typed, Shape, NEW p \in Players, ChoosesSeat(p), NEW q \in Rooms
  PROVE  /\ ShapeOf(q)'
         /\ Present(q)' = Present(q)
         /\ AllReady(q)' => AllReady(q)
<1>a. PICK r \in Rooms : r = calls[p]["own"].room
  BY DEF Typed, ChoosesSeat, ProperCall, Connections
<1>0. /\ seat \in [Rooms -> [SeatNumbers -> Players \cup {Nobody}]]
      /\ ready \in [Rooms -> SUBSET SeatNumbers]
      /\ members \in [Rooms -> SUBSET Players]
      /\ ShapeOf(q) /\ ShapeOf(r)
  BY DEF Typed, HubTypeOK, Shape
<1>1. CASE SeatsKept(q)
  BY <1>0, <1>1, UntouchedShape, SameSeats DEF ChoosesSeat, Untouched
<1>2. ASSUME NEW s \in SeatNumbers,
             p \in members[r], seat[r][s] \in {p, Nobody},
             seat' = [seat EXCEPT ![r] =
                        [t \in SeatNumbers |-> IF t = s /\ @[s] = Nobody THEN p
                                         ELSE IF @[t] = p THEN Nobody ELSE @[t]]],
             ready' = [ready EXCEPT ![r] = @ \ ({s} \cup SeatsOf(r, p))],
             q = r
      PROVE  /\ ShapeOf(q)'
             /\ Present(q)' = Present(q)
             /\ AllReady(q)' => AllReady(q)
  <2>1. /\ members' = members /\ phase' = phase /\ elapsed' = elapsed /\ timer' = timer
    BY DEF ChoosesSeat
  <2>2. seat' = [seat EXCEPT ![r] =
                   [t \in SeatNumbers |-> IF t = s /\ seat[r][s] = Nobody THEN p
                                    ELSE IF seat[r][t] = p THEN Nobody ELSE seat[r][t]]]
    BY <1>0, <1>2
  <2>3. /\ \A t \in SeatNumbers : seat'[r][t] = IF t = s /\ seat[r][s] = Nobody THEN p
                                    ELSE IF seat[r][t] = p THEN Nobody ELSE seat[r][t]
        /\ ready'[r] = ready[r] \ ({s} \cup SeatsOf(r, p))
    BY <1>0, <1>2, <2>2
  <2>4. r \in Duplicates /\ Seated(r) \subseteq members[r]
    BY <1>0, <1>2 DEF ShapeOf
  <2>5. Seated(r)' \subseteq Seated(r) \cup {p}
    BY <2>3 DEF Seated
  <2>6. Seated(r)' \subseteq members'[r]
    BY <1>2, <2>1, <2>4, <2>5
  <2>7. Present(r)' = Present(r)
    BY <2>1, <2>4, <2>6 DEF Present
  <2>8. \A t \in ready'[r] : seat'[r][t] # Nobody
    BY <1>0, <2>3 DEF ShapeOf, SeatsOf
  <2>9. \A t, u \in SeatNumbers : seat'[r][t] # Nobody /\ seat'[r][t] = seat'[r][u] => t = u
    BY <1>0, <2>3 DEF ShapeOf
  <2>10. ShapeOf(r)'
    BY <1>0, <2>1, <2>4, <2>6, <2>7, <2>8, <2>9 DEF ShapeOf, IsEmpty
  <2>11. ~AllReady(r)'
    BY <2>3 DEF AllReady
  <2>12. QED
    BY <1>2, <2>7, <2>10, <2>11
<1>3. QED
  <2>1. CASE UNCHANGED <<seat, ready>>
    BY <1>1, <2>1 DEF SeatsKept, ChoosesSeat
  <2>2. CASE q # r
    <3>1. seat'[q] = seat[q] /\ ready'[q] = ready[q] /\ members'[q] = members[q]
      BY <1>a, <1>0, <2>2 DEF ChoosesSeat
    <3>2. QED
      BY <1>1, <3>1 DEF SeatsKept
  <2>3. QED
    <3>1. \/ UNCHANGED <<seat, ready>>
          \/ \E s \in SeatNumbers :
               /\ p \in members[r] /\ seat[r][s] \in {p, Nobody}
               /\ seat' = [seat EXCEPT ![r] =
                             [t \in SeatNumbers |-> IF t = s /\ @[s] = Nobody THEN p
                                              ELSE IF @[t] = p THEN Nobody ELSE @[t]]]
               /\ ready' = [ready EXCEPT ![r] = @ \ ({s} \cup SeatsOf(r, p))]
      BY <1>a DEF ChoosesSeat
    <3>2. QED
      BY <1>2, <2>1, <2>2, <3>1

\* A room that is destroyed is as empty as a room that has never been.
LEMMA DestroyedEffect ==
  ASSUME Typed, NEW r \in Rooms, Destroyed(r)
  PROVE  /\ ShapeOf(r)' /\ Present(r)' = {} /\ ~AllReady(r)'
         /\ \A q \in Rooms \ {r} : SeatsKept(q) /\ elapsed'[q] = elapsed[q] /\ timer'[q] = timer[q]
<1>1. /\ \A s \in SeatNumbers : seat'[r][s] = Nobody
      /\ ready'[r] = {} /\ members'[r] = {} /\ elapsed'[r] = FALSE /\ timer'[r] = {}
  BY DEF Typed, HubTypeOK, Destroyed, EmptySeats
<1>2. Seated(r)' = {} /\ Present(r)' = {}
  BY <1>1 DEF Seated, Present
<1>3. IsFiniteSet(members'[r]) /\ Cardinality(members'[r]) = 0
  BY <1>1, FS_EmptySet
<1>4. ShapeOf(r)'
  BY <1>1, <1>2, <1>3 DEF ShapeOf, IsEmpty
<1>5. ~AllReady(r)'
  BY <1>1 DEF AllReady, SeatNumbers
<1>6. QED
  BY <1>2, <1>4, <1>5 DEF Typed, HubTypeOK, Destroyed, SeatsKept


LEMMA ReadyEffect ==
  ASSUME Typed, Shape, NEW p \in Players, NEW isReady \in BOOLEAN, SetsReady(p, isReady),
         NEW q \in Rooms
  PROVE  /\ ShapeOf(q)'
         /\ Present(q)' = Present(q)
         /\ q # calls[p]["own"].room => Untouched(q)
<1>1. PICK r \in Rooms : r = calls[p]["own"].room
  BY DEF Typed, SetsReady, ProperCall, Connections
<1>2. UNCHANGED <<phase, seat, members, elapsed, timer>>
  BY DEF SetsReady
<1>3. Seated(q)' = Seated(q) /\ Present(q)' = Present(q)
  BY <1>2 DEF Seated, Present
<1>4. ready' = ready \/ ready' = [ready EXCEPT ![r] = IF isReady THEN @ \cup SeatsOf(r, p)
                                                    ELSE @ \ SeatsOf(r, p)]
  BY <1>1 DEF SetsReady
<1>5. ready \in [Rooms -> SUBSET SeatNumbers]
  BY DEF Typed, HubTypeOK
<1>6. ready'[q] \subseteq ready[q] \cup SeatsOf(q, p)
  BY <1>4, <1>5
<1>7. \A s \in ready'[q] : seat'[q][s] # Nobody
  BY <1>2, <1>6 DEF Shape, ShapeOf, SeatsOf
<1>8. ShapeOf(q)'
  BY <1>2, <1>3, <1>7 DEF Shape, ShapeOf, IsEmpty
<1>9. q # r => ready'[q] = ready[q]
  BY <1>4, <1>5
<1>10. QED
  BY <1>1, <1>2, <1>3, <1>8, <1>9 DEF Untouched, SeatsKept

LEMMA StillShape ==
  ASSUME Shape, UNCHANGED <<phase, waiting>>
  PROVE  Shape'
BY UntouchedShape DEF Shape, Untouched, SeatsKept, waiting

LEMMA ShapeAfterRequest ==
  ASSUME Typed, Shape, NEW p \in Players, Asks(p)
  PROVE  Shape'
<1>1. ASSUME NEW r \in Rooms, CreateRoom(p, r) \/ CreateSingle(p, r)
      PROVE  Shape'
  <2>1. /\ phase[r] = "none"
        /\ \A q \in Rooms \ {r} : phase'[q] = phase[q] /\ timer'[q] = timer[q]
        /\ phase'[r] = "pending" \/ timer'[r] = timer[r]
        /\ UNCHANGED <<seat, ready, members, elapsed>>
    BY <1>1 DEF CreateRoom, CreateSingle, waiting, Typed, HubTypeOK
  <2>2. \A q \in Rooms : SeatsKept(q)
    BY <2>1 DEF SeatsKept
  <2>3. \A q \in Rooms : phase'[q] # "pending" => IsEmpty(q) /\ ~elapsed'[q] /\ timer'[q] = {}
    BY <2>1 DEF Shape, ShapeOf
  <2>4. QED
    BY <2>2, <2>3, SameShape DEF Shape
<1>2. ASSUME NEW r \in Rooms, ConnectRoom(p, r)
      PROVE  Shape'
  <2>1. JoinPlayer(r, p) /\ phase[r] = "pending" /\ phase' = phase /\ ShapeOf(r)
    BY <1>2 DEF ConnectRoom, Shape
  <2>2. QED
    BY <2>1, JoinEffect, UntouchedShape DEF Shape
<1>3. CASE ~\E r \in Rooms : CreateRoom(p, r) \/ CreateSingle(p, r) \/ ConnectRoom(p, r)
  <2>1. UNCHANGED <<phase, waiting>>
    BY <1>3 DEF Asks, ConnectGame, Leave, Disconnect, FindsRoom, Resumes
  <2>2. QED
    BY <2>1, StillShape
<1>4. QED
  BY <1>1, <1>2, <1>3

LEMMA ShapeAfterStep ==
  ASSUME Typed, Shape, NEW p \in Players, Proceeds(p)
  PROVE  Shape'
<1>1. ASSUME NEW c \in Connections, LeavesRoom(p, c)
      PROVE  Shape'
  <2>1. PICK r \in Rooms : r = calls[p][c].room
    BY <1>1 DEF Typed, LeavesRoom, ProperCall
  <2>2. PlayerLeaves(r, p) /\ UNCHANGED <<phase, elapsed, timer>> /\ ShapeOf(r)
    BY <1>1, <2>1 DEF LeavesRoom, Shape
  <2>3. QED
    BY <2>2, LeaveEffect, UntouchedShape DEF Shape
<1>2. CASE ChoosesSeat(p)
  BY <1>2, ChooseEffect DEF Shape
<1>3. ASSUME NEW isReady \in BOOLEAN, SetsReady(p, isReady)
      PROVE  Shape'
  BY <1>3, ReadyEffect DEF Shape
<1>4. CASE StartsGame(p)
  <2>1. PICK r \in Rooms : r = calls[p]["own"].room
    BY <1>4 DEF Typed, StartsGame, ProperCall, Connections
  <2>2. CASE phase[r] = "pending" /\ AllReady(r)
    <3>1. Destroyed(r) /\ phase' = [phase EXCEPT ![r] = "active"]
      BY <1>4, <2>1, <2>2 DEF StartsGame
    <3>2. \A q \in Rooms \ {r} : phase'[q] = phase[q]
      BY <3>1 DEF Typed, HubTypeOK
    <3>3. QED
      BY <3>1, <3>2, DestroyedEffect, UntouchedShape DEF Shape, Untouched
  <2>3. CASE ~(phase[r] = "pending" /\ AllReady(r))
    BY <1>4, <2>1, <2>3, StillShape DEF StartsGame
  <2>4. QED
    BY <2>2, <2>3
<1>5. CASE (\E c \in Connections : LeavesGame(p, c)) \/ ChecksRoom(p)
  <2>1. UNCHANGED <<phase, waiting>>
    BY <1>5 DEF LeavesGame, ChecksRoom
  <2>2. QED
    BY <2>1, StillShape
<1>6. QED
  BY <1>1, <1>2, <1>3, <1>4, <1>5 DEF Proceeds

LEMMA ShapeAfterOthers ==
  ASSUME Typed, Shape,
         \/ \E p \in Players, r \in Rooms : GoesAway(p, r)
         \/ \E r \in Rooms : EndsOfItself(r) \/ TimerFires(r) \/ TimerCallback(r)
         \/ \E r \in Rooms : CollectGame(r) \/ SweepRoom(r)
         \/ ScanRooms
  PROVE  Shape'
<1>0. /\ phase \in [Rooms -> {"none", "pending", "active"}]
      /\ elapsed \in [Rooms -> BOOLEAN]
      /\ timer \in [Rooms -> SUBSET {"armed", "firing"}]
  BY DEF Typed, HubTypeOK
<1>1. ASSUME NEW p \in Players, NEW r \in Rooms, GoesAway(p, r)
      PROVE  Shape'
  BY <1>1, StillShape DEF GoesAway
<1>2. ASSUME NEW r \in Rooms, EndsOfItself(r)
      PROVE  Shape'
  BY <1>2, StillShape DEF EndsOfItself
<1>3. ASSUME NEW r \in Rooms, TimerFires(r) \/ TimerCallback(r)
      PROVE  Shape'
  <2>1. /\ \A q \in Rooms \ {r} : elapsed'[q] = elapsed[q] /\ timer'[q] = timer[q]
        /\ phase' = phase
        /\ \A q \in Rooms : SeatsKept(q)
    BY <1>0, <1>3 DEF TimerFires, TimerCallback, SeatsKept
  <2>2. phase[r] = "pending"
    BY <1>3 DEF TimerFires, TimerCallback, Shape, ShapeOf
  <2>3. \A q \in Rooms : phase'[q] # "pending" => IsEmpty(q) /\ ~elapsed'[q] /\ timer'[q] = {}
    BY <2>1, <2>2 DEF Shape, ShapeOf
  <2>4. QED
    BY <2>1, <2>3, SameShape DEF Shape
<1>4. ASSUME NEW r \in Rooms, CollectGame(r)
      PROVE  Shape'
  <2>1. /\ UNCHANGED waiting /\ phase[r] = "active"
        /\ \A q \in Rooms : phase'[q] = phase[q] \/ q = r
    BY <1>0, <1>4 DEF CollectGame
  <2>2. \A q \in Rooms : SeatsKept(q) /\ elapsed'[q] = elapsed[q] /\ timer'[q] = timer[q]
    BY <2>1 DEF waiting, SeatsKept
  <2>3. \A q \in Rooms : phase'[q] # "pending" => IsEmpty(q) /\ ~elapsed'[q] /\ timer'[q] = {}
    BY <2>1, <2>2 DEF Shape, ShapeOf
  <2>4. QED
    BY <2>2, <2>3, SameShape DEF Shape
<1>5. ASSUME NEW r \in Rooms, SweepRoom(r)
      PROVE  Shape'
  <2>1. CASE Destroyed(r) /\ phase' = [phase EXCEPT ![r] = "none"]
    <3>1. \A q \in Rooms \ {r} : phase'[q] = phase[q]
      BY <1>0, <2>1
    <3>2. QED
      BY <2>1, <3>1, DestroyedEffect, UntouchedShape DEF Shape, Untouched
  <2>2. CASE UNCHANGED <<phase, waiting>>
    BY <2>2, StillShape
  <2>3. QED
    BY <1>5, <2>1, <2>2 DEF SweepRoom
<1>6. CASE ScanRooms
  <2>1. phase' = phase /\ \A q \in Rooms : SeatsKept(q)
    BY <1>6 DEF ScanRooms, SeatsKept
  <2>2. \A q \in Rooms : phase'[q] # "pending" => IsEmpty(q) /\ ~elapsed'[q] /\ timer'[q] = {}
    BY <1>6, <2>1 DEF ScanRooms, Shape, ShapeOf
  <2>3. QED
    BY <2>1, <2>2, SameShape DEF Shape
<1>7. QED
  BY <1>1, <1>2, <1>3, <1>4, <1>5, <1>6

LEMMA ShapeStep == Typed /\ Shape /\ [HubNext]_hubVars => Shape'
<1>1. ASSUME Typed, Shape, HubNext
      PROVE  Shape'
  BY <1>1, ShapeAfterRequest, ShapeAfterStep, ShapeAfterOthers DEF HubNext
<1>2. ASSUME Shape, UNCHANGED hubVars
      PROVE  Shape'
  BY <1>2, StillShape DEF hubVars
<1>3. QED
  BY <1>1, <1>2

LEMMA ShapeAlways == HubSpec => []Shape
<1>1. HubInit => Shape
  <2>1. ASSUME HubInit, NEW r \in Rooms
        PROVE  ShapeOf(r)
    <3>1. Seated(r) = {} /\ Present(r) = {}
      BY <2>1 DEF HubInit, EmptySeats, Seated, Present
    <3>2. QED
      BY <2>1, <3>1, FS_EmptySet DEF HubInit, EmptySeats, ShapeOf, IsEmpty
  <2>2. QED
    BY <2>1 DEF Shape
<1>2. QED
  BY <1>1, TypedAlways, ShapeStep, PTL DEF HubSpec

\* Waiting rooms are in no shape that their code does not expect, whoever
\* joins, moves, leaves and is ready meanwhile.
THEOREM RoomsInShape == HubSpec => []RoomShape
<1>1. Shape => RoomShape
  BY DEF Shape, ShapeOf, RoomShape
<1>2. QED
  BY <1>1, ShapeAlways, PTL

-----------------------------------------------------------------------------
(* Full and ready rooms are looked at.                                     *)

\* The player is about to look at the room, or to start its game.
Watches(p, r) == calls[p]["own"].pc \in {"check", "start"} /\ calls[p]["own"].room = r

Watched(r) == phase[r] = "pending" /\ AllReady(r) => \E p \in Players : Watches(p, r)

LEMMA WatchKept ==
  ASSUME NEW r \in Rooms, Watched(r),
         phase'[r] = "pending" => phase[r] = "pending",
         AllReady(r)' => AllReady(r),
         \A p \in Players : Watches(p, r) => Watches(p, r)'
  PROVE  Watched(r)'
BY DEF Watched

LEMMA WatchedAfterRequest ==
  ASSUME Typed, Shape, NEW p \in Players, Asks(p), NEW r \in Rooms, Watched(r)
  PROVE  Watched(r)'
<1> DEFINE Kept == \A q \in Players : Watches(q, r) => Watches(q, r)'
<1>1. ASSUME NEW c \in Connections, NEW call, Begins(p, c, call)
      PROVE  Kept
  <2>1. calls[p][c] = Idle /\ calls' = [calls EXCEPT ![p][c] = call]
    BY <1>1 DEF Begins
  <2>2. \A q \in Players : q # p \/ c # "own" => calls'[q]["own"] = calls[q]["own"]
    BY <2>1 DEF Typed, Connections
  <2>3. QED
    BY <2>1, <2>2 DEF Watches, Idle
<1>2. ASSUME calls' = calls
      PROVE  Kept
  BY <1>2 DEF Watches
<1>3. ASSUME NEW q \in Rooms, CreateRoom(p, q)
      PROVE  Watched(r)'
  <2>1. SeatsKept(r) /\ calls' = calls
    BY <1>3 DEF CreateRoom, SeatsKept
  <2>2. r # q => phase'[r] = phase[r]
    BY <1>3 DEF CreateRoom, Typed, HubTypeOK
  <2>3. r = q => ~AllReady(r)
    <3>1. r = q => IsEmpty(r)
      BY <1>3 DEF CreateRoom, Shape, ShapeOf
    <3>2. 1 \in SeatNumbers
      BY DEF SeatNumbers
    <3>3. QED
      BY <3>1, <3>2 DEF IsEmpty, Present, Seated, AllReady
  <2>4. QED
    BY <1>2, <2>1, <2>2, <2>3, SameSeats, WatchKept DEF Watched
<1>4. ASSUME NEW q \in Rooms, CreateSingle(p, q)
      PROVE  Watched(r)'
  <2>1. SeatsKept(r) /\ calls' = calls
    BY <1>4 DEF CreateSingle, SeatsKept, waiting
  <2>2. phase'[r] = "pending" => phase[r] = "pending"
    BY <1>4 DEF CreateSingle, Typed, HubTypeOK
  <2>3. QED
    BY <1>2, <2>1, <2>2, SameSeats, WatchKept
<1>5. ASSUME NEW q \in Rooms, ConnectRoom(p, q)
      PROVE  Watched(r)'
  <2>1. JoinPlayer(q, p) /\ phase[q] = "pending" /\ phase' = phase /\ ShapeOf(q)
    BY <1>5 DEF ConnectRoom, Shape
  <2>2. \E call : Begins(p, "own", call)
    BY <1>5 DEF ConnectRoom
  <2>3. AllReady(r)' => AllReady(r)
    BY <2>1, JoinEffect, SameSeats DEF Untouched
  <2>4. Kept
    BY <1>1, <2>2 DEF Connections
  <2>5. QED
    BY <2>1, <2>3, <2>4, WatchKept
<1>6. ASSUME UNCHANGED <<phase, waiting>>, Kept
      PROVE  Watched(r)'
  BY <1>6, SameSeats, WatchKept DEF SeatsKept, waiting
<1>7. ASSUME Disconnect(p)
      PROVE  Watched(r)'
  <2>1. \E call : Begins(p, "previous", call)
    BY <1>7 DEF Disconnect
  <2>2. QED
    BY <1>1, <1>6, <1>7, <2>1 DEF Disconnect, Connections
<1>8. CASE \/ \E q \in Rooms : ConnectGame(p, q)
           \/ Leave(p) \/ FindsRoom(p, "ready") \/ FindsRoom(p, "seat")
  <2>1. UNCHANGED <<phase, waiting>> /\ \E call : Begins(p, "own", call)
    BY <1>8 DEF ConnectGame, Leave, FindsRoom
  <2>2. QED
    BY <1>1, <1>6, <2>1 DEF Connections
<1>9. CASE Resumes(p)
  BY <1>2, <1>6, <1>9 DEF Resumes
<1>10. QED
  BY <1>3, <1>4, <1>5, <1>7, <1>8, <1>9 DEF Asks

\* A call that has lost a room still watches any other.
LEMMA StillWatches ==
  ASSUME NEW inFlight \in [Players -> [Connections -> ProperCall]], NEW q \in Rooms,
         calls' = CallsWithout(inFlight, q), NEW r \in Rooms \ {q}, NEW p \in Players,
         inFlight[p]["own"].pc \in {"check", "start"}, inFlight[p]["own"].room = r
  PROVE  Watches(p, r)'
<1>1. calls'[p]["own"] = Without(inFlight[p]["own"], q)
  BY CallsWithoutType DEF Connections
<1>2. inFlight[p]["own"] \in ProperCall
  BY DEF Connections
<1>3. QED
  BY <1>1, <1>2, WithoutFacts DEF Watches

LEMMA WatchedAfterStep ==
  ASSUME Typed, Shape, NEW p \in Players, Proceeds(p), NEW r \in Rooms, Watched(r)
  PROVE  Watched(r)'
<1> DEFINE Kept == \A q \in Players : Watches(q, r) => Watches(q, r)'
<1>0. calls \in [Players -> [Connections -> ProperCall]] /\ "own" \in Connections
  BY DEF Typed, Connections
<1>1. ASSUME NEW c \in Connections, NEW call, Continues(p, c, call),
             calls[p][c].pc \notin {"check", "start"}
      PROVE  Kept
  <2>1. \A q \in Players : q # p \/ c # "own" => calls'[q]["own"] = calls[q]["own"]
    BY <1>0, <1>1 DEF Continues
  <2>2. QED
    BY <1>1, <2>1 DEF Watches
<1>2. ASSUME NEW c \in Connections, LeavesRoom(p, c)
      PROVE  Watched(r)'
  <2>1. PICK q \in Rooms : q = calls[p][c].room
    BY <1>2 DEF Typed, LeavesRoom, ProperCall
  <2>2. PlayerLeaves(q, p) /\ UNCHANGED <<phase, elapsed, timer>> /\ ShapeOf(q)
    BY <1>2, <2>1 DEF LeavesRoom, Shape
  <2>3. AllReady(r)' => AllReady(r)
    BY <2>2, LeaveEffect, SameSeats DEF Untouched
  <2>4. Kept
    BY <1>1, <1>2 DEF LeavesRoom
  <2>5. QED
    BY <2>2, <2>3, <2>4, WatchKept
<1>3. ASSUME NEW c \in Connections, LeavesGame(p, c)
      PROVE  Watched(r)'
  <2>1. SeatsKept(r) /\ phase' = phase
    BY <1>3 DEF LeavesGame, SeatsKept, waiting
  <2>2. Kept
    BY <1>1, <1>3 DEF LeavesGame
  <2>3. QED
    BY <2>1, <2>2, SameSeats, WatchKept
<1>4. CASE ChoosesSeat(p)
  <2>1. phase' = phase /\ (AllReady(r)' => AllReady(r))
    BY <1>4, ChooseEffect DEF ChoosesSeat
  <2>2. Kept
    BY <1>0, <1>1, <1>4 DEF ChoosesSeat
  <2>3. QED
    BY <2>1, <2>2, WatchKept
<1>5. ASSUME NEW isReady \in BOOLEAN, SetsReady(p, isReady)
      PROVE  Watched(r)'
  <2>1. Kept
    BY <1>0, <1>1, <1>5 DEF SetsReady
  <2>2. phase' = phase
    BY <1>5 DEF SetsReady
  <2>3. CASE r # calls[p]["own"].room \/ ready' = ready
    <3>1. SeatsKept(r)
      BY <1>5, <2>3, ReadyEffect DEF Untouched, SeatsKept, SetsReady
    <3>2. QED
      BY <2>1, <2>2, <3>1, SameSeats, WatchKept
  <2>4. CASE r = calls[p]["own"].room /\ ready' # ready
    <3>1. calls'[p]["own"] = At("check", r)
      BY <1>0, <1>5, <2>4 DEF SetsReady, Continues
    <3>2. Watches(p, r)'
      BY <3>1 DEF At, Watches
    <3>3. QED
      BY <3>2 DEF Watched
  <2>5. QED
    BY <2>3, <2>4
<1>6. CASE ChecksRoom(p)
  <2>1. SeatsKept(r) /\ phase' = phase
    BY <1>6 DEF ChecksRoom, SeatsKept, waiting
  <2>2. \A q \in Players \ {p} : Watches(q, r) => Watches(q, r)'
    BY <1>0, <1>6 DEF ChecksRoom, Continues, Watches
  <2>3. Watches(p, r) /\ AllReady(r) => Watches(p, r)'
    BY <1>0, <1>6 DEF ChecksRoom, Continues, Watches, At
  <2>4. QED
    BY <2>1, <2>2, <2>3, SameSeats DEF Watched
<1>7. CASE StartsGame(p)
  <2>1. PICK q \in Rooms : q = calls[p]["own"].room
    BY <1>7 DEF Typed, StartsGame, ProperCall, Connections
  <2>2. CASE phase[q] = "pending" /\ AllReady(q)
    <3> DEFINE others == [calls EXCEPT ![p]["own"] = Idle]
    <3>1. /\ phase' = [phase EXCEPT ![q] = "active"]
          /\ Destroyed(q) /\ calls' = CallsWithout(others, q)
      BY <1>7, <2>1, <2>2 DEF StartsGame
    <3>2. CASE r = q
      BY <3>1, <3>2 DEF Watched, Typed, HubTypeOK
    <3>3. CASE r # q
      <4>1. SeatsKept(r) /\ phase'[r] = phase[r]
        BY <3>1, <3>3, DestroyedEffect DEF Typed, HubTypeOK
      <4>2. others \in [Players -> [Connections -> ProperCall]]
        BY <1>0, CallTypes
      <4>3. \A s \in Players : Watches(s, r) => s # p /\ others[s]["own"] = calls[s]["own"]
        BY <1>0, <2>1, <3>3 DEF Watches
      <4>4. ASSUME NEW s \in Players, Watches(s, r)
            PROVE  Watches(s, r)'
        <5>1. others[s]["own"].pc \in {"check", "start"} /\ others[s]["own"].room = r
          BY <4>3, <4>4 DEF Watches
        <5> HIDE DEF others
        <5>2. QED
          BY <3>1, <3>3, <4>2, <5>1, StillWatches
      <4>5. QED
        BY <4>1, <4>4, SameSeats, WatchKept
    <3>4. QED
      BY <3>2, <3>3
  <2>3. CASE ~(phase[q] = "pending" /\ AllReady(q))
    <3>1. SeatsKept(r) /\ phase' = phase /\ calls' = [calls EXCEPT ![p]["own"] = Idle]
      BY <1>7, <2>1, <2>3 DEF StartsGame, SeatsKept, waiting, Continues
    <3>2. \A s \in Players \ {p} : Watches(s, r) => Watches(s, r)'
      BY <1>0, <3>1 DEF Watches
    <3>3. Watches(p, r) => r = q
      BY <2>1 DEF Watches
    <3>4. QED
      BY <2>3, <3>1, <3>2, <3>3, SameSeats DEF Watched
  <2>4. QED
    BY <2>2, <2>3
<1>8. QED
  BY <1>2, <1>3, <1>4, <1>5, <1>6, <1>7 DEF Proceeds

LEMMA WatchedAfterOthers ==
  ASSUME Typed, Shape, NEW r \in Rooms, Watched(r),
         \/ \E p \in Players, q \in Rooms : GoesAway(p, q)
         \/ \E q \in Rooms : EndsOfItself(q) \/ TimerFires(q) \/ TimerCallback(q)
         \/ \E q \in Rooms : CollectGame(q) \/ SweepRoom(q)
         \/ ScanRooms
  PROVE  Watched(r)'
<1>0. calls \in [Players -> [Connections -> ProperCall]] /\ "own" \in Connections
  BY DEF Typed, Connections
<1>1. ASSUME phase' = phase, calls' = calls, SeatsKept(r)
      PROVE  Watched(r)'
  BY <1>1, SameSeats, WatchKept DEF Watches
<1>2. CASE \/ \E p \in Players, q \in Rooms : GoesAway(p, q)
           \/ \E q \in Rooms : EndsOfItself(q) \/ TimerFires(q) \/ TimerCallback(q)
           \/ ScanRooms
  BY <1>1, <1>2 DEF GoesAway, EndsOfItself, TimerFires, TimerCallback, ScanRooms, waiting, SeatsKept
<1>3. ASSUME NEW q \in Rooms, phase' = [phase EXCEPT ![q] = "none"], calls' = CallsWithout(calls, q),
             r # q => SeatsKept(r)
      PROVE  Watched(r)'
  <2>1. CASE r = q
    BY <1>3, <2>1 DEF Watched, Typed, HubTypeOK
  <2>2. CASE r # q
    <3>1. phase'[r] = phase[r]
      BY <1>3, <2>2 DEF Typed, HubTypeOK
    <3>2. \A p \in Players : Watches(p, r) => Watches(p, r)'
      BY <1>0, <1>3, <2>2, StillWatches DEF Watches
    <3>3. QED
      BY <1>3, <2>2, <3>1, <3>2, SameSeats, WatchKept
  <2>3. QED
    BY <2>1, <2>2
<1>4. ASSUME NEW q \in Rooms, CollectGame(q)
      PROVE  Watched(r)'
  <2>1. SeatsKept(r)
    BY <1>4 DEF CollectGame, waiting, SeatsKept
  <2>2. QED
    BY <1>1, <1>3, <1>4, <2>1 DEF CollectGame
<1>5. ASSUME NEW q \in Rooms, SweepRoom(q)
      PROVE  Watched(r)'
  <2>1. CASE UNCHANGED <<phase, waiting, calls>>
    BY <1>1, <2>1 DEF waiting, SeatsKept
  <2>2. CASE /\ phase' = [phase EXCEPT ![q] = "none"] /\ Destroyed(q)
             /\ calls' = CallsWithout(calls, q)
    BY <1>3, <2>2, DestroyedEffect
  <2>3. QED
    BY <1>5, <2>1, <2>2 DEF SweepRoom
<1>6. QED
  BY <1>2, <1>4, <1>5

\* A full and ready room is never forgotten: somebody is about to look at it
\* or to start its game.
THEOREM StartsNotMissed == HubSpec => []NoMissedStart
<1> DEFINE Inv == \A r \in Rooms : Watched(r)
<1>1. HubInit => Inv
  BY DEF HubInit, Watched
<1>2. Typed /\ Shape /\ Inv /\ [HubNext]_hubVars => Inv'
  <2>1. ASSUME Typed, Shape, Inv, HubNext
        PROVE  Inv'
    BY <2>1, WatchedAfterRequest, WatchedAfterStep, WatchedAfterOthers DEF HubNext
  <2>2. ASSUME Inv, UNCHANGED hubVars
        PROVE  Inv'
    BY <2>2 DEF hubVars, waiting, Watched, Watches, AllReady
  <2>3. QED
    BY <2>1, <2>2
<1>3. Inv => NoMissedStart
  BY DEF Watched, Watches, NoMissedStart
<1> HIDE DEF Inv
<1>4. QED
  BY <1>1, <1>2, <1>3, TypedAlways, ShapeAlways, PTL DEF HubSpec

-----------------------------------------------------------------------------
(* Maps, rooms and games agree.                                            *)

\* Of a player whose calls have not met: one call is in flight; the rooms and
\* games that the maps name know him, and the other way round, except for the
\* room that he is on the way out of.
Orderly(p) ==
  /\ \A c, d \in Connections : calls[p][c] # Idle /\ calls[p][d] # Idle => c = d
  /\ pendingOf[p] # NoRoom => /\ phase[pendingOf[p]] = "pending"
                              /\ p \in Present(pendingOf[p])
                              /\ activeOf[p] = NoRoom
  /\ \A r \in Rooms : p \in playing[r] <=> activeOf[p] = r
  /\ \A r \in Rooms : p \in Present(r) => pendingOf[p] = r \/ Leaving(p, r)
  /\ \A c \in Connections : calls[p][c].pc = "out" => calls[p][c].room # pendingOf[p]

PlayersOfGames == \A r \in Rooms : playing[r] # {} => phase[r] = "active"

Order == PlayersOfGames /\ \A p \in Players \ raced : Orderly(p)

\* What NoEviction says of the player.
NotEvicted(p) ==
  \A r \in Rooms :
    /\ pendingOf[p] = r /\ pendingOf'[p] = NoRoom => activeOf'[p] = r \/ Leaving(p, r)'
    /\ p \in Present(r) /\ p \notin Present(r)' => activeOf'[p] = r \/ Leaving(p, r)

OrderStep == PlayersOfGames' /\ \A p \in Players \ raced' : Orderly(p)' /\ NotEvicted(p)

\* One call of his is in flight, and none is newly on the way out of a room;
\* he stays on the way out of a room that he is in.
CallsGoOn(p) ==
  /\ \A c, d \in Connections : calls'[p][c] # Idle /\ calls'[p][d] # Idle => c = d
  /\ \A c \in Connections : calls'[p][c].pc = "out" =>
       calls[p][c].pc = "out" /\ calls'[p][c].room = calls[p][c].room
  /\ \A r \in Rooms : p \in Present(r)' /\ Leaving(p, r) => Leaving(p, r)'

LEMMA NothingHappened ==
  ASSUME NEW p \in Players, Orderly(p), CallsGoOn(p),
         pendingOf'[p] = pendingOf[p], activeOf'[p] = activeOf[p],
         pendingOf[p] # NoRoom => phase'[pendingOf[p]] = phase[pendingOf[p]],
         \A r \in Rooms : p \in playing'[r] <=> p \in playing[r],
         pendingOf[p] \in Rooms \cup {NoRoom},
         \A r \in Rooms : p \in Present(r)' => p \in Present(r),
         \A r \in Rooms : p \in Present(r) => p \in Present(r)' \/ (Leaving(p, r) /\ pendingOf[p] # r)
  PROVE  Orderly(p)' /\ NotEvicted(p)
<1>1. pendingOf'[p] # NoRoom => /\ phase'[pendingOf'[p]] = "pending"
                                /\ (p \in Present(pendingOf[p]))'
                                /\ activeOf'[p] = NoRoom
  <2>1. CASE pendingOf[p] \in Rooms
    <3>1. PICK r \in Rooms : r = pendingOf[p]
      BY <2>1
    <3>2. phase'[r] = "pending" /\ p \in Present(r)'
      BY <3>1 DEF Orderly
    <3>3. pendingOf'[p] = r
      BY <3>1
    <3>4. QED
      BY <3>1, <3>2, <3>3 DEF Orderly
  <2>2. QED
    BY <2>1
<1>2. \A c, d \in Connections : calls'[p][c] # Idle /\ calls'[p][d] # Idle => c = d
  BY DEF Orderly, CallsGoOn
<1>3. \A r \in Rooms : p \in Present(r)' => pendingOf'[p] = r \/ Leaving(p, r)'
  BY DEF Orderly, CallsGoOn
<1>4. \A c \in Connections : calls'[p][c].pc = "out" => calls'[p][c].room # pendingOf'[p]
  BY DEF Orderly, CallsGoOn
<1>5. Orderly(p)'
  BY <1>1, <1>2, <1>3, <1>4 DEF Orderly
<1>6. NotEvicted(p)
  BY DEF NotEvicted
<1>7. QED
  BY <1>5, <1>6

\* All players of a full room have a seat.
LEMMA FullRoom ==
  ASSUME Typed, NEW r \in Rooms, ShapeOf(r), AllReady(r)
  PROVE  Present(r) = Seated(r)
<1>1. CASE r \notin Duplicates
  BY <1>1 DEF ShapeOf, Present
<1>2. CASE r \in Duplicates
  <2>1. seat[r] \in Injection(SeatNumbers, members[r])
    <3>1. seat[r] \in [SeatNumbers -> members[r]]
      BY <1>2 DEF Typed, HubTypeOK, ShapeOf, AllReady, Seated
    <3>2. \A s, t \in DOMAIN seat[r] : seat[r][s] = seat[r][t] => s = t
      BY <3>1 DEF ShapeOf, AllReady
    <3>3. QED
      BY <3>1, <3>2 DEF Injection, IsInjective
  <2>2. IsFiniteSet(members[r]) /\ Cardinality(members[r]) <= SeatCount
    BY DEF ShapeOf
  <2>3. Cardinality(SeatNumbers) = SeatCount
    BY FS_Interval DEF SeatNumbers
  <2>4. Cardinality(members[r]) \in Nat
    BY <2>2, FS_CardinalityType
  <2>5. Cardinality(SeatNumbers) = Cardinality(members[r])
    BY <2>1, <2>2, <2>3, <2>4, FS_Injection
  <2>6. seat[r] \in Surjection(SeatNumbers, members[r])
    BY <2>1, <2>2, <2>5, FS_Injection
  <2>7. \A p \in members[r] : \E s \in SeatNumbers : seat[r][s] = p
    BY <2>6 DEF Surjection
  <2>8. members[r] \subseteq Seated(r)
    BY <2>7 DEF Typed, HubTypeOK, Seated
  <2>9. QED
    BY <2>8 DEF Present
<1>3. QED
  BY <1>1, <1>2

LEMMA SameWorld ==
  ASSUME Typed, Order, UNCHANGED <<phase, seat, members, playing, pendingOf, activeOf>>,
         raced \subseteq raced',
         \A p \in Players \ raced' : CallsGoOn(p)
  PROVE  OrderStep
<1>1. \A r \in Rooms : Present(r)' = Present(r)
  BY DEF Present, Seated
<1>2. ASSUME NEW p \in Players \ raced'
      PROVE  Orderly(p)' /\ NotEvicted(p)
  <2>1. Orderly(p) /\ CallsGoOn(p) /\ pendingOf[p] \in Rooms \cup {NoRoom}
    BY DEF Order, Typed, HubTypeOK
  <2>2. QED
    BY <1>1, <2>1, NothingHappened
<1>3. QED
  BY <1>2 DEF OrderStep, Order, PlayersOfGames

LEMMA SameCalls ==
  ASSUME NEW p \in Players, Orderly(p), \A c \in Connections : calls'[p][c] = calls[p][c]
  PROVE  CallsGoOn(p)
BY DEF CallsGoOn, Orderly, Leaving

\* Of a player whose calls have not met, the call that begins is the only one.
LEMMA BeginsFacts ==
  ASSUME Typed, NEW p \in Players, NEW c \in Connections, NEW call, Begins(p, c, call)
  PROVE  /\ \A q \in Players \ {p}, d \in Connections : calls'[q][d] = calls[q][d]
         /\ raced \subseteq raced'
         /\ p \notin raced' => /\ \A d \in Connections : calls[p][d] = Idle
                               /\ \A r \in Rooms : ~Leaving(p, r)
                               /\ calls'[p][c] = call
                               /\ \A d \in Connections \ {c} : calls'[p][d] = Idle
<1>1. /\ calls' = [calls EXCEPT ![p][c] = call]
      /\ raced' = IF \E d \in Connections : calls[p][d] # Idle THEN raced \cup {p} ELSE raced
  BY DEF Begins
<1>2. \A q \in Players, d \in Connections : calls'[q][d] = IF q = p /\ d = c THEN call ELSE calls[q][d]
  BY <1>1 DEF Typed
<1>3. (\A d \in Connections : calls[p][d] = Idle) => \A r \in Rooms : ~Leaving(p, r)
  BY DEF Leaving, Idle
<1>4. QED
  BY <1>1, <1>2, <1>3

LEMMA OrderAfterConnectRoom ==
  ASSUME Typed, Shape, Order, NEW p \in Players, NEW r \in Rooms, ConnectRoom(p, r)
  PROVE  OrderStep
<1> DEFINE previous == pendingOf[p]
<1>1. /\ JoinPlayer(r, p) /\ phase[r] = "pending" /\ phase' = phase /\ ShapeOf(r)
      /\ activeOf[p] = NoRoom /\ pendingOf' = [pendingOf EXCEPT ![p] = r]
      /\ UNCHANGED <<playing, activeOf>>
  BY DEF ConnectRoom, Shape, game
<1>2. PICK call : /\ Begins(p, "own", call)
                  /\ call = IF previous \in Rooms \ {r} /\ phase[previous] = "pending"
                            THEN At("out", previous) ELSE Idle
  BY DEF ConnectRoom
<1>3. Present(r)' = Present(r) \cup {p}
  BY <1>1, JoinEffect
<1>4. \A x \in Rooms \ {r} : Present(x)' = Present(x)
  BY <1>1, JoinEffect, SameSeats DEF Untouched
<1>5. /\ "own" \in Connections
      /\ \A q \in Players : pendingOf[q] \in Rooms \cup {NoRoom}
      /\ pendingOf'[p] = r
      /\ \A q \in Players \ {p} : pendingOf'[q] = pendingOf[q]
  BY <1>1 DEF Connections, Typed, HubTypeOK
<1>6. raced \subseteq raced'
  BY <1>2, <1>5, BeginsFacts
<1>7. ASSUME NEW q \in Players \ raced', q # p
      PROVE  Orderly(q)' /\ NotEvicted(q)
  <2>1. Orderly(q)
    BY <1>6 DEF Order
  <2>2. CallsGoOn(q)
    BY <1>2, <1>5, <1>7, <2>1, BeginsFacts, SameCalls
  <2>3. \A x \in Rooms : q \in Present(x)' <=> q \in Present(x)
    BY <1>3, <1>4, <1>7
  <2>4. QED
    BY <1>1, <1>5, <1>7, <2>1, <2>2, <2>3, NothingHappened
<1>8. ASSUME p \notin raced'
      PROVE  Orderly(p)' /\ NotEvicted(p)
  <2>1. Orderly(p)
    BY <1>6, <1>8 DEF Order
  <2>2. /\ \A x \in Rooms : ~Leaving(p, x)
        /\ calls'[p]["own"] = call
        /\ \A d \in Connections \ {"own"} : calls'[p][d] = Idle
    BY <1>2, <1>5, <1>8, BeginsFacts
  <2>3. \A x \in Rooms : p \in Present(x) => x = previous /\ phase[previous] = "pending"
    BY <2>1, <2>2 DEF Orderly
  <2>4. \A x \in Rooms : p \in Present(x)' => x = r \/ Leaving(p, x)'
    <3>1. ASSUME NEW x \in Rooms \ {r}, p \in Present(x)'
          PROVE  Leaving(p, x)'
      <4>1. x = previous /\ call = At("out", x)
        BY <1>2, <1>4, <2>3, <3>1
      <4>2. QED
        BY <1>5, <2>2, <4>1 DEF Leaving, At
    <3>2. QED
      BY <3>1
  <2>5. \A c \in Connections : calls'[p][c].pc = "out" => calls'[p][c].room # r
    BY <1>2, <2>2 DEF Idle, At
  <2>6. \A c, d \in Connections : calls'[p][c] # Idle /\ calls'[p][d] # Idle => c = d
    BY <2>2
  <2>7. (p \in Present(r))'
    BY <1>3
  <2>8. \A x \in Rooms : p \in playing'[x] <=> activeOf'[p] = x
    BY <1>1, <2>1 DEF Orderly
  <2>9. Orderly(p)'
    <3>1. pendingOf'[p] # NoRoom => /\ phase'[pendingOf'[p]] = "pending"
                                    /\ (p \in Present(pendingOf[p]))'
                                    /\ activeOf'[p] = NoRoom
      BY <1>1, <1>5, <2>7
    <3>2. QED
      BY <1>5, <2>4, <2>5, <2>6, <2>8, <3>1 DEF Orderly
  <2>10. NotEvicted(p)
    BY <1>3, <1>4, <1>5 DEF NotEvicted
  <2>11. QED
    BY <2>9, <2>10
<1>9. PlayersOfGames'
  BY <1>1 DEF Order, PlayersOfGames
<1>10. QED
  BY <1>7, <1>8, <1>9 DEF OrderStep

\* A player who gives up waiting, at his request or as his last connection
\* closes, is on the way out of his room.
LEMMA OrderAfterLeaving ==
  ASSUME Typed, Shape, Order, NEW p \in Players, NEW c \in Connections, NEW call,
         Begins(p, c, call),
         pendingOf' = [pendingOf EXCEPT ![p] = NoRoom],
         UNCHANGED <<phase, seat, members, playing, activeOf>>,
         pendingOf[p] \in Rooms /\ phase[pendingOf[p]] = "pending" =>
            call.pc = "out" /\ call.room = pendingOf[p],
         call.pc = "out" => call.room \in Rooms
  PROVE  OrderStep
<1>1. \A r \in Rooms : Present(r)' = Present(r)
  BY DEF Present, Seated
<1>2. /\ \A q \in Players : pendingOf[q] \in Rooms \cup {NoRoom}
      /\ pendingOf'[p] = NoRoom
      /\ \A q \in Players \ {p} : pendingOf'[q] = pendingOf[q]
  BY DEF Typed, HubTypeOK
<1>3. raced \subseteq raced'
  BY BeginsFacts
<1>4. ASSUME NEW q \in Players \ raced', q # p
      PROVE  Orderly(q)' /\ NotEvicted(q)
  <2>1. Orderly(q)
    BY <1>3 DEF Order
  <2>2. CallsGoOn(q)
    BY <1>4, <2>1, BeginsFacts, SameCalls
  <2>3. QED
    BY <1>1, <1>2, <1>4, <2>1, <2>2, NothingHappened
<1>5. ASSUME p \notin raced'
      PROVE  Orderly(p)' /\ NotEvicted(p)
  <2>1. Orderly(p)
    BY <1>3, <1>5 DEF Order
  <2>2. /\ \A x \in Rooms : ~Leaving(p, x)
        /\ calls'[p][c] = call
        /\ \A d \in Connections \ {c} : calls'[p][d] = Idle
    BY <1>5, BeginsFacts
  <2>3. ASSUME NEW x \in Rooms, pendingOf[p] = x
        PROVE  Leaving(p, x)'
    <3>1. phase[x] = "pending"
      BY <2>1, <2>3 DEF Orderly
    <3>2. call.pc = "out" /\ call.room = x
      BY <2>3, <3>1
    <3>3. QED
      BY <2>2, <3>2 DEF Leaving
  <2>4. \A x \in Rooms : p \in Present(x)' => Leaving(p, x)'
    BY <1>1, <2>1, <2>2, <2>3 DEF Orderly
  <2>5. \A d \in Connections : calls'[p][d].pc = "out" => calls'[p][d].room # pendingOf'[p]
    BY <1>2, <2>2 DEF Idle
  <2>6. \A d, e \in Connections : calls'[p][d] # Idle /\ calls'[p][e] # Idle => d = e
    BY <2>2
  <2>7. \A x \in Rooms : p \in playing'[x] <=> activeOf'[p] = x
    BY <2>1 DEF Orderly
  <2>8. Orderly(p)'
    BY <1>2, <2>4, <2>5, <2>6, <2>7 DEF Orderly
  <2>9. NotEvicted(p)
    BY <1>1, <2>3 DEF NotEvicted
  <2>10. QED
    BY <2>8, <2>9
<1>6. QED
  BY <1>4, <1>5 DEF OrderStep, Order, PlayersOfGames

LEMMA OrderAfterCreate ==
  ASSUME Typed, Shape, Order, NEW p \in Players, NEW r \in Rooms,
         CreateRoom(p, r) \/ CreateSingle(p, r)
  PROVE  OrderStep
<1>1. /\ UNCHANGED <<seat, ready, members, calls, pendingOf, raced>>
      /\ phase[r] = "none" /\ pendingOf[p] = NoRoom /\ activeOf[p] = NoRoom
      /\ \A x \in Rooms \ {r} : phase'[x] = phase[x]
  BY DEF CreateRoom, CreateSingle, waiting, maps, Typed, HubTypeOK
<1>2. \A x \in Rooms : Present(x)' = Present(x)
  BY <1>1 DEF Present, Seated
<1>3. playing[r] = {} /\ \A q \in Players \ raced : pendingOf[q] # r
  BY <1>1 DEF Order, PlayersOfGames, Orderly
<1>4. \/ phase'[r] = "pending" /\ UNCHANGED <<playing, activeOf>>
      \/ /\ phase'[r] = "active"
         /\ playing'[r] = {p} /\ \A x \in Rooms \ {r} : playing'[x] = playing[x]
         /\ activeOf'[p] = r /\ \A q \in Players \ {p} : activeOf'[q] = activeOf[q]
  BY DEF CreateRoom, CreateSingle, game, maps, Typed, HubTypeOK
<1>5. PlayersOfGames'
  BY <1>1, <1>3, <1>4 DEF Order, PlayersOfGames
<1>6. ASSUME NEW q \in Players \ raced', q # p \/ activeOf' = activeOf
      PROVE  Orderly(q)' /\ NotEvicted(q)
  <2>1. Orderly(q) /\ pendingOf[q] \in Rooms \cup {NoRoom} /\ pendingOf[q] # r
    BY <1>1, <1>3 DEF Order, Typed, HubTypeOK
  <2>2. CallsGoOn(q)
    BY <1>1, <2>1, SameCalls
  <2>3. activeOf'[q] = activeOf[q] /\ \A x \in Rooms : q \in playing'[x] <=> q \in playing[x]
    <3>1. CASE UNCHANGED <<playing, activeOf>>
      BY <3>1
    <3>2. CASE playing'[r] = {p} /\ q # p
      BY <1>3, <1>4, <3>2
    <3>3. QED
      BY <1>1, <1>4, <1>6, <3>1, <3>2
  <2>4. QED
    BY <1>1, <1>2, <2>1, <2>2, <2>3, NothingHappened
<1>7. ASSUME p \notin raced', phase'[r] = "active"
      PROVE  Orderly(p)' /\ NotEvicted(p)
  <2>1. Orderly(p)
    BY <1>1, <1>7 DEF Order
  <2>2. \A x \in Rooms : p \in playing'[x] <=> activeOf'[p] = x
    BY <1>1, <1>4, <1>7, <2>1 DEF Orderly
  <2>3. Orderly(p)'
    BY <1>1, <1>2, <2>1, <2>2 DEF Orderly, Leaving
  <2>4. NotEvicted(p)
    BY <1>1, <1>2, RoomsAssumption DEF NotEvicted
  <2>5. QED
    BY <2>3, <2>4
<1>8. QED
  BY <1>4, <1>5, <1>6, <1>7 DEF OrderStep

LEMMA OrderAfterRequest ==
  ASSUME Typed, Shape, Order, NEW p \in Players, Asks(p)
  PROVE  OrderStep
<1>1. "own" \in Connections /\ "previous" \in Connections
  BY DEF Connections
<1>2. ASSUME NEW r \in Rooms, ConnectGame(p, r)
      PROVE  OrderStep
  <2>1. /\ Begins(p, "own", Idle) /\ p \in playing[r] /\ activeOf[p] \in {NoRoom, r}
        /\ activeOf' = [activeOf EXCEPT ![p] = r]
        /\ UNCHANGED <<phase, seat, members, playing, pendingOf>>
    BY <1>2 DEF ConnectGame, waiting, game
  <2>2. raced \subseteq raced'
    BY <1>1, <2>1, BeginsFacts
  <2>3. ASSUME NEW q \in Players \ raced'
        PROVE  Orderly(q)' /\ NotEvicted(q)
    <3>1. Orderly(q) /\ pendingOf[q] \in Rooms \cup {NoRoom}
      BY <2>2 DEF Order, Typed, HubTypeOK
    <3>2. \A c \in Connections : calls'[q][c] = calls[q][c]
      BY <1>1, <2>1, <2>3, BeginsFacts
    <3>3. CallsGoOn(q)
      BY <3>1, <3>2, SameCalls
    <3>4. activeOf'[q] = activeOf[q]
      BY <2>1, <3>1 DEF Orderly, Typed, HubTypeOK
    <3>5. \A x \in Rooms : Present(x)' = Present(x)
      BY <2>1 DEF Present, Seated
    <3>6. QED
      BY <2>1, <3>1, <3>3, <3>4, <3>5, NothingHappened
  <2>4. QED
    BY <2>1, <2>3 DEF OrderStep, Order, PlayersOfGames
<1>3. ASSUME Leave(p)
      PROVE  OrderStep
  <2>1. PICK call : /\ Begins(p, "own", call)
                    /\ call = IF phase[pendingOf[p]] = "pending" THEN At("out", pendingOf[p]) ELSE Idle
    BY <1>3 DEF Leave
  <2>2. /\ pendingOf' = [pendingOf EXCEPT ![p] = NoRoom]
        /\ UNCHANGED <<phase, seat, members, playing, activeOf>>
        /\ pendingOf[p] \in Rooms
    BY <1>3 DEF Leave, waiting, game, Typed, HubTypeOK
  <2>3. QED
    BY <1>1, <2>1, <2>2, OrderAfterLeaving DEF At, Idle
<1>4. ASSUME Disconnect(p)
      PROVE  OrderStep
  <2>1. /\ pendingOf' = [pendingOf EXCEPT ![p] = NoRoom]
        /\ UNCHANGED <<phase, seat, members, playing, activeOf>>
    BY <1>4 DEF Disconnect, waiting, game
  <2>2. PICK call : /\ Begins(p, "previous", call)
                    /\ IF pendingOf[p] \in Rooms /\ phase[pendingOf[p]] = "pending"
                       THEN call.pc = "out" /\ call.room = pendingOf[p]
                       ELSE call.pc # "out"
    <3> DEFINE room == IF pendingOf[p] \in Rooms /\ phase[pendingOf[p]] = "pending"
                       THEN pendingOf[p] ELSE NoRoom
               match == IF activeOf[p] \in Rooms /\ phase[activeOf[p]] = "active"
                        THEN activeOf[p] ELSE NoRoom
               call == IF room # NoRoom THEN [pc |-> "out", room |-> room, game |-> match]
                       ELSE IF match # NoRoom THEN [pc |-> "away", room |-> NoRoom, game |-> match]
                       ELSE Idle
    <3>1. Begins(p, "previous", call)
      BY <1>4 DEF Disconnect
    <3>2. CASE pendingOf[p] \in Rooms /\ phase[pendingOf[p]] = "pending"
      BY <3>1, <3>2
    <3>3. CASE ~(pendingOf[p] \in Rooms /\ phase[pendingOf[p]] = "pending")
      BY <3>1, <3>3 DEF Idle
    <3>4. QED
      BY <3>2, <3>3
  <2>3. QED
    BY <1>1, <2>1, <2>2, OrderAfterLeaving
<1>5. ASSUME NEW pc \in {"ready", "seat"}, FindsRoom(p, pc)
      PROVE  OrderStep
  <2>1. /\ Begins(p, "own", At(pc, pendingOf[p]))
        /\ UNCHANGED <<phase, seat, members, playing, pendingOf, activeOf>>
    BY <1>5 DEF FindsRoom, waiting, game, maps
  <2>2. raced \subseteq raced'
    BY <1>1, <2>1, BeginsFacts
  <2>3. ASSUME NEW q \in Players \ raced'
        PROVE  CallsGoOn(q)
    <3>1. CASE q # p
      BY <1>1, <2>1, <2>2, <2>3, <3>1, BeginsFacts, SameCalls DEF Order
    <3>2. CASE q = p
      BY <1>1, <2>1, <2>3, <3>2, BeginsFacts DEF CallsGoOn, At, Idle
    <3>3. QED
      BY <3>1, <3>2
  <2>4. QED
    BY <2>1, <2>2, <2>3, SameWorld
<1>6. ASSUME Resumes(p)
      PROVE  OrderStep
  <2>1. UNCHANGED <<phase, seat, members, playing, pendingOf, activeOf, calls, raced>>
    BY <1>6 DEF Resumes, waiting, maps
  <2>2. QED
    BY <2>1, SameWorld, SameCalls DEF Order
<1>7. QED
  BY <1>2, <1>3, <1>4, <1>5, <1>6, OrderAfterCreate, OrderAfterConnectRoom DEF Asks

\* Calls that lose a room go on otherwise.
LEMMA RoomLost ==
  ASSUME NEW inFlight \in [Players -> [Connections -> ProperCall]], NEW r \in Rooms,
         calls' = CallsWithout(inFlight, r), NEW p \in Players, Orderly(p),
         \A c \in Connections : inFlight[p][c] = calls[p][c]
                                \/ (inFlight[p][c] = Idle /\ calls[p][c].pc # "out"),
         p \notin Present(r)'
  PROVE  CallsGoOn(p)
<1>1. ASSUME NEW c \in Connections
      PROVE  /\ calls[p][c] = Idle => calls'[p][c] = Idle
             /\ calls'[p][c].pc = "out" =>
                  calls[p][c].pc = "out" /\ calls'[p][c].room = calls[p][c].room
             /\ calls[p][c].pc = "out" /\ calls[p][c].room # r =>
                  calls'[p][c].pc = "out" /\ calls'[p][c].room = calls[p][c].room
  <2>1. calls'[p][c] = Without(inFlight[p][c], r) /\ inFlight[p][c] \in ProperCall
    BY CallsWithoutType
  <2>2. CASE inFlight[p][c] = calls[p][c]
    BY <2>1, <2>2, WithoutFacts
  <2>3. CASE inFlight[p][c] = Idle /\ calls[p][c].pc # "out"
    BY <2>1, <2>3, WithoutFacts DEF Idle
  <2>4. QED
    BY <2>2, <2>3
<1>2. \A c, d \in Connections : calls'[p][c] # Idle /\ calls'[p][d] # Idle => c = d
  BY <1>1 DEF Orderly
<1>3. \A x \in Rooms : p \in Present(x)' /\ Leaving(p, x) => Leaving(p, x)'
  BY <1>1 DEF Leaving
<1>4. QED
  BY <1>1, <1>2, <1>3 DEF CallsGoOn

LEMMA OrderAfterStart ==
  ASSUME Typed, Shape, Order, NEW p \in Players, StartsGame(p)
  PROVE  OrderStep
<1>1. PICK r \in Rooms : r = calls[p]["own"].room
  BY DEF Typed, StartsGame, ProperCall, Connections
<1>2. calls \in [Players -> [Connections -> ProperCall]] /\ "own" \in Connections
  BY DEF Typed, Connections
<1>3. CASE ~(phase[r] = "pending" /\ AllReady(r))
  <2>1. /\ calls' = [calls EXCEPT ![p]["own"] = Idle]
        /\ UNCHANGED <<phase, seat, members, playing, pendingOf, activeOf, raced>>
    BY <1>1, <1>3 DEF StartsGame, Continues, waiting, maps
  <2>2. ASSUME NEW q \in Players \ raced
        PROVE  CallsGoOn(q)
    <3>1. Orderly(q)
      BY DEF Order
    <3>2. \A c \in Connections : calls'[q][c] = IF q = p /\ c = "own" THEN Idle ELSE calls[q][c]
      BY <1>2, <2>1
    <3>3. calls[p]["own"].pc = "start"
      BY DEF StartsGame
    <3>4. QED
      BY <3>1, <3>2, <3>3 DEF CallsGoOn, Orderly, Leaving, Idle
  <2>3. QED
    BY <2>1, <2>2, SameWorld
<1>4. CASE phase[r] = "pending" /\ AllReady(r)
  <2> DEFINE others == [calls EXCEPT ![p]["own"] = Idle]
  <2>1. /\ phase' = [phase EXCEPT ![r] = "active"]
        /\ playing' = [playing EXCEPT ![r] = Seated(r)]
        /\ pendingOf' = [q \in Players |-> IF q \in Seated(r) THEN NoRoom ELSE pendingOf[q]]
        /\ activeOf' = [q \in Players |-> IF q \in Seated(r) THEN r ELSE activeOf[q]]
        /\ Destroyed(r)
        /\ calls' = CallsWithout(others, r)
        /\ raced' = raced \cup {q \in Seated(r) : Leaving(q, r)}
    BY <1>1, <1>4 DEF StartsGame
  <2>2. Present(r) = Seated(r)
    BY <1>4, FullRoom DEF Shape
  <2>3. /\ Present(r)' = {}
        /\ \A x \in Rooms \ {r} : Present(x)' = Present(x)
    BY <2>1, DestroyedEffect, SameSeats
  <2>4. /\ phase'[r] = "active" /\ \A x \in Rooms \ {r} : phase'[x] = phase[x]
        /\ playing[r] = {} /\ playing'[r] = Seated(r)
        /\ \A x \in Rooms \ {r} : playing'[x] = playing[x]
    BY <1>4, <2>1 DEF Typed, HubTypeOK, Order, PlayersOfGames
  <2>5. PlayersOfGames'
    BY <2>4 DEF Order, PlayersOfGames
  <2>6. ASSUME NEW q \in Players \ raced'
        PROVE  Orderly(q)' /\ NotEvicted(q)
    <3>1. /\ Orderly(q) /\ pendingOf[q] \in Rooms \cup {NoRoom}
          /\ q \in Seated(r) => ~Leaving(q, r)
      BY <2>1 DEF Order, Typed, HubTypeOK
    <3>2. CallsGoOn(q)
      <4>1. others \in [Players -> [Connections -> ProperCall]]
        BY <1>2, CallTypes
      <4>2. \A c \in Connections : others[q][c] = calls[q][c]
                                   \/ (others[q][c] = Idle /\ calls[q][c].pc # "out")
        BY <1>2 DEF StartsGame
      <4> HIDE DEF others
      <4>3. QED
        BY <2>1, <2>3, <3>1, <4>1, <4>2, RoomLost
    <3>3. CASE q \notin Seated(r)
      <4>1. pendingOf'[q] = pendingOf[q] /\ activeOf'[q] = activeOf[q] /\ pendingOf[q] # r
        BY <2>1, <2>2, <3>1, <3>3 DEF Orderly
      <4>2. \A x \in Rooms : q \in playing'[x] <=> q \in playing[x]
        BY <2>4, <3>3
      <4>3. \A x \in Rooms : q \in Present(x)' <=> q \in Present(x)
        BY <2>2, <2>3, <3>3
      <4>4. QED
        BY <2>4, <3>1, <3>2, <4>1, <4>2, <4>3, NothingHappened
    <3>4. CASE q \in Seated(r)
      <4>1. pendingOf[q] = r /\ activeOf[q] = NoRoom
        BY <2>2, <3>1, <3>4 DEF Orderly
      <4>2. pendingOf'[q] = NoRoom /\ activeOf'[q] = r
        BY <2>1, <3>4
      <4>3. \A x \in Rooms : q \in playing'[x] <=> activeOf'[q] = x
        BY <2>4, <3>1, <3>4, <4>1, <4>2 DEF Orderly
      <4>4. \A x \in Rooms : q \in Present(x)' => Leaving(q, x)'
        BY <2>3, <3>1, <3>2, <4>1 DEF Orderly, CallsGoOn
      <4>5. \A c \in Connections : calls'[q][c].pc = "out" => calls'[q][c].room # NoRoom
        BY <1>2, <3>2 DEF CallsGoOn, ProperCall
      <4>6. Orderly(q)'
        BY <3>2, <4>2, <4>3, <4>4, <4>5 DEF Orderly, CallsGoOn
      <4>7. NotEvicted(q)
        BY <2>3, <4>1, <4>2 DEF NotEvicted
      <4>8. QED
        BY <4>6, <4>7
    <3>5. QED
      BY <3>3, <3>4
  <2>7. QED
    BY <2>5, <2>6 DEF OrderStep
<1>5. QED
  BY <1>3, <1>4

LEMMA OrderAfterStep ==
  ASSUME Typed, Shape, Order, NEW p \in Players, Proceeds(p)
  PROVE  OrderStep
<1>0. calls \in [Players -> [Connections -> ProperCall]] /\ "own" \in Connections
  BY DEF Typed, Connections
<1>1. ASSUME NEW c \in Connections, LeavesRoom(p, c)
      PROVE  OrderStep
  <2>1. PICK r \in Rooms : r = calls[p][c].room
    BY <1>1 DEF Typed, LeavesRoom, ProperCall
  <2>2. /\ PlayerLeaves(r, p) /\ UNCHANGED <<phase, elapsed, timer>> /\ ShapeOf(r)
        /\ calls[p][c].pc = "out" /\ Leaving(p, r)
        /\ UNCHANGED <<playing, pendingOf, activeOf, raced>>
    BY <1>1, <2>1 DEF LeavesRoom, Shape, Leaving, game, maps
  <2>3. PICK call : calls' = [calls EXCEPT ![p][c] = call] /\ call.pc # "out"
    <3> DEFINE next == IF calls[p][c].game = NoRoom THEN Idle
                       ELSE [pc |-> "away", room |-> NoRoom, game |-> calls[p][c].game]
    <3>1. next.pc # "out"
      BY DEF Idle
    <3>2. calls' = [calls EXCEPT ![p][c] = next]
      BY <1>1 DEF LeavesRoom, Continues
    <3> HIDE DEF next
    <3>3. QED
      BY <3>1, <3>2
  <2>4. \A q \in Players, d \in Connections :
          calls'[q][d] = IF q = p /\ d = c THEN call ELSE calls[q][d]
    BY <1>0, <2>3
  <2>5. /\ Present(r)' = Present(r) \ {p}
        /\ \A x \in Rooms \ {r} : Present(x)' = Present(x)
    BY <2>2, LeaveEffect, SameSeats DEF Untouched
  <2>6. ASSUME NEW q \in Players \ raced'
        PROVE  Orderly(q)' /\ NotEvicted(q)
    <3>1. Orderly(q) /\ pendingOf[q] \in Rooms \cup {NoRoom}
      BY <2>2 DEF Order, Typed, HubTypeOK
    <3>2. CASE q # p
      <4>1. CallsGoOn(q)
        BY <2>4, <3>1, <3>2, SameCalls
      <4>2. \A x \in Rooms : q \in Present(x)' <=> q \in Present(x)
        BY <2>5, <3>2
      <4>3. QED
        BY <2>2, <3>1, <4>1, <4>2, NothingHappened
    <3>3. CASE q = p
      <4>1. pendingOf[p] # r
        BY <2>1, <2>2, <3>1, <3>3 DEF Orderly
      <4>2. \A d, e \in Connections : calls'[p][d] # Idle /\ calls'[p][e] # Idle => d = e
        BY <2>2, <2>4, <3>1, <3>3 DEF Orderly, Idle
      <4>3. \A d \in Connections : calls'[p][d].pc = "out" =>
              calls[p][d].pc = "out" /\ calls'[p][d].room = calls[p][d].room
        BY <2>3, <2>4
      <4>4. \A x \in Rooms : p \in Present(x)' /\ Leaving(p, x) => Leaving(p, x)'
        <5>1. ASSUME NEW x \in Rooms, p \in Present(x)', Leaving(p, x)
              PROVE  Leaving(p, x)'
          <6>1. x # r
            BY <2>5, <5>1
          <6>2. QED
            BY <2>1, <2>4, <5>1, <6>1 DEF Leaving
        <5>2. QED
          BY <5>1
      <4>5. CallsGoOn(p)
        BY <4>2, <4>3, <4>4 DEF CallsGoOn
      <4>6. \A x \in Rooms : /\ p \in Present(x)' => p \in Present(x)
                             /\ p \in Present(x) => p \in Present(x)' \/ x = r
        BY <2>5
      <4>7. QED
        BY <2>2, <3>1, <3>3, <4>1, <4>5, <4>6, NothingHappened
    <3>4. QED
      BY <3>2, <3>3
  <2>7. QED
    BY <2>2, <2>6 DEF OrderStep, Order, PlayersOfGames
<1>2. ASSUME NEW c \in Connections, NEW call, Continues(p, c, call), call.pc # "out",
             calls[p][c].pc \notin {"idle", "out"}, raced' = raced, NEW q \in Players \ raced
      PROVE  CallsGoOn(q)
  <2>1. Orderly(q)
    BY DEF Order
  <2>2. \A s \in Players, d \in Connections :
          calls'[s][d] = IF s = p /\ d = c THEN call ELSE calls[s][d]
    BY <1>0, <1>2 DEF Continues
  <2>3. \A d, e \in Connections : calls'[q][d] # Idle /\ calls'[q][e] # Idle => d = e
    BY <1>2, <2>1, <2>2 DEF Orderly, Idle
  <2>4. \A d \in Connections : calls'[q][d].pc = "out" =>
          calls[q][d].pc = "out" /\ calls'[q][d].room = calls[q][d].room
    BY <1>2, <2>2
  <2>5. \A x \in Rooms : Leaving(q, x) => Leaving(q, x)'
    BY <1>2, <2>2 DEF Leaving
  <2>6. QED
    BY <2>3, <2>4, <2>5 DEF CallsGoOn
<1>3. ASSUME NEW c \in Connections, LeavesGame(p, c)
      PROVE  OrderStep
  <2>1. UNCHANGED <<phase, seat, members, playing, pendingOf, activeOf, raced>>
    BY <1>3 DEF LeavesGame, waiting, maps
  <2>2. \A q \in Players \ raced : CallsGoOn(q)
    BY <1>2, <1>3, <2>1 DEF LeavesGame, Idle
  <2>3. QED
    BY <2>1, <2>2, SameWorld
<1>4. CASE ChoosesSeat(p)
  <2>1. UNCHANGED <<phase, playing, pendingOf, activeOf, raced>>
    BY <1>4 DEF ChoosesSeat, game, maps
  <2>2. \A x \in Rooms : Present(x)' = Present(x)
    BY <1>4, ChooseEffect
  <2>3. ASSUME NEW q \in Players \ raced'
        PROVE  Orderly(q)' /\ NotEvicted(q)
    <3>1. Orderly(q) /\ pendingOf[q] \in Rooms \cup {NoRoom}
      BY <2>1 DEF Order, Typed, HubTypeOK
    <3>2. CallsGoOn(q)
      BY <1>0, <1>2, <1>4, <2>1 DEF ChoosesSeat, Idle
    <3>3. QED
      BY <2>1, <2>2, <3>1, <3>2, NothingHappened
  <2>4. QED
    BY <2>1, <2>3 DEF OrderStep, Order, PlayersOfGames
<1>5. ASSUME NEW isReady \in BOOLEAN, SetsReady(p, isReady)
      PROVE  OrderStep
  <2>1. UNCHANGED <<phase, seat, members, playing, pendingOf, activeOf, raced>>
    BY <1>5 DEF SetsReady, game, maps
  <2>2. PICK call : Continues(p, "own", call) /\ call.pc # "out"
    BY <1>5 DEF SetsReady, At, Idle
  <2>3. \A q \in Players \ raced : CallsGoOn(q)
    BY <1>0, <1>2, <1>5, <2>1, <2>2 DEF SetsReady
  <2>4. QED
    BY <2>1, <2>3, SameWorld
<1>6. CASE ChecksRoom(p)
  <2>1. UNCHANGED <<phase, seat, members, playing, pendingOf, activeOf, raced>>
    BY <1>6 DEF ChecksRoom, waiting, game, maps
  <2>2. PICK call : Continues(p, "own", call) /\ call.pc # "out"
    BY <1>6 DEF ChecksRoom, At, Idle
  <2>3. \A q \in Players \ raced : CallsGoOn(q)
    BY <1>0, <1>2, <1>6, <2>1, <2>2 DEF ChecksRoom
  <2>4. QED
    BY <2>1, <2>3, SameWorld
<1>7. QED
  BY <1>1, <1>3, <1>4, <1>5, <1>6, OrderAfterStart DEF Proceeds

LEMMA OrderAfterOthers ==
  ASSUME Typed, Shape, Order,
         \/ \E p \in Players, r \in Rooms : GoesAway(p, r)
         \/ \E r \in Rooms : EndsOfItself(r) \/ TimerFires(r) \/ TimerCallback(r)
         \/ \E r \in Rooms : CollectGame(r) \/ SweepRoom(r)
         \/ ScanRooms
  PROVE  OrderStep
<1>0. calls \in [Players -> [Connections -> ProperCall]]
  BY DEF Typed
<1>1. ASSUME UNCHANGED <<phase, seat, members, playing, pendingOf, activeOf, calls, raced>>
      PROVE  OrderStep
  BY <1>1, SameWorld, SameCalls DEF Order
<1>2. ASSUME NEW p \in Players, NEW r \in Rooms, GoesAway(p, r)
      PROVE  OrderStep
  BY <1>1, <1>2 DEF GoesAway, waiting, maps
<1>3. ASSUME NEW r \in Rooms, EndsOfItself(r) \/ TimerFires(r) \/ TimerCallback(r)
      PROVE  OrderStep
  BY <1>1, <1>3 DEF EndsOfItself, TimerFires, TimerCallback, waiting, game, maps
<1>4. CASE ScanRooms
  BY <1>1, <1>4 DEF ScanRooms, game, maps
<1>5. ASSUME NEW r \in Rooms, CollectGame(r)
      PROVE  OrderStep
  <2>1. CASE course[r] = "ended"
    <3>1. /\ phase[r] = "active"
          /\ phase' = [phase EXCEPT ![r] = "none"]
          /\ playing' = [playing EXCEPT ![r] = {}]
          /\ activeOf' = [p \in Players |-> IF activeOf[p] = r THEN NoRoom ELSE activeOf[p]]
          /\ calls' = CallsWithout(calls, r)
          /\ UNCHANGED <<seat, members, pendingOf, raced>>
      BY <1>5, <2>1 DEF CollectGame, waiting
    <3>2. /\ \A x \in Rooms \ {r} : phase'[x] = phase[x] /\ playing'[x] = playing[x]
          /\ playing'[r] = {}
      BY <3>1 DEF Typed, HubTypeOK
    <3>3. \A x \in Rooms : Present(x)' = Present(x)
      BY <3>1 DEF Present, Seated
    <3>4. Present(r) = {}
      BY <3>1 DEF Shape, ShapeOf, IsEmpty
    <3>5. ASSUME NEW q \in Players \ raced'
          PROVE  Orderly(q)' /\ NotEvicted(q)
      <4>1. Orderly(q) /\ pendingOf[q] \in Rooms \cup {NoRoom}
        BY <3>1 DEF Order, Typed, HubTypeOK
      <4>2. CallsGoOn(q)
        BY <1>0, <3>1, <3>3, <3>4, <4>1, RoomLost
      <4>3. pendingOf[q] # r /\ pendingOf'[q] = pendingOf[q]
        BY <3>1, <4>1 DEF Orderly
      <4>4. activeOf'[q] = IF activeOf[q] = r THEN NoRoom ELSE activeOf[q]
        BY <3>1
      <4>5. \A x \in Rooms : q \in playing'[x] <=> activeOf'[q] = x
        BY <3>2, <4>1, <4>4 DEF Orderly
      <4>6. \A x \in Rooms : q \in Present(x)' => pendingOf'[q] = x \/ Leaving(q, x)'
        BY <3>3, <4>1, <4>2, <4>3 DEF Orderly, CallsGoOn
      <4>7. \A c \in Connections : calls'[q][c].pc = "out" => calls'[q][c].room # pendingOf'[q]
        BY <4>1, <4>2, <4>3 DEF Orderly, CallsGoOn
      <4>8. pendingOf'[q] # NoRoom => /\ phase'[pendingOf'[q]] = "pending"
                                      /\ (q \in Present(pendingOf[q]))'
                                      /\ activeOf'[q] = NoRoom
        <5>1. CASE pendingOf[q] \in Rooms
          <6>1. PICK x \in Rooms : x = pendingOf[q]
            BY <5>1
          <6>2. phase'[x] = "pending" /\ q \in Present(x)' /\ pendingOf'[q] = x
            BY <3>2, <3>3, <4>1, <4>3, <6>1 DEF Orderly
          <6>3. QED
            BY <4>1, <4>4, <6>1, <6>2 DEF Orderly
        <5>2. QED
          BY <4>1, <4>3, <5>1
      <4>9. Orderly(q)'
        BY <4>2, <4>5, <4>6, <4>7, <4>8 DEF Orderly, CallsGoOn
      <4>10. NotEvicted(q)
        BY <3>3, <4>3 DEF NotEvicted
      <4>11. QED
        BY <4>9, <4>10
    <3>6. QED
      BY <3>2, <3>5 DEF OrderStep, Order, PlayersOfGames
  <2>2. CASE course[r] # "ended"
    BY <1>1, <1>5, <2>2 DEF CollectGame, waiting
  <2>3. QED
    BY <2>1, <2>2
<1>6. ASSUME NEW r \in Rooms, SweepRoom(r)
      PROVE  OrderStep
  <2>1. CASE ~(phase[r] = "pending" /\ IsEmpty(r) /\ elapsed[r])
    BY <1>1, <1>6, <2>1 DEF SweepRoom, waiting, game
  <2>2. CASE phase[r] = "pending" /\ IsEmpty(r) /\ elapsed[r]
    <3>1. /\ phase' = [phase EXCEPT ![r] = "none"]
          /\ pendingOf' = [p \in Players |-> IF pendingOf[p] = r THEN NoRoom ELSE pendingOf[p]]
          /\ Destroyed(r)
          /\ calls' = CallsWithout(calls, r)
          /\ UNCHANGED <<playing, activeOf, raced>>
      BY <1>6, <2>2 DEF SweepRoom, game
    <3>2. \A x \in Rooms \ {r} : phase'[x] = phase[x]
      BY <3>1 DEF Typed, HubTypeOK
    <3>3. Present(r) = {} /\ \A x \in Rooms : Present(x)' = Present(x)
      BY <2>2, <3>1, DestroyedEffect, SameSeats DEF IsEmpty
    <3>4. ASSUME NEW q \in Players \ raced'
          PROVE  Orderly(q)' /\ NotEvicted(q)
      <4>1. Orderly(q) /\ pendingOf[q] \in Rooms \cup {NoRoom}
        BY <3>1 DEF Order, Typed, HubTypeOK
      <4>2. CallsGoOn(q)
        BY <1>0, <3>1, <3>3, <4>1, RoomLost
      <4>3. pendingOf[q] # r /\ pendingOf'[q] = pendingOf[q]
        BY <3>1, <3>3, <4>1 DEF Orderly
      <4>4. QED
        BY <3>1, <3>2, <3>3, <4>1, <4>2, <4>3, NothingHappened
    <3>5. PlayersOfGames'
      BY <2>2, <3>1, <3>2 DEF Order, PlayersOfGames
    <3>6. QED
      BY <3>4, <3>5 DEF OrderStep
  <2>3. QED
    BY <2>1, <2>2
<1>7. QED
  BY <1>2, <1>3, <1>4, <1>5, <1>6

LEMMA OrderHeld == Typed /\ Shape /\ Order /\ [HubNext]_hubVars => OrderStep
<1>1. ASSUME Typed, Shape, Order, HubNext
      PROVE  OrderStep
  BY <1>1, OrderAfterRequest, OrderAfterStep, OrderAfterOthers DEF HubNext
<1>2. ASSUME Typed, Order, UNCHANGED hubVars
      PROVE  OrderStep
  BY <1>2, SameWorld, SameCalls DEF Order, hubVars, waiting, game, maps
<1>3. QED
  BY <1>1, <1>2

LEMMA OrderAlways == HubSpec => []Order
<1>1. HubInit => Order
  <2>1. ASSUME HubInit, NEW p \in Players
        PROVE  Orderly(p)
    <3>1. \A r \in Rooms : Present(r) = {}
      BY <2>1 DEF HubInit, EmptySeats, Seated, Present
    <3>2. QED
      BY <2>1, <3>1 DEF HubInit, Orderly, Idle
  <2>2. HubInit => PlayersOfGames
    BY DEF HubInit, PlayersOfGames
  <2>3. QED
    BY <2>1, <2>2 DEF Order
<1>2. OrderStep => Order'
  BY DEF OrderStep, Order
<1>3. QED
  BY <1>1, <1>2, OrderHeld, TypedAlways, ShapeAlways, PTL DEF HubSpec

\* The maps of the hub tell the truth of every player whose calls have not met.
THEOREM MapsTellTheTruth == HubSpec => []MapsAgree
<1>1. Order => MapsAgree
  BY DEF Order, Orderly, MapsAgree
<1>2. QED
  BY <1>1, OrderAlways, PTL

\* Nobody whose calls have not met keeps a seat in a room that he left.
THEOREM NoGhosts == HubSpec => []NoGhostSeat
<1>1. Order => NoGhostSeat
  BY DEF Order, Orderly, NoGhostSeat
<1>2. QED
  BY <1>1, OrderAlways, PTL

\* No step of the collector, or of another player, evicts a player who waits.
THEOREM NobodyEvicted == HubSpec => NoEviction
<1> DEFINE A == \A p \in Players \ raced', r \in Rooms :
                  /\ pendingOf[p] = r /\ pendingOf'[p] = NoRoom => activeOf'[p] = r \/ Leaving(p, r)'
                  /\ p \in Present(r) /\ p \notin Present(r)' => activeOf'[p] = r \/ Leaving(p, r)
<1>1. Typed /\ Shape /\ Order /\ [HubNext]_hubVars => [A]_hubVars
  BY OrderHeld DEF OrderStep, NotEvicted
<1> HIDE DEF A
<1>2. HubSpec => [][A]_hubVars
  BY <1>1, TypedAlways, ShapeAlways, OrderAlways, PTL DEF HubSpec
<1>3. QED
  BY <1>2 DEF A, NoEviction

=============================================================================
