-------------------------------- MODULE Hub --------------------------------
(* The game hub: waiting rooms (PendingSession), the games they become, the   *)
(* two maps from players to rooms and games, and the collector that removes   *)
(* empty rooms, deserted games and ended games. Calls arrive on the threads   *)
(* of the players' connections. A call takes the mutex of the hub to look up  *)
(* or to change the maps, releases it, and goes on with the room or the game  *)
(* it has found through a raw pointer, so one call is several steps here. A   *)
(* player's calls follow one another on his connection, except that the close *)
(* of his previous connection may run beside them.                            *)
(*                                                                            *)
(* A game is what the hub sees of it: who plays, who is away, whether it has  *)
(* ended; Session models its inside. Left out: the lobby's lists and who      *)
(* receives them (browsing_players_), and the number a duplicate game takes   *)
(* from its seed list (module DuplicateGames). What a call does with a room   *)
(* that has been destroyed since it was found is undefined in the code; here  *)
(* the call changes nothing more there.                                       *)
EXTENDS Naturals, FiniteSets

CONSTANTS
    Players,     \* human players
    Rooms,       \* session ids; an id may be drawn again once it is free
    Duplicates,  \* ids that are used for duplicate games
    SeatCount,   \* seats of a room (4 in the code)
    MaxCalls,    \* bound: calls in flight at once
    MaxRaced,    \* bound: players whose calls meet
    Nobody,      \* an empty seat
    NoRoom       \* no session

ASSUME BoundAssumption == MaxCalls \in Nat /\ MaxRaced \in Nat
ASSUME SeatCountAssumption == SeatCount \in Nat \ {0}
ASSUME PlayersAssumption == Nobody \notin Players
ASSUME RoomsAssumption ==
    NoRoom \notin Rooms /\ Duplicates \subseteq Rooms

VARIABLES
    phase,      \* room -> no session, a waiting room, or a game
    seat,       \* waiting room -> seat -> player
    ready,      \* waiting room -> seats whose player is ready
    members,    \* duplicate waiting room -> players in it, with or without a seat
    elapsed,    \* waiting room -> its time-out while empty has elapsed
    timer,      \* waiting room -> its timer is armed, its callback is firing
    playing,    \* game -> players
    away,       \* game -> players who are afk or disconnected
    course,     \* game -> goes on, goes on but the collector has noted that all
                \* are away (active_session_all_afk_since_ms_), has ended
    pendingOf,  \* player_pending_sessions_
    activeOf,   \* player_active_sessions_
    calls,      \* player -> connection -> the call in flight
    swept,      \* waiting rooms that the collector has found expired
    raced       \* history: players some call of whom met another of their calls,
                \* or whose room started while they were on the way out of it

waiting == <<seat, ready, members, elapsed, timer>>
game == <<playing, away, course>>
maps == <<pendingOf, activeOf>>
hubVars == <<phase, waiting, game, maps, calls, swept, raced>>

-----------------------------------------------------------------------------
SeatNumbers == 1..SeatCount
Connections == {"own", "previous"}

Call == [pc : {"idle", "ready", "seat", "check", "start", "out", "away"},
         room : Rooms \cup {NoRoom}, game : Rooms \cup {NoRoom}]

Idle == [pc |-> "idle", room |-> NoRoom, game |-> NoRoom]
At(pc, r) == [pc |-> pc, room |-> r, game |-> NoRoom]

EmptySeats == [s \in SeatNumbers |-> Nobody]

HubTypeOK ==
    /\ phase \in [Rooms -> {"none", "pending", "active"}]
    /\ seat \in [Rooms -> [SeatNumbers -> Players \cup {Nobody}]]
    /\ ready \in [Rooms -> SUBSET SeatNumbers]
    /\ members \in [Rooms -> SUBSET Players]
    /\ elapsed \in [Rooms -> BOOLEAN]
    /\ timer \in [Rooms -> SUBSET {"armed", "firing"}]
    /\ playing \in [Rooms -> SUBSET Players]
    /\ away \in [Rooms -> SUBSET Players]
    /\ course \in [Rooms -> {"on", "deserted", "ended"}]
    /\ pendingOf \in [Players -> Rooms \cup {NoRoom}]
    /\ activeOf \in [Players -> Rooms \cup {NoRoom}]
    /\ calls \in [Players -> [Connections -> Call]]
    /\ swept \in SUBSET Rooms
    /\ raced \in SUBSET Players

HubInit ==
    /\ phase = [r \in Rooms |-> "none"]
    /\ seat = [r \in Rooms |-> EmptySeats]
    /\ ready = [r \in Rooms |-> {}]
    /\ members = [r \in Rooms |-> {}]
    /\ elapsed = [r \in Rooms |-> FALSE]
    /\ timer = [r \in Rooms |-> {}]
    /\ playing = [r \in Rooms |-> {}]
    /\ away = [r \in Rooms |-> {}]
    /\ course = [r \in Rooms |-> "on"]
    /\ pendingOf = [p \in Players |-> NoRoom]
    /\ activeOf = [p \in Players |-> NoRoom]
    /\ calls = [p \in Players |-> [c \in Connections |-> Idle]]
    /\ swept = {}
    /\ raced = {}

-----------------------------------------------------------------------------
(* Waiting rooms                                                             *)

Seated(r) == {seat[r][s] : s \in SeatNumbers} \ {Nobody}
Present(r) == Seated(r) \cup members[r]
IsEmpty(r) == Present(r) = {}
AllReady(r) == \A s \in SeatNumbers : seat[r][s] # Nobody /\ s \in ready[r]

SeatsOf(r, p) == {s \in SeatNumbers : seat[r][s] = p}

\* A player who is in the room joins it again; another needs room.
CanJoin(r, p) ==
    IF r \in Duplicates
    THEN p \in members[r] \/ Cardinality(members[r]) < SeatCount
    ELSE p \in Seated(r) \/ SeatsOf(r, Nobody) # {}

\* In an ordinary room who joins takes the first free seat; in a duplicate
\* room the members choose their seats. Whoever joins again is not ready.
JoinPlayer(r, p) ==
    /\ CanJoin(r, p)
    /\ IF r \in Duplicates \/ p \in Seated(r)
       THEN UNCHANGED seat
       ELSE \E s \in SeatsOf(r, Nobody) :
              /\ \A t \in SeatsOf(r, Nobody) : s <= t
              /\ seat' = [seat EXCEPT ![r][s] = p]
    /\ ready' = [ready EXCEPT ![r] = @ \ SeatsOf(r, p)]
    /\ members' = [members EXCEPT ![r] = IF r \in Duplicates THEN @ \cup {p} ELSE @]
    /\ elapsed' = [elapsed EXCEPT ![r] = FALSE]
    /\ timer' = [timer EXCEPT ![r] = @ \ {"armed"}]

\* The player gives up his seat and, in a duplicate room, his membership.
PlayerLeaves(r, p) ==
    /\ seat' = [seat EXCEPT ![r] = [s \in SeatNumbers |-> IF @[s] = p THEN Nobody ELSE @[s]]]
    /\ ready' = [ready EXCEPT ![r] = @ \ SeatsOf(r, p)]
    /\ members' = [members EXCEPT ![r] = @ \ {p}]

\* A duplicate room asks a member, one who wants to be ready also for his seat.
MayBeReady(r, p, isReady) ==
    IF r \in Duplicates
    THEN p \in members[r] /\ (isReady => p \in Seated(r))
    ELSE p \in Seated(r)

\* The waiting room is destroyed, its timer is joined.
Destroyed(r) ==
    /\ seat' = [seat EXCEPT ![r] = EmptySeats]
    /\ ready' = [ready EXCEPT ![r] = {}]
    /\ members' = [members EXCEPT ![r] = {}]
    /\ elapsed' = [elapsed EXCEPT ![r] = FALSE]
    /\ timer' = [timer EXCEPT ![r] = {}]

\* A call that had found it through the hub has nothing left to do there; one
\* that is to start a game has only the id.
Without(call, r) ==
    LET waits == call.room = r /\ call.pc # "start"
        match == IF call.game = r THEN NoRoom ELSE call.game
    IN  IF ~waits /\ call.game # r THEN call
        ELSE IF match # NoRoom THEN [pc |-> "away", room |-> NoRoom, game |-> match]
        ELSE IF waits \/ call.pc = "away" THEN Idle ELSE [call EXCEPT !.game = NoRoom]

CallsWithout(inFlight, r) ==
    [p \in Players |-> [c \in Connections |-> Without(inFlight[p][c], r)]]

\* The player is on the way out of the room: only player_leaves is missing.
Leaving(p, r) == \E c \in Connections : calls[p][c].pc = "out" /\ calls[p][c].room = r

AllAway(r) == playing[r] \subseteq away[r]

InFlight == {pc \in Players \X Connections : calls[pc[1]][pc[2]] # Idle}

\* A call begins on the player's connection, or as its predecessor closes.
Begins(p, c, call) ==
    LET meets == \E d \in Connections : calls[p][d] # Idle
    IN  /\ calls[p][c] = Idle
        /\ call # Idle => Cardinality(InFlight) < MaxCalls
        /\ meets => Cardinality(raced \cup {p}) <= MaxRaced
        /\ calls' = [calls EXCEPT ![p][c] = call]
        /\ raced' = IF meets THEN raced \cup {p} ELSE raced

Continues(p, c, call) == calls' = [calls EXCEPT ![p][c] = call]

-----------------------------------------------------------------------------
(* Requests and messages of players                                          *)

\* create_session for several players: the room waits, empty, its timer runs.
CreateRoom(p, r) ==
    /\ pendingOf[p] = NoRoom /\ activeOf[p] = NoRoom
    /\ phase[r] = "none"
    /\ phase' = [phase EXCEPT ![r] = "pending"]
    /\ timer' = [timer EXCEPT ![r] = {"armed"}]
    /\ UNCHANGED <<seat, ready, members, elapsed, game, maps, calls, swept, raced>>

\* create_session for a single player: the other seats are stand-ins.
CreateSingle(p, r) ==
    /\ pendingOf[p] = NoRoom /\ activeOf[p] = NoRoom
    /\ phase[r] = "none" /\ r \notin Duplicates
    /\ phase' = [phase EXCEPT ![r] = "active"]
    /\ playing' = [playing EXCEPT ![r] = {p}]
    /\ activeOf' = [activeOf EXCEPT ![p] = r]
    /\ UNCHANGED <<waiting, away, course, pendingOf, calls, swept, raced>>

\* connect_player or session.join with the id of a game: only who plays there.
ConnectGame(p, r) ==
    /\ phase[r] = "active"
    /\ activeOf[p] \in {NoRoom, r}
    /\ p \in playing[r]
    /\ Begins(p, "own", Idle)
    /\ activeOf' = [activeOf EXCEPT ![p] = r]
    /\ UNCHANGED <<phase, waiting, game, pendingOf, swept>>

\* Mutant: the player does not leave his previous room.
ConnectRoomToo(p, r) ==
    /\ phase[r] = "pending"
    /\ activeOf[p] = NoRoom
    /\ JoinPlayer(r, p)
    /\ pendingOf' = [pendingOf EXCEPT ![p] = r]
    /\ Begins(p, "own", Idle)
    /\ UNCHANGED <<phase, game, activeOf, swept>>

\* connect_player or session.join with the id of a waiting room. The player is
\* in the new room and in the map; he leaves the previous room afterwards.
ConnectRoom(p, r) ==
    LET previous == pendingOf[p]
    IN  /\ phase[r] = "pending"
        /\ activeOf[p] = NoRoom
        /\ JoinPlayer(r, p)
        /\ pendingOf' = [pendingOf EXCEPT ![p] = r]
        /\ IF previous \in Rooms \ {r} /\ phase[previous] = "pending"
           THEN Begins(p, "own", At("out", previous))
           ELSE Begins(p, "own", Idle)
        /\ UNCHANGED <<phase, game, activeOf, swept>>

\* session.leave: not while the player is in a game.
Leave(p) ==
    /\ activeOf[p] = NoRoom
    /\ pendingOf[p] # NoRoom
    /\ pendingOf' = [pendingOf EXCEPT ![p] = NoRoom]
    /\ IF phase[pendingOf[p]] = "pending"
       THEN Begins(p, "own", At("out", pendingOf[p]))
       ELSE Begins(p, "own", Idle)
    /\ UNCHANGED <<phase, waiting, game, activeOf, swept>>

\* disconnect_player, when the last connection of the player has closed: out of
\* his waiting room, and his game is told.
Disconnect(p) ==
    LET room == IF pendingOf[p] \in Rooms /\ phase[pendingOf[p]] = "pending"
                THEN pendingOf[p] ELSE NoRoom
        match == IF activeOf[p] \in Rooms /\ phase[activeOf[p]] = "active"
                 THEN activeOf[p] ELSE NoRoom
    IN  /\ pendingOf' = [pendingOf EXCEPT ![p] = NoRoom]
        /\ Begins(p, "previous",
                  IF room # NoRoom THEN [pc |-> "out", room |-> room, game |-> match]
                  ELSE IF match # NoRoom THEN [pc |-> "away", room |-> NoRoom, game |-> match]
                  ELSE Idle)
        /\ UNCHANGED <<phase, waiting, game, activeOf, swept>>

\* player_leaves of the waiting room, after the mutex of the hub is released.
LeavesRoom(p, c) ==
    LET call == calls[p][c]
    IN  /\ call.pc = "out"
        /\ PlayerLeaves(call.room, p)
        /\ Continues(p, c, IF call.game = NoRoom THEN Idle
                           ELSE [pc |-> "away", room |-> NoRoom, game |-> call.game])
        /\ UNCHANGED <<phase, elapsed, timer, game, maps, swept, raced>>

\* player_leaves of the game.
LeavesGame(p, c) ==
    LET call == calls[p][c]
    IN  /\ call.pc = "away"
        /\ away' = IF p \in playing[call.game] /\ course[call.game] # "ended"
                   THEN [away EXCEPT ![call.game] = @ \cup {p}] ELSE away
        /\ Continues(p, c, Idle)
        /\ UNCHANGED <<phase, waiting, playing, course, maps, swept, raced>>

\* queue.ready and queue.choose_seat find the room under the mutex of the hub.
FindsRoom(p, pc) ==
    /\ pendingOf[p] # NoRoom
    /\ phase[pendingOf[p]] = "pending"
    /\ pc = "seat" => pendingOf[p] \in Duplicates
    /\ Begins(p, "own", At(pc, pendingOf[p]))
    /\ UNCHANGED <<phase, waiting, game, maps, swept>>

\* Mutant: the player keeps the seat he had.
ChoosesSeatToo(p) ==
    LET r == calls[p]["own"].room
    IN  /\ calls[p]["own"].pc = "seat"
        /\ p \in members[r]
        /\ \E s \in SeatsOf(r, Nobody) : /\ seat' = [seat EXCEPT ![r][s] = p]
                                       /\ ready' = [ready EXCEPT ![r] = @ \ {s}]
        /\ Continues(p, "own", Idle)
        /\ UNCHANGED <<phase, members, elapsed, timer, game, maps, swept, raced>>

\* choose_seat: gives the seat back, or moves to a free one; never ready there.
ChoosesSeat(p) ==
    LET r == calls[p]["own"].room
    IN  /\ calls[p]["own"].pc = "seat"
        /\ \/ /\ p \in members[r]
              /\ \E s \in SeatNumbers :
                   /\ seat[r][s] \in {p, Nobody}
                   /\ seat' = [seat EXCEPT ![r] =
                                 [t \in SeatNumbers |-> IF t = s /\ @[s] = Nobody THEN p
                                                  ELSE IF @[t] = p THEN Nobody ELSE @[t]]]
                   /\ ready' = [ready EXCEPT ![r] = @ \ ({s} \cup SeatsOf(r, p))]
           \/ UNCHANGED <<seat, ready>>
        /\ Continues(p, "own", Idle)
        /\ UNCHANGED <<phase, members, elapsed, timer, game, maps, swept, raced>>

\* Mutant: whether all are ready is read before this player is.
SetsReadyLate(p, isReady) ==
    LET r == calls[p]["own"].room
    IN  /\ calls[p]["own"].pc = "ready"
        /\ IF MayBeReady(r, p, isReady)
           THEN /\ ready' = [ready EXCEPT ![r] = IF isReady THEN @ \cup SeatsOf(r, p)
                                                 ELSE @ \ SeatsOf(r, p)]
                /\ Continues(p, "own", IF AllReady(r) THEN At("check", r) ELSE Idle)
           ELSE /\ UNCHANGED ready
                /\ Continues(p, "own", Idle)
        /\ UNCHANGED <<phase, seat, members, elapsed, timer, game, maps, swept, raced>>

\* player_ready of the waiting room.
SetsReady(p, isReady) ==
    LET r == calls[p]["own"].room
    IN  /\ calls[p]["own"].pc = "ready"
        /\ IF MayBeReady(r, p, isReady)
           THEN /\ ready' = [ready EXCEPT ![r] = IF isReady THEN @ \cup SeatsOf(r, p)
                                                 ELSE @ \ SeatsOf(r, p)]
                /\ Continues(p, "own", At("check", r))
           ELSE /\ UNCHANGED ready
                /\ Continues(p, "own", Idle)
        /\ UNCHANGED <<phase, seat, members, elapsed, timer, game, maps, swept, raced>>

\* Full and all ready, as read without the mutex of the hub: start the game.
ChecksRoom(p) ==
    LET r == calls[p]["own"].room
    IN  /\ calls[p]["own"].pc = "check"
        /\ Continues(p, "own", IF AllReady(r) THEN At("start", r) ELSE Idle)
        /\ UNCHANGED <<phase, waiting, game, maps, swept, raced>>

\* Mutant: the players are still known to wait.
StartsGameWaiting(p) ==
    LET r == calls[p]["own"].room
    IN  /\ calls[p]["own"].pc = "start"
        /\ IF phase[r] = "pending" /\ AllReady(r)
           THEN /\ phase' = [phase EXCEPT ![r] = "active"]
                /\ playing' = [playing EXCEPT ![r] = Seated(r)]
                /\ activeOf' = [q \in Players |-> IF q \in Seated(r) THEN r ELSE activeOf[q]]
                /\ Destroyed(r)
                /\ calls' = CallsWithout([calls EXCEPT ![p]["own"] = Idle], r)
                /\ raced' = raced \cup {q \in Seated(r) : Leaving(q, r)}
           ELSE /\ Continues(p, "own", Idle)
                /\ UNCHANGED <<phase, waiting, playing, activeOf, raced>>
        /\ UNCHANGED <<pendingOf, away, course, swept>>

\* start_active_session finds and checks the room again under the mutex.
StartsGame(p) ==
    LET r == calls[p]["own"].room
    IN  /\ calls[p]["own"].pc = "start"
        /\ IF phase[r] = "pending" /\ AllReady(r)
           THEN /\ phase' = [phase EXCEPT ![r] = "active"]
                /\ playing' = [playing EXCEPT ![r] = Seated(r)]
                /\ pendingOf' = [q \in Players |->
                                   IF q \in Seated(r) THEN NoRoom ELSE pendingOf[q]]
                /\ activeOf' = [q \in Players |-> IF q \in Seated(r) THEN r ELSE activeOf[q]]
                /\ Destroyed(r)
                /\ calls' = CallsWithout([calls EXCEPT ![p]["own"] = Idle], r)
                /\ raced' = raced \cup {q \in Seated(r) : Leaving(q, r)}
           ELSE /\ Continues(p, "own", Idle)
                /\ UNCHANGED <<phase, waiting, playing, maps, raced>>
        /\ UNCHANGED <<away, course, swept>>

-----------------------------------------------------------------------------
(* Games, as the hub sees them. Who is away matters until the game has ended. *)

\* The player misses his decisions and is afk.
GoesAway(p, r) ==
    /\ p \in playing[r] \ away[r] /\ course[r] # "ended"
    /\ away' = [away EXCEPT ![r] = @ \cup {p}]
    /\ UNCHANGED <<phase, waiting, playing, course, maps, calls, swept, raced>>

\* resume.ack of a player of the game.
Resumes(p) ==
    LET r == activeOf[p]
    IN  /\ r # NoRoom /\ phase[r] = "active"
        /\ p \in away[r] /\ course[r] # "ended"
        /\ away' = [away EXCEPT ![r] = @ \ {p}]
        /\ UNCHANGED <<phase, waiting, playing, course, maps, calls, swept, raced>>

EndsOfItself(r) ==
    /\ phase[r] = "active" /\ course[r] # "ended"
    /\ course' = [course EXCEPT ![r] = "ended"]
    /\ UNCHANGED <<phase, waiting, playing, away, maps, calls, swept, raced>>

-----------------------------------------------------------------------------
(* The timer of an empty room                                                *)

\* The worker takes the callback out of the timer, which then is not running.
TimerFires(r) ==
    /\ timer[r] = {"armed"}
    /\ timer' = [timer EXCEPT ![r] = {"firing"}]
    /\ UNCHANGED <<phase, seat, ready, members, elapsed, game, maps, calls, swept, raced>>

\* The callback has the mutex of the room.
TimerCallback(r) ==
    /\ "firing" \in timer[r]
    /\ timer' = [timer EXCEPT ![r] = @ \ {"firing"}]
    /\ elapsed' = [elapsed EXCEPT ![r] = @ \/ IsEmpty(r)]
    /\ UNCHANGED <<phase, seat, ready, members, game, maps, calls, swept, raced>>

-----------------------------------------------------------------------------
(* The collector looks at every game and every room once a second. Games and  *)
(* rooms do not depend on one another, so that each has a step of its own     *)
(* here. How long dead_time and afk_tolerance_ms are is left open: the step   *)
(* that finds the time over may come at any time.                            *)

\* Mutant: every look starts the tolerance anew.
CollectGameAnew(r) ==
    /\ phase[r] = "active"
    /\ IF course[r] = "ended"
       THEN /\ phase' = [phase EXCEPT ![r] = "none"]
            /\ playing' = [playing EXCEPT ![r] = {}]
            /\ away' = [away EXCEPT ![r] = {}]
            /\ course' = [course EXCEPT ![r] = "on"]
            /\ activeOf' = [p \in Players |-> IF activeOf[p] = r THEN NoRoom ELSE activeOf[p]]
            /\ calls' = CallsWithout(calls, r)
       ELSE /\ course' = [course EXCEPT ![r] = IF AllAway(r) THEN "deserted" ELSE "on"]
            /\ UNCHANGED <<phase, playing, away, activeOf, calls>>
    /\ UNCHANGED <<waiting, pendingOf, swept, raced>>

\* garbage_collect_active_sessions: an ended game goes after dead_time, a game
\* that all have deserted is noted and ended after the tolerance.
CollectGame(r) ==
    /\ phase[r] = "active"
    /\ IF course[r] = "ended"
       THEN /\ phase' = [phase EXCEPT ![r] = "none"]
            /\ playing' = [playing EXCEPT ![r] = {}]
            /\ away' = [away EXCEPT ![r] = {}]
            /\ course' = [course EXCEPT ![r] = "on"]
            /\ activeOf' = [p \in Players |-> IF activeOf[p] = r THEN NoRoom ELSE activeOf[p]]
            /\ calls' = CallsWithout(calls, r)
       ELSE /\ course' = [course EXCEPT ![r] = IF ~AllAway(r) THEN "on"
                                              ELSE IF @ = "on" THEN "deserted" ELSE "ended"]
            /\ UNCHANGED <<phase, playing, away, activeOf, calls>>
    /\ UNCHANGED <<waiting, pendingOf, swept, raced>>

\* Mutant: a timer that was stopped is not started again.
ScanRoomsOnce ==
    LET rooms == {r \in Rooms : phase[r] = "pending"}
    IN  /\ swept = {}
        /\ swept' = {r \in rooms : IsEmpty(r) /\ elapsed[r]}
        /\ elapsed' = [r \in Rooms |-> elapsed[r] /\ IsEmpty(r)]
        /\ timer' = [r \in Rooms |-> IF IsEmpty(r) THEN timer[r] ELSE timer[r] \ {"armed"}]
        /\ UNCHANGED <<phase, seat, ready, members, game, maps, calls, raced>>

\* The first half of garbage_collect_pending_sessions, under the shared mutex:
\* the timers of empty rooms run, those of the others stop.
ScanRooms ==
    LET rooms == {r \in Rooms : phase[r] = "pending"}
    IN  /\ swept = {}
        /\ swept' = {r \in rooms : IsEmpty(r) /\ elapsed[r]}
        /\ elapsed' = [r \in Rooms |-> elapsed[r] /\ IsEmpty(r)]
        /\ timer' = [r \in Rooms |->
                       IF r \notin rooms \/ (IsEmpty(r) /\ elapsed[r]) THEN timer[r]
                       ELSE IF IsEmpty(r) THEN timer[r] \cup {"armed"} ELSE timer[r] \ {"armed"}]
        /\ UNCHANGED <<phase, seat, ready, members, game, maps, calls, raced>>

\* Mutant: the room is not looked at again.
SweepRoomBlindly(r) ==
    /\ r \in swept
    /\ swept' = swept \ {r}
    /\ IF phase[r] = "pending"
       THEN /\ phase' = [phase EXCEPT ![r] = "none"]
            /\ pendingOf' = [p \in Players |-> IF pendingOf[p] = r THEN NoRoom ELSE pendingOf[p]]
            /\ Destroyed(r)
            /\ calls' = CallsWithout(calls, r)
       ELSE UNCHANGED <<phase, waiting, pendingOf, calls>>
    /\ UNCHANGED <<game, activeOf, raced>>

\* The second half: an expired room is looked at again under the mutex, since
\* players may have come, before it goes.
SweepRoom(r) ==
    /\ r \in swept
    /\ swept' = swept \ {r}
    /\ IF phase[r] = "pending" /\ IsEmpty(r) /\ elapsed[r]
       THEN /\ phase' = [phase EXCEPT ![r] = "none"]
            /\ pendingOf' = [p \in Players |-> IF pendingOf[p] = r THEN NoRoom ELSE pendingOf[p]]
            /\ Destroyed(r)
            /\ calls' = CallsWithout(calls, r)
       ELSE UNCHANGED <<phase, waiting, pendingOf, calls>>
    /\ UNCHANGED <<game, activeOf, raced>>

-----------------------------------------------------------------------------
Proceeds(p) ==
    \/ \E c \in Connections : LeavesRoom(p, c) \/ LeavesGame(p, c)
    \/ ChoosesSeat(p)
    \/ \E isReady \in BOOLEAN : SetsReady(p, isReady)
    \/ ChecksRoom(p)
    \/ StartsGame(p)

Asks(p) ==
    \/ \E r \in Rooms : CreateRoom(p, r) \/ CreateSingle(p, r)
    \/ \E r \in Rooms : ConnectGame(p, r) \/ ConnectRoom(p, r)
    \/ Leave(p)
    \/ Disconnect(p)
    \/ FindsRoom(p, "ready")
    \/ FindsRoom(p, "seat")
    \/ Resumes(p)

HubNext ==
    \/ \E p \in Players : Asks(p) \/ Proceeds(p)
    \/ \E p \in Players, r \in Rooms : GoesAway(p, r)
    \/ \E r \in Rooms : EndsOfItself(r) \/ TimerFires(r) \/ TimerCallback(r)
    \/ \E r \in Rooms : CollectGame(r) \/ SweepRoom(r)
    \/ ScanRooms

\* The collector and the calls in flight run on, and timers fire; nobody has to
\* call.
HubFairness ==
    /\ WF_hubVars(ScanRooms)
    /\ \A p \in Players : WF_hubVars(Proceeds(p))
    /\ \A r \in Rooms : /\ WF_hubVars(CollectGame(r))
                        /\ WF_hubVars(SweepRoom(r))
                        /\ WF_hubVars(TimerFires(r))
                        /\ WF_hubVars(TimerCallback(r))

HubSpec == HubInit /\ [][HubNext]_hubVars
HubFairSpec == HubSpec /\ HubFairness

-----------------------------------------------------------------------------
(* Properties                                                                *)

\* A waiting room is never in a shape that its code does not expect, whoever
\* joins, moves, leaves or is ready meanwhile: no player has two seats, only
\* taken seats are ready, the seats of a duplicate room belong to its members,
\* who are never more than its seats, and only waiting rooms have any of it.
RoomShape ==
    \A r \in Rooms :
      /\ \A s, t \in SeatNumbers : seat[r][s] # Nobody /\ seat[r][s] = seat[r][t] => s = t
      /\ \A s \in ready[r] : seat[r][s] # Nobody
      /\ r \in Duplicates => Seated(r) \subseteq members[r]
      /\ Cardinality(members[r]) <= SeatCount
      /\ phase[r] # "pending" => IsEmpty(r) /\ ~elapsed[r] /\ timer[r] = {}

\* The maps of the hub tell the truth of a player none of whose calls met
\* another: the room or game they name exists and he is in it, every game he
\* plays in is named, and he is never both waiting and playing. The code
\* changes maps and rooms under different mutexes, in several steps.
MapsAgree ==
    \A p \in Players \ raced :
      /\ pendingOf[p] # NoRoom => /\ phase[pendingOf[p]] = "pending"
                                  /\ p \in Present(pendingOf[p])
                                  /\ activeOf[p] = NoRoom
      /\ \A r \in Rooms : p \in playing[r] <=> activeOf[p] = r

\* Nobody keeps a ghost seat: a player in a waiting room is known to wait
\* there, or a call in flight is about to take him out.
NoGhostSeat ==
    \A p \in Players \ raced, r \in Rooms :
      p \in Present(r) => pendingOf[p] = r \/ Leaving(p, r)

\* A full and ready room never waits for nothing: whoever made it ready, or
\* another, is about to look and start the game.
NoMissedStart ==
    \A r \in Rooms :
      phase[r] = "pending" /\ AllReady(r) =>
        \E p \in Players : calls[p]["own"].pc \in {"check", "start"} /\ calls[p]["own"].room = r

\* Nobody is evicted: whoever the hub stops knowing to wait in a room, or whom
\* the room loses, is in its game or leaves it at his own request or with his
\* last connection; the collector, which decides on a room before it removes
\* it, and calls of other players never put him out.
NoEviction ==
  [][\A p \in Players \ raced', r \in Rooms :
       /\ pendingOf[p] = r /\ pendingOf'[p] = NoRoom => activeOf'[p] = r \/ Leaving(p, r)'
       /\ p \in Present(r) /\ p \notin Present(r)' => activeOf'[p] = r \/ Leaving(p, r)]_hubVars

\* An empty waiting room goes, or somebody enters it, although timer and
\* collector stop and arm each other's work.
EmptyRoomsGo ==
    \A r \in Rooms :
      phase[r] = "pending" /\ IsEmpty(r) ~> phase[r] # "pending" \/ ~IsEmpty(r)

\* A game that everybody has deserted is ended, and an ended game is removed,
\* unless somebody comes back before its end.
DesertedGamesGo ==
    \A r \in Rooms :
      LET gone == AllAway(r) \/ course[r] = "ended"
      IN  phase[r] = "active" /\ gone ~> phase[r] # "active" \/ ~gone

=============================================================================
