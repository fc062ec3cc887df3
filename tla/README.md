# mmcr14.online in TLA+

A verification development for the game server of mmcr14.online: TLA+ models of
its concurrent parts, TLC configurations that check them on small instances, and
theorems that hold for every value of the constants, checked by TLAPS. All
source paths are relative to `src/backend/src/`.

## 1. The system

Four players sit at a table and play rounds of MMCR mahjong. A server process
keeps waiting rooms and running games in memory, talks to browsers over
WebSockets, and stores accounts, ratings, records and statistics in SQLite.

| Component | State | Operations | Interacts with |
|---|---|---|---|
| **Active session** (`game/engine/session.cc`, `session.h`) | four seats (player, hand, melds, discards, score, afk counter, options, decision window), the transition to come, the queues of events and transitions, one transition timer, four timers for delayed starts, the recording | `execute_transition` (15 kinds), `handle_event` (9 kinds), `player_leaves`, `player_resumes`, `set_abandoned`, `end_session` | timers (callbacks from their worker threads), hub (routes messages, collects), record manager, seed lists |
| **Delivery policies** (`game/engine/session_messages.cc`) | none | which seat sees a transition when, and which seat gets a decision window | called by the session |
| **Round recording** (`game/engine/session_recording.cc`) | start snapshot, saved flag | capture, enqueue | record manager |
| **Timer** (`game/engine/timer.cc`) | deadline, callback, running and stop flags, one worker thread | `set`, `set_extend`, `set_shrink`, `setExpiryTime`, `stop` | runs callbacks without its own mutex |
| **Wall, duplicate wall** (`game/engine/wall.cc`, `duplicate_wall.cc`) | 136 tiles in 68 stacks, indices of the ends | `prepare`, `draw_front`, `draw_back`, `draw` | drawn from by a session |
| **Game hub** (`game/hub/hub.cc`, `hub_gc.cc`) | maps of pending and active sessions, of players to sessions, known players, ids | create, connect, disconnect, route a message, start, complete; a collector thread | pending and active sessions, sockets, seed lists |
| **Waiting room** (`game/hub/pending_session.cc`) | four seats, ready flags, timer of an empty room | join, choose seat, leave, ready, collect | hub |
| **Seed lists of duplicate games** (`duplicate/manager.cc`) | seeds, counters of live sessions, staged records (in SQLite) | start and end session, stage a record, release, start-up repair | hub, session, record queue |
| **Record queue** (`storage/game_record.cc`) | queue, worker thread, shutdown flag | enqueue, shutdown, write and notify | session, statistics, seed lists |
| **Sockets** (`server/runtime_state.cc`, `ws_controllers.cc`) | the list of open connections, by player and route | open, speak, close, evict older connections of the player | hub (connect, disconnect) |
| **Hands for spectators** (`server/ws_controllers.cc`) | requests under way, approvals | ask, answer, time out, revoke, refresh | sockets, active session |
| **Statistics** (`stats/*.cc`, `server/ws_controllers.cc`) | rounds in memory with an index by time, their table, a version; a cached result for each connection | add a round, reload, filter, sort, total | record queue, seed lists |
| **Server** (`server/*.cc`) | database pool | HTTP routes, start-up | everything |
| **Accounts, ranking, replay** | SQLite tables, files | queries and updates | server |

Where it gets hard: a session is entered from eight threads or so (four
connections, the worker of the transition timer, those of the delayed starts,
the collector), all ordered by one mutex but not in any particular order;
a timer callback that has been taken can no longer be stopped; some reads happen
before the mutex is taken; windows may start some time after the transition
that grants them; sessions end in three ways; rounds are recorded at different
moments. Around the sessions the hub goes on with a room after it has released its
mutex, the collector decides on a room before it removes it, a player has two
connections for a moment when he comes back, and answers to requests are built
from several reads. The list with lines is `hazards` in `PROJECT.json`; a hazard
without a property says why.

What makes each part correct:

* session: every state has a way forward until the end, which is final and
  happens once; the claim the rules prefer wins in any order of arrival; nobody's
  time is cut short, nobody who is away is waited for; tiles are conserved;
  each round is recorded once;
* walls: each tile is drawn once; both ends meet without losing or repeating a
  tile; in a duplicate game the tiles of a seat depend on that seat alone as
  long as its part of the wall lasts;
* hub and waiting room: a player is in one place, the maps agree with the rooms,
  a room is started once, nobody is lost between the two maps;
* seed lists: every session of a list gets a number of its own; the counters agree
  with the sessions that run and are never too low; a list goes when it is
  expired and its last session ends, and only then do its records become
  visible; a record on disk is staged or delivered, never forgotten;
* record queue: everything accepted before shutdown is written once, in order;
* sockets: a player is reported to the hub as gone when his last connection
  closes, and not when a newer one has replaced it;
* hands for spectators: nobody's hand is shown without consent, and every
  request is answered once;
* statistics: a result that is served again is what the table would answer now.

## 2. Modules

| Module | What it is |
|---|---|
| `Session` | the active session with its windows, timers, recording and callers |
| `MCSession`, `Session_*.cfg` | its instances for TLC |
| `SessionProofs` | types; the life of a session; which claim wins and that waived tiles stay waived; windows, afk seats, records; proved |
| `TableRules` | the legal game of a table, which `Session` implements |
| `SessionTiles` | hands keep their shape, tiles are conserved, the game is legal, points cancel; proved |
| `TileSupply` | what a wall promises: every tile once |
| `Wall` | the ring of stacks drawn from at both ends; implements `TileSupply` |
| `DuplicateWall` | the wall dealt in four parts; implements `TileSupply` |
| `SeedLists` | the store of seed lists, statement by statement on its one connection |
| `DuplicateGames` | the hub's bookkeeping of duplicate sessions and the record queue, around that store |
| `MCDuplicateGames`, `DuplicateGames_*.cfg` | their instances for TLC |
| `SeedListsProofs` | types and session numbers of the store, proved |
| `DuplicateGamesProofs` | duplicate games implement the store, so its theorems hold for them; records and their lists; counters and the sessions of the hub; proved |
| `WallProofs`, `DuplicateWallProofs` | both implement the supply, and a seat of a duplicate game is served from its own part, for every number of stacks; proved |
| `Hub` | waiting rooms, the maps of players to rooms and games, games as the hub sees them, the collector |
| `HubProofs` | maps, rooms and games agree, nobody is evicted, no start is missed, for every number of players, rooms and seats; proved |
| `Sockets` | the connections of players, from their opening to the report to the hub |
| `SpectatorHands` | requests of spectators for hands, approvals, and hands on their way |
| `Statistics` | rounds, their table, filters and totals, cached results |
| `ServerProofs` | sockets, hands, answers and totals of the statistics, cached results, for every number of connections and rounds; proved |
| `MCHub`, `Hub_rooms.cfg` | rooms of two kinds, and beside them a duplicate wall |
| `MCServer`, `Server.cfg` | a small hub with its liveness, an ordinary wall, sockets, hands and statistics, side by side |

`MCHub` and `MCServer` put parts that share nothing into one run. A variable `part`
is chosen in the initial state and says which part takes the steps; the
other parts stay in their initial state. The state spaces add and do not multiply, and every
property is about the variables of one part. The fairness of the hub in `MCServer`
is for its own part: in the hub's initial state none of the fair actions is enabled.

### Session

The state corresponds to the members of `ActiveSession` as the comments at
`VARIABLES` say. Each case of the `switch` in `execute_transition` is one action
(`ExecuteStart` ... `ExecuteEnd`) that includes what is done before the switch
(`Executes`), the choice of the next transition, `process_transition`
(`Deliver`: windows, delayed windows, timer) and the recording afterwards.
Each event a seat may send is one action of `Decide(s)`: `DecideSelf` for the
player on turn, `Claim`, `Pass`, `FinalPass`, and `Refused` for an event that is
refused but has refreshed the window of its seat on the way. `Callers` holds the
presence calls, the abandon call and the collector; `Time` holds what clocks and
timer threads do.

Abstractions, and why the properties do not notice:

* **Tiles are counted.** A seat has counts of tiles in hand, melds and
  discards. What a hand allows (`ReactionSets`, `DeclarationSets`) is a free choice among
  the options its size permits; the one fact about identities that matters for
  claims is kept: two seats never both hold a pair of one discard (`OnePung`). The chow
  variants are one option. Scoring is a free choice of base points.
* **Time is abstract.** A window that is open may lapse at any moment
  (`late`); the timer knows which windows its deadline covers (`until`) and can
  expire only when they have lapsed. Minimum pauses between transitions need no
  window. The member `Never` of `until` stands for a deadline weeks away. `set_timer` never
  sets a deadline before `next_transition_not_before_ms_`, which a discard or a kong puts behind the last of its
  delayed messages; so the timer expires after every delayed start of the stage (`NotBefore`).
* **A fired timer** (`fired`) is a worker that has taken the callback and waits
  for the mutex: every event may still come first. `stop()` and `set()` do not
  undo it, as in `timer.cc`.
* **A delayed start** executes as soon as its timer does: it is taken to get the
  mutex within the 400 ms reserved for every transition, with which `NotBefore` reckons too (see `hazards`, the line of
  `schedule_pending_start`).
* **Presence calls** look up the seat, then lock: `PresenceCall` and `Presence`.
  One is in flight at a time. The collector reads the seats (`CollectorLooks`)
  and ends the session later (`CollectorEnds`); its tolerance of five seconds
  only restricts when it looks.
* A window that reopens after a claim has a deadline of its own; the timer armed by the claim may
  run out before it (`until` is empty): the code gives both the same length
  but measures them from different moments.
* A pass that comes within `pass_margin_ms` of another seat's claim is ignored: a stutter.
* Left out: `current_player` (display only), names of fans, JSON, the turn
  numbers of the record, the content of a record.

`TableRules` says what the four players are promised. It has the tiles and points of
the seats, the wall, the number of rounds and the last move, and no clock, window, claim, delay
or absence: one move after the other, each by the seat that is entitled to it by the last one. `FollowsRules` is the
refinement `Table!Spec`: the hidden machinery of claims, timers and callers must add up to such a game,
of which every `ExecuteX` is a move and everything else a stutter. `Table` sums up the kinds of tiles
of a seat to those it has concealed and its melds.

Bounds: `MaxStage` (a guard of `Executes`) bounds the number of transitions, hence
the afk counter, and `MaxCalls` the presence and abandon calls. `WallTiles` is 136 in
the program; runs use 53 or 54 tiles, one or two more than the deal, so that
drawn games and the last draw happen soon. The proofs ask for 52 at least.

### Walls

`TileSupply` is the promise: a set of tiles left; each draw takes one of them
and is refused only when none is left. In `Wall` and `DuplicateWall` a tile is
named by its place in `tiles_`, so the shuffle does not matter, and `there` is the
set of places that are not `tile::invalid`. `Wall` keeps the two stack indices and
`size_`, with `draw_front` and `draw_back` as in the code, upper tile
before lower; as in the code a draw does not look whether the lower tile is
there, which is what the refinement has to show. The dice choose where the wall is broken, by the
code's formula. `DuplicateWall` keeps four indices; the recursion of
`draw_front` is the first part, going round, that serves. If none does, the code would
call itself for ever: `DrawReturns` says that this does not happen. The number of stacks is a
constant (68 in the code).

### Seed lists and duplicate games

`SeedLists` has the two tables of `DuplicateManager` as `lists` and `staged`.
The manager is called from request handlers, session timers, the collector and the
writer of records; it has no lock, and all of them share one SQLite connection
(`duplicate_database_`). SQLite runs one statement at a time, so a call
(`calls[t]`) is a sequence of statements, each an action, and everything may
happen between two of them. What follows from the shared connection is kept:

* `Begin`: `BEGIN IMMEDIATE` is refused while *any* thread has a transaction open on
  the connection (`owner`), and the call fails at once;
* a statement that another thread issues meanwhile is part of that transaction: `Rollback`
  puts back both tables as they were at the BEGIN (`saved`), and so does `Crash`.

`StartSession`, `EndSession`, `ExtendExpiry` and `ForceExpire` share `Begin`, `Read`,
`Write`, `Commit` and `Rollback`; what differs is `Refused`, `Destroys` and `Updated`.
`ReleaseSeedList` is `Begin`, `Collect`, `EraseRecords`, `EraseList`, `Commit`,
`Deliver`, with the gap between the commit that decides to destroy and the
BEGIN of the release. `CreateSeedList`, `MarkSessionStarted`,
`StageRecord` and `OnServerStartup` run without a transaction. The statistics
are another connection to the same file, which waits until no transaction is open.
`given`, the numbers returned by `StartSession`, is a history variable, and so are
`overlapped` (two calls were once in flight at the same time) and `abandoned`
(`create_session` left after `StartSession`) in `DuplicateGames`.

`DuplicateGames` adds `create_session`, `start_active_session` (with the hub's
mutex held during its call, `HubFree`), `complete_session` from the end of a game
or the collector, and the record queue with its worker. A session counts from
the moment it is entered in `duplicate_session_tokens_` until `complete_session`
erases it there; the call of `EndSession` comes after that, and the
record of the last round is enqueued after the call. Games are recorded
ones; rounds follow each other freely.

Left out: disk errors, statements that time out, graceful shutdown, the seeds
themselves, and `Query`, which only reads. `IsTokenActive` is `TokenActive`, and what a replay
reads is `Replays`; both serve the fifth finding. That the collector and
`create_session` compete for the hub's mutex is kept only where a call of the store is made
under it.

Bounds: `MaxCalls` calls in flight at once, `MaxClock` ticks, `MaxCrashes` crashes;
`Lifetimes` are 1 and 2 ticks, so a list may or may not be expired when a
session ends and an extension matters.

### Hub

`Hub` has the rooms (`PendingSession`: `seat`, `ready`, `members`, `elapsed`,
`timer`), of every game who plays, who is away and how far it has got, and the
two maps `player_pending_sessions_` and `player_active_sessions_`
(`pendingOf`, `activeOf`). `phase` says what an id is at present; ids are used again.

A call of a player takes the hub's mutex to look up or to change the maps, and
goes on with the room through a raw pointer after it has released the
mutex. Between the two everything may happen, so a call in flight is a record
(`calls`, its `pc` named for what comes next): `ConnectRoom` and `Leave` end with
`LeavesRoom` of the previous room, `Disconnect` with `LeavesRoom` and
`LeavesGame`, `FindsRoom` with `ChoosesSeat` or with `SetsReady`, `ChecksRoom` and
`StartsGame`. The last takes the hub's mutex again and checks again, which is
why two ready messages start one game (`NoMissedStart` says that at least one does).
A player's messages follow one another on his connection; the close
of his previous connection (`"previous"`) may run beside them.

`CollectGame`, `ScanRooms` and `SweepRoom` are the collector: it looks at the
rooms under the shared mutex, notes the expired ones and removes them later
under the exclusive one, after another look.

What the code does with a room that is destroyed while a call goes on with it is
undefined; the model lets the call do nothing more there (`Without`).
`raced` collects the players of whom the code cannot know where they are: two
of their calls met, or the room started while they were on the way out of it. The
properties of the maps except them, and `MaxRaced` bounds how many there may be;
those of the rooms (`RoomShape`, `NoMissedStart`) do not.

`known_players_` only grows: `UpsertKnownPlayer` enters everybody who connects, and
nothing takes anybody out. Therefore `collect_invalid_players`, which asks for
players who are not known, never finds one, and there is no action for it.

### Sockets, hands for spectators, statistics

In `Sockets` the handlers of a connection are split where the mutex of
`GameSocketHub` is released: a new connection is entered, then takes the player's
others off the list, then closes them one by one, then goes on to the hub. A
connection is known to the hub (`registered`) only after the hub has
accepted something it sent. A player may also join and leave a room over HTTP
(`HttpJoin`, `HttpLeave`), which registers no connection; a game that starts (also on a ready message over HTTP), one that
ends and one that he creates to play alone are `PlaceChanges`. The history variables
`relied` and `remote` name the two ways in which a player may be left with a seat and without a
connection that answers for it.

`SpectatorHands` splits the handlers between the mutex of the requests, that of the
approvals, and the lookup of the seat: a hand on its way is in `lookups`, with
the seat at which it will be read. `late` marks those whose ground has gone
meanwhile (revoked, or the seats shuffled).

`Statistics` follows one round through `UpsertRoundRecord` and the reload at a
restart, `Query` with its bisection of the index, totals and fan counts as
`RoundCollection` adds them up, and the handlers of a connection, which read the
version, query, read the version again and keep the result if it has not changed.
Real numbers are abstracted to an ordered set with the results the code rounds to
(`Squares`) and with what their text in the table is read back as (`Written`).

## 3. Runs

| Run | Question | Instance |
|---|---|---|
| `session_table` | Does any order of melds, kongs and robbed kongs lose a tile, break a hand, cut a window short, or leave the game of `TableRules`? | two rounds, all claims but a win on a discard, all declarations, 54 tiles, up to 23 transitions (the 17 of start and deal, then six: a draw, a discard, a claim, a kong and its replacement fit), no delays |
| `session_delays` | Which claim wins when claims, passes and delayed windows meet? | delays on, three ranks of claims, 20 transitions: the first discard and what follows it; all three seats may hold every option |
| `session_rounds` | Does the session end once, with every round recorded, whoever leaves? | two rounds, a table of four and one with three stand-ins, a shuffle between rounds, wins large enough to force the end, three presence or abandon calls, the collector at any time |
| `session_live` | Does a game always go on? | fairness as below, records that may be refused |
| `session_scheduled` | finding: a pass counts scheduled windows wrongly, and one of them is cut short | delays on |
| `session_override` | finding: a taken callback ignores the deadline set last | |
| `session_lateclaim` | finding: one late claim gets through | |
| `duplicate_lists` | What do counters and numbers of a list still say after races, failures and a restart? Can a record get lost, stay without its list or show in the statistics too early? | one list, two sessions of one round or one of two (`OneGameOrOneRound`), three threads, two calls at once, one tick, one crash; the records of both rounds travel while the list is extended, expired or released; for one game that the store is called as `SeedLists` allows |
| `duplicate_leak` | finding: a creation that is given up stays counted | one call at a time, no crash |
| `duplicate_replays` | finding: a deal can be looked up as a replay while its list is in play | the same |
| `hub_rooms` | Do maps, rooms and games agree between the locks? Does a seat of a duplicate game depend on its own part of the wall alone, and are all tiles drawn? | two players, an ordinary and a duplicate room of two seats, two calls in flight, one player whose calls meet; a duplicate wall of 12 stacks, three for each seat |
| `server` | Do empty rooms and deserted games go? Do the ends of a wall meet without losing a tile? Is a player who comes back kept, nobody's hand shown without consent, no outdated result served? Does a query between two bisections find the rounds that match, and is every order of them right? | the hub with two players and one room; a wall of 12 stacks, every breaking point; three sockets of a player; two connections of a spectator, two players, two requests; three rounds, two filters, two orders, three versions |

`CHECK_DEADLOCK FALSE` is there because sessions end, walls run out, and the bounds stop
the rest.

Why the bounds are enough: a discard and its claims involve four seats
and one transition, and nothing of one discard survives the next transition but
tile counts and delayed seats; two rounds show everything that happens
between rounds and at the end; three calls allow a leave, a return and an
abandon. For the seed lists two calls at once are enough for every way in which a statement of one call can
fall between two of another, and with two sessions one can end under the other; lists do not
touch each other's rows but for the transaction they share, whose refusals and
rollbacks a second call on the same list already brings. In the hub a race is one
between two calls, or a call and the collector; rooms meet only in a player who changes from one to
the other, so an ordinary and a duplicate room are enough, and two players fill one. Three
sockets of one player let a socket be evicted while it evicts another; different
players share nothing there. One spectator with two connections, two players to
ask and one request at a time make every pair of handlers meet. For the hub, what
TLC shows for two players the theorems show for all. What TLC cannot show for more transitions, rounds or tiles, the
theorems do.

**Fairness** (`FairSpec`): weak fairness of `ExecuteTransition` and `TimerExpires`
(the worker threads of the timers are scheduled, and the mutex is released by
every holder), and of `WaitLapses(s)` and `WaitStarts(s)` (time passes). Nothing is
assumed of players, callers or the collector. In `HubFairness` the collector's thread
and the timer of a room are scheduled, and a call in flight ends (it only waits for mutexes
that every holder releases); nobody has to call. `EmptyRoomsGo` and `DesertedGamesGo` hold
under it. `GoesOn` is checked without
delays: with them a pass may set the deadline weeks away
(`session_scheduled`).

## 4. Findings

1. `time_left` (session.cc:614) treats a window whose start is still
   scheduled as open although its `pending_from_ms` is 0. The difference to
   the present time, cut to an `int`, is noise: the deadline ignores that
   window, or lies weeks ahead. In the first case the floor that `set_timer` puts
   under a deadline (session.cc:384-386, 2149) still lets the window open, but not last:
   the default transition runs 400 ms after the last delivery, into a window that should be open for
   seconds. A pass of one seat, while the discard is still on its way to another that
   the interval delays, is enough. The comment at session.cc:1941-1943 promises
   otherwise.
2. `execute_transition` does not look at the deadline it was armed for. If the
   worker has taken the callback when a claim is handled, the claim is
   executed at once although "someone can still override, wait for secondary
   timer" (session.cc:935).
3. The validity check asks `update_pending_status` twice (session.cc:826-829),
   and the question changes the answer: a claim from a lapsed secondary
   window passes although the check is there to refuse it.

4. `create_session` (hub.cc:146) has its number and its place in the live counter of the
   seed list before it finds that the owner plays elsewhere (167) or no id is
   free (176), and leaves without giving the place back. An expired list then outlives its last
   game, with all records staged, until the next restart; manager.h:84-85
   promises that the row is removed.

5. The record manager writes the file of a round of a duplicate game as soon as the round is over; only
   the statistics wait for the list to be destroyed, and only they ask `IsTokenActive`
   (runtime_state.cc:329-335). `GET /api/v1/replay/{id}/rounds-after` (http_routes.cc:247-281) and the replay socket
   (ws_controllers.cc:554-586) read the files of any session without asking. manager.h:103-104
   says that duplicate sessions "stay invisible to stats/replays" while their token is active.

Noticed, not run: the properties of the seed lists that say `~overlapped` fail
without it. While one call has its transaction open, `EndSession` of another thread is refused
and `complete_session` ignores that, so the counter stays too high; a staged record
or a mark falls into a transaction that is rolled back: both because the threads share
one connection (`hazards`, database.cc:168). And a record may be staged for a
list that has just gone, as `StageRecord` looks and inserts in two statements.
Also: after a pass `handle_event` marks the seat as slept
(session.cc:996) and `time_left` in the same call turns that into no window;
windows may be opened by a delayed start after a claim has taken all options
of the seat away.

Noticed in the server, and excepted by a guard or a history variable where a property meets it:

* a player who is on the way out of a room (he has joined another) when it starts plays in both:
  the comment at hub.cc:310 wants him not left "in a ghost seat" (`raced`);
* hub.cc:753 goes on with a room whose lock is released; the room may be gone;
* a new connection is known to the hub only after its first accepted message; if it closes before,
  and its predecessor has closed already because of it, nobody reports the player as
  gone (`relied`); two new connections of one player may evict each other;
* a seat that is taken over HTTP (http_routes.cc:513-550, as tests/integration/ws_smoke.py:395-413 does) is not given back when the
  player's game socket closes, if that was open before and has sent nothing the hub accepted (ws_controllers.cc:1005):
  he sits in the room until he leaves it, a registered socket of his closes, or the game starts (`remote`);
* a hand is looked up by seat before it is read: a revocation or a shuffle of the seats in between
  is not noticed (`late`); approvals are kept by session id, are not removed with the session, and the id
  may be drawn again;
* the collector, in destroying an ended session, waits for the workers of its timers
  (session.cc:1843-1846);
* a cached result keeps the ratings it was built with, as ratings do not raise the version
  (ws_controllers.cc:414-427); `GetSortedStatsRounds` uses pointers of an earlier query outside the mutex;
* fans are written with six significant digits: from 100 on the last digit is lost in the table (`Written`);
* `ServerState::Initialize` overwrites the status of the schema of ratings with a later one.

## 5. Proofs

Assumptions: only those on the constants (`*Assumption` in the modules). None of
the theorems bounds the number of transitions, rounds, tiles or calls: the
bounds are arbitrary naturals. Every invariant and action property of a passing run is proved;
only liveness is left to TLC. A theorem with a condition has it in the
property that TLC checks: `~overlapped` and `~abandoned` in those of
the seed lists, `raced` in those of the hub, `relied` and `remote` in that of the sockets.

**The session** (`SessionProofs`, `SessionTiles`)

* **`TypeCorrect`**: `TypeOK` is inductive as it stands. It takes lemmas about what each
  operator returns (`DeliverTyped`, `TilesTyped`, ...), then one step per action.
* **`EndedIsFinalHolds`, `NeverStuckHolds`** rest on `LifeInv`, their
  conjunction, which neither implies alone: that a decision cannot revive an
  ended session (`EndedIsFinal`) needs that every window is closed, since
  a decision without a window is refused (`AsleepIsRefused`); and every transition arms the timer exactly if it
  names a successor (`DeliverArms`).
* **`BestClaimWinsHolds`, `NoClaimInVainHolds`** rest on `ClaimInv`: the accepted
  claim is `next_transition`, `this_priority` is its priority, every other
  claim of the stage counts less, and every option that is still left counts more. The last part is
  what makes a later claim always a better one, and it needs that
  options are masked for *all* seats, and that distances from the discarder
  differ (`PriorityIsRule` connects the code's numbers with the rule).
* **`WaivedForGoodHolds`** rests on `WaiveInv`: a seat that waived has neither
  options nor a window nor a scheduled start, and neither has the seat whose claim is
  accepted.
* **`AfkNeverAwaitedHolds`** rests on `AfkInv`: an afk seat has no window, none on its
  way, and on a tile that can be claimed no option either, as a later claim would open its
  window again for that. Only a transition makes a player afk, and it closes all windows first.
* **`WindowsHaveOptionsHolds`** rests on `OptionsInv`, which speaks of windows that are
  scheduled as well. With delays its last part is needed: a claim may take the
  option of a seat whose window has still to start.
* **`WindowsRespectedHolds`** is `~Delays => (Spec => WindowsRespected)`, since with delays the
  property fails (first finding: a window cut short). `CoveredInv`: until somebody decides, the timer lies
  behind every open window, and when it has expired they have all lapsed.
* **`RecordsCompleteHolds`** rests on `RecordsInv`: what is not saved comes after all that is, the next round
  starts only when the one before is saved, and a session that has ended has saved its round; so the three
  ends of a session and the result hand over each round once between them. With a record manager
  that refuses, only the order remains.
* **`HandShapeHolds`, `TilesConservedHolds`** rest on `TileInv`. Neither can be shown by
  itself: that a meld leaves a hand in shape needs that the hand has the tiles for it,
  hence that an offer is checked against the hand (`OfferInv`), that the transition to come
  can still be made (`ComingInv`), and that after each kind of transition every hand has the size its melds call for
  (`ShapeInv`, and `DealtUpTo` during the deal).
* **`FollowsRulesHolds`** is the refinement `Spec => Table!Spec`: each `Execute...` is a move of the game
  and every other step leaves the table alone. `TableRules` asks of a move what its seat is
  entitled to, in tiles and turn; the code executes whatever `next_transition` says. So it takes all of `RulesInv`:
  `TurnInv`, that the transition to come is a move that may follow the last one (the seat whose turn it is,
  the tile it answers, the number of the next predraw, no round after the last), `TileInv`, that the tiles for it are there, and
  `LifeInv`, that an ended session has none to come. A claim enters only through the options that
  the last transition left, which is why `TurnInv` speaks of these as well.
* **`PointsBalanceHolds`**: the points of a table sum up to nothing. It is shown for the moves of `TableRules`
  (`PointsStep`) and carried over by the refinement; shuffled seats take `Permuted`, that a sum of four does not depend on their order.

**Walls** (`WallProofs`, `DuplicateWallProofs`)

* **`WallRefinesSupply`, `StretchHolds`** rest on `WallInv`: `size_` counts the
  tiles left (a refusal is right) and these form one stretch from front to back in which
  every lower tile is there (a draw finds its tile). When both ends have met in one stack the next lower tile
  empties the wall, so the indices may cross.
* **`DuplicateWallRefinesSupply`, `DrawReturnsHolds`, `OwnPartFirstHolds`** rest on
  `PartsInv`: each part is used up from its first stack on, and its index is at
  its end exactly when nothing of it is left. That parts do not overlap
  (`ZonesDisjoint`) keeps a draw from one part from disturbing another.

**Seed lists and duplicate games** (`SeedListsProofs`, `DuplicateGamesProofs`)

* **`StoreTypeOK`** adds to `TypeOK` that a call at a statement about a list has
  one (`ListKnown`) and that a call that stages has a record (`RecordKnown`).
* **`NumbersInOrderHolds`** rests on `NumbersInv`: a thread is at a step of its
  transaction exactly when it owns the connection (`OwnerInTransaction`, so at most one
  `StartSession` is between its SELECT and its COMMIT); the next number of a row is the
  count of the numbers given, one more while a `StartSession` has written
  but not committed, and in the rows to roll back to it is never ahead
  (`NextAgrees`); a row still to be inserted has given no number (`Births`). With `StatementKeepsOp`
  it is kept by every statement, rollback, crash and restart, for any number
  of threads and lists.
* **`GamesUseStore`** is the refinement from `DuplicateGames` to `SeedLists` (their
  tables are the same variables): every step is one of the store or leaves it alone. It needs that
  the hub and the queue only name sessions, rounds and lists that exist (`HubInv`),
  in particular that a worker in a call about a session still knows which
  (`Serves`). `GamesNumbersInOrder` carries the session numbers over. TLC checks the refinement for one game
  (`OneGameUsesStore`); with two it would take longer than all the other properties together.

* **`HiddenFromStatisticsHolds`** speaks of the statistics only (of the files see the fifth finding). It rests on `HiddenInv`: wherever a record is (in the queue, staged, in the rows
  to roll back to, in the hands of a call, in the statistics) its session and its list are
  known (`KnownInv`), and one in the statistics belongs to a list that is gone and cannot come back (`Buried`).
  It needs that every session in play has a list that was committed (`PlayInv`), that rows to roll back
  to differ in a list only while the transaction that erased it is open (`SavedInv`), and that what a
  release holds after its COMMIT belongs to a list that is gone (`PayloadsInv`). Nothing is assumed
  about overlapping calls, failures or crashes.
* **`NeverUndercountedHolds`** rests on `CountInv`, again without such assumptions: a list counts the sessions
  that play it, and besides the calls that have counted one the hub has not got yet or are to take one off
  that the hub has no more (`Holding`). `TokensInv` gives each such session one call, `RollbackInv` says
  that the rows to roll back to count as many, and `CallersInv` that nobody calls
  while the counters are reset. The counting is in the lemmas `CountRuns` and `CountMoves`, for a
  step of the store and for a step of the hub.
* **`NoOrphansHolds`, `RecordsKeptHolds`** hold while calls come one at a time: then one call at most is
  in flight (`Sole`), what it has read of a list is true until it ends (`OrphansInv`), what it will
  erase is in its hands (`HeldInv`), and until a crash a record on disk is with the recorder, staged, in the
  hands of a release or in the statistics (`FilesInv`).
* **`CountersExactHolds`, `ExpiredListsGoIfOrderlyHolds`** ask besides that no creation was given up (the fourth
  finding), and rest on `OrderInv`: the lower bound of `CountInv` is met exactly, for both counters
  (`ExactInv`, after a crash from the reset on), and a call that ended the last session of a list destroys it
  if it is expired (`ExpiryInv`).

**The hub** (`HubProofs`)

* `HubTypeCorrect` adds that every call in flight names the room or game
  it goes on with (`Typed`). `RoomsInShape` rests on `Shape`, which adds that an ordinary room
  has no members and the members of a room are finitely many; it needs no assumption
  about the calls, since every operation of a room checks for itself. `StartsNotMissed`
  is inductive with it: only a ready message can make a room full and ready
  (`JoinEffect`, `LeaveEffect` and `ChooseEffect` say that nothing else does), and that message goes on to look.
* **`MapsTellTheTruth`, `NoGhosts`, `NobodyEvicted`** rest on `Order`: of a player whose
  calls have not met, one call at most is in flight, maps, rooms and games agree,
  every seat of his is in the room he is known to wait in or in one he is on the way out of,
  and he is never on the way out of the room he is known to wait in. None of
  the three is inductive alone: that a step of `LeavesRoom` leaves the map right needs the last part,
  that a started game has only players who were known to wait there needs `NoGhostSeat`, and that it
  has all of them needs that a full duplicate room has no member without a seat (`FullRoom`, by counting). A
  player whom a step does not concern is settled once for all actions (`NothingHappened`).

**Sockets, hands, statistics** (`ServerProofs`)

* **`NoSeatWithoutSocketHolds`, `EvictionKeepsPlayerHolds`** rest on `SocketsInv`: a player who waits has a socket
  whose close the hub will be told of, or has been left to another, or came over HTTP (`Seated`; that a registered socket has been
  opened is `Told`); who evicts is a connection of the
  same player (`Rivals`); and whoever came on the list while the hub was about to be told of a close
  has crossed it (`Crossings`).
* **`RequestsAnsweredOnceHolds`** rests on `RequestsInv`: a request is in one state only (not made,
  waiting, with one player who answers it, answered, dropped), so the time-out, the
  answer and the next request cannot take it twice.
* **`HandsByConsentHolds`** rests on `ConsentInv`: approvals that are stored or on their way to the store have
  consent, and a hand on its way that is not `late` has it as well and is read at the seat of its player.
* **`StatsTypeCorrect`, `AnswersTrueHolds`** rest on `IndexInv`: no two rounds have the same key, in memory and in the table, and
  the index lists all keys, newest first. `Lists(s, K, R)` says that `s` has the members of `K` in the order `R`; one
  lemma each tells what sorting, picking, cutting, turning round and joining do to it, so
  that an answer is followed through `TimeStretch` (in an index that goes back in time each bisection ends
  a stretch, `Stretch`), `Query` and the buckets of `FanSorted`. Sorting itself takes that
  `Before` is a strict order, total for rounds of different keys, so that no two have the
  same place (`Ranks`).
* **`CacheTrueHolds`**: a cached result is as good as the answers of the service (`CacheAsTrue`), and these are
  true. `CacheInv`: no version that was read is ahead of the service, and
  while it is the present one, what was queried, summed up and sorted with it is what it
  would be now.
* **`TotalsAgreeHolds`** rests on `RoundsInv`: finitely many rounds, each as a game hands it in (`RoundRecord`,
  `Sound`). That is what `RecordsAssumption` takes of the records: four seats, no player twice, and
  a win whose seats are known and that is self-drawn when winner and source are one seat. Nobody checks
  the latter in the statistics; the sessions record it so. What one round gives a player is a matter of
  cases (`GainOfRound`, `PointsCancel`); that the totals agree then follows for the folds that `Collection` is made of
  (`SumsBalance`). The prover has no induction over data, so this and `PlacedAll`, what the loop over
  the fans reaches, is stated of sets: among the sets, or numbers, at which the claim
  fails there would be a smallest (`MinimalSubset`, `Least`), and that one's predecessor gives the contradiction.

Only model-checked: `GoesOn`, `EmptyRoomsGo` and `DesertedGamesGo`, as liveness is out of the
prover's reach. Two choices in `Statistics` are made for the proofs. It takes the community modules under names
of their own (`Seqs!`, `Sets!`), since the prover would otherwise mix their operators with those of the other modules; and
it states sorting and picking by the places of the elements (`Sorted`, `Picked`), since
`SortSeq` and `SelectSeq` cannot be opened up in a proof.

## 6. What is not modelled

The shutdown of the record queue, and observers of it that fail; of timers
`set_extend`, `set_shrink` and `setExpiryTime`, which no game uses; the database pool, a counter and a list
under one mutex, of which a model would repeat the code; the lists of the lobby
and who browses them; the sockets of the lobby; averages, rates, the players
index and the pages of the statistics. Accounts, ranking and replay are SQL, arithmetic on
floating point and files (of a replay `DuplicateGames` has which files it reads), HTTP and WebSocket parsing is formatting, all with little
control; the rules library (`external/qingque`) is third-party; the web client is user interface.

## 7. Plan

Done: sessions, walls, seed lists with their games and records, the hub with its
rooms, sockets, hands for spectators, statistics. What would come next:

1. `Hub` and `Sockets` composed: the close of a connection as the hub's `Disconnect`.
2. `Records`: the queue and its worker through a graceful shutdown.
3. `Timer`: its worker and `set`, `stop` and the destructor, against the abstract
   timer (`timer`, `fired`) that `Session` uses.
