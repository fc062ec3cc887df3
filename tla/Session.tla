------------------------------- MODULE Session -------------------------------
(***************************************************************************)
(* One running game of mmcr14.online: class ActiveSession of               *)
(* backend/src/game/engine/session.cc.                                     *)
(*                                                                         *)
(* A game is a chain of transitions (start, predraw, draw, discard, claim, *)
(* win, end).  The transition to come, next_transition, is executed by the *)
(* worker thread of a timer; until then the four seats may send events     *)
(* that replace it: the player on turn discards or declares, the others    *)
(* claim the discard, pass, or let their decision time run out.            *)
(*                                                                         *)
(* Time is abstract.  A decision window that is open lapses at some moment *)
(* (late), the timer knows the windows its deadline covers (until), and a  *)
(* timer that has expired holds a callback that waits for the state mutex  *)
(* (fired).  Tiles are counted, never named: which reactions a hand allows *)
(* is chosen freely among those that its size allows.                      *)
(***************************************************************************)
EXTENDS Integers, Sequences, FiniteSets

CONSTANTS
  Bots,           \* sets of seats that stand-ins without a valid handle may fill
  Reactions,      \* claims on a discard or an added kong that hands may allow
  Declarations,   \* self declarations that hands may allow
  BasePoints,     \* base points a winning hand may be worth
  WallTiles,      \* tiles of the wall
  RoundCount,     \* config_.round_count, 0 for an endless session
  ShufflePeriod,  \* config_.seat_shuffle_period
  Shuffles,       \* seat permutations the shuffle may produce
  Floor,          \* scores below it end the game (forced_end_floor)
  Duplicate,      \* config_.duplicate_mode
  Recorded,       \* recording_enabled()
  AbandonGame,    \* config_.abandon_game
  MayRefuse,      \* whether the record manager may be shut down
  Delays,         \* whether broadcasts may reach a seat with a delay
  MaxStage,       \* bound on stage_counter
  MaxCalls        \* bound on presence and abandon calls

Seats == 0..3
ReactionKinds == {"Chow", "Pung", "MeldedKong", "DiscardWin", "RobAddedKongWin"}
DeclarationKinds ==
  {"AddedDraw", "AddedHand", "ConcealedDraw", "ConcealedHand", "SelfDrawnWin"}

ASSUME BotsAssumption == Bots \subseteq SUBSET Seats
ASSUME ReactionsAssumption == Reactions \subseteq ReactionKinds
ASSUME DeclarationsAssumption == Declarations \subseteq DeclarationKinds
ASSUME BasePointsAssumption == BasePoints \subseteq Nat
ASSUME WallAssumption == WallTiles \in Nat /\ WallTiles >= 52
ASSUME RoundsAssumption == RoundCount \in Nat /\ ShufflePeriod \in Nat
ASSUME ShufflesAssumption ==
  \A f \in Shuffles : /\ f \in [Seats -> Seats]
                      /\ \A s \in Seats : \E t \in Seats : f[t] = s
ASSUME FloorAssumption == Floor \in Int
ASSUME FlagsAssumption ==
  /\ Duplicate \in BOOLEAN
  /\ Recorded \in BOOLEAN
  /\ AbandonGame \in BOOLEAN
  /\ MayRefuse \in BOOLEAN
  /\ Delays \in BOOLEAN
ASSUME BoundsAssumption == MaxStage \in Nat /\ MaxCalls \in Nat

VARIABLES
  \* state_ and the queues
  stage,        \* stage_counter
  round,        \* round_counter
  priority,     \* this_priority
  next,         \* next_transition (kind "None" when it has no value)
  last,         \* transition_queue_.back()
  claims,       \* the claims event_queue_ holds for the current stage
  waived,       \* the seats with a final pass in event_queue_ at this stage
  \* seats_
  person,       \* what moves with the player when seats are shuffled
  tiles,        \* tile counts of the seat
  wall,         \* wall_size()
  avail,        \* avail_melds_other
  declare,      \* avail_melds_self of the seat on turn
  \* decision windows
  pending,      \* pending
  scheduled,    \* scheduled_pending_
  opener,       \* pending_start_timers_, with what their callbacks captured
  late,         \* seats whose window has outlived its time
  delayed,      \* interval_delayed_seats_
  \* transition_timer_
  timer,        \* running_
  until,        \* seats whose windows lapse before expiry_time_
  fired,        \* the worker has taken the callback and waits for the mutex
  \* lifecycle_ and recording_
  ended,        \* lifecycle_.ended
  endCalls,     \* how often the end callbacks were invoked
  started,      \* recording_.start_snapshot has a value
  saved,        \* recording_.saved
  records,      \* rounds handed to the record manager, in order
  \* callers
  call,         \* a presence call between its seat look-up and the mutex
  doomed,       \* the collector saw every seat afk and is about to end the session
  calls         \* how many calls were made (bounded by MaxCalls)

control == <<stage, round, priority, next, last, claims, waived>>
table == <<tiles, wall, avail, declare>>
waits == <<pending, scheduled, opener, late, delayed>>
clock == <<timer, until, fired>>
recording == <<started, saved, records>>
lifecycle == <<ended, endCalls>>
callers == <<call, doomed, calls>>
vars == <<control, person, table, waits, clock, recording, lifecycle, callers>>

-----------------------------------------------------------------------------
(* Events.                                                                 *)

Kinds ==
  {"None", "Start", "Predraw", "DrawTile", "DiscardTile", "Chow", "Pung",
   "MeldedKong", "AddedKong", "ConcealedKong", "DiscardWin",
   "RobAddedKongWin", "SelfDrawnWin", "DrawnGame", "End"}

\* An event: its kind and actor, whether it is a default the server forces,
\* draw_from_back, use_drawn_tile, and ui64_value of a predraw.
Event == [kind : Kinds, seat : Seats, forced : BOOLEAN, back : BOOLEAN,
          drawn : BOOLEAN, n : 0..15]

Ev(kind, seat) == [kind |-> kind, seat |-> seat, forced |-> FALSE,
                   back |-> FALSE, drawn |-> FALSE, n |-> 0]
NoEvent == Ev("None", 0)
DrawBy(seat, back) == [Ev("DrawTile", seat) EXCEPT !.back = back]
ForcedDiscard(seat, drawn) ==
  [Ev("DiscardTile", seat) EXCEPT !.forced = TRUE, !.drawn = drawn]
PredrawBy(seat, n) == [Ev("Predraw", seat) EXCEPT !.n = n]

Right(seat) == (seat + 1) % 4
Wins == {"DiscardWin", "RobAddedKongWin", "SelfDrawnWin"}
RoundResults == Wins \union {"DrawnGame"}
SyncCheckpoints == {"DiscardTile", "AddedKong", "ConcealedKong", "SelfDrawnWin"}

-----------------------------------------------------------------------------
(* Seats.                                                                  *)

AfkLimit == 3

IsAfk(p) == p.afk > AfkLimit \/ p.bot
Cleared(p) == [p EXCEPT !.afk = 0, !.gone = FALSE, !.idle = "None"]
Left(p) == [p EXCEPT !.afk = IF p.afk > AfkLimit THEN p.afk ELSE AfkLimit,
                     !.gone = TRUE, !.idle = "Recent"]
\* A forced transition counts as one more time-out of its actor.
TimedOut(p) ==
  [p EXCEPT !.afk = @ + 1,
            !.idle = IF ~IsAfk(p) /\ p.afk + 1 > AfkLimit THEN "Recent" ELSE @]
AfterForced(e) ==
  IF e.forced THEN [person EXCEPT ![e.seat] = TimedOut(@)] ELSE person

NoTiles == [hand |-> 0, drawn |-> 0, chows |-> 0, pungs |-> 0, kongs |-> 0, pile |-> 0]
Empty == [s \in Seats |-> {}]
NoWait == [s \in Seats |-> "None"]
Open == {"Primary", "Secondary"}
Stopped == [pending |-> "None", stage |-> 0]
Never == 4   \* no seat: a deadline weeks away
NoCall == [op |-> "None", seat |-> 0]

-----------------------------------------------------------------------------
(* Which claim beats which.                                                *)

SelfPriority == 90
StartPriority == 100

\* Mutation: the distance of the winner is taken the wrong way round.
PriorityReversed(kind, seat, target) ==
  CASE kind = "Chow" -> 10
    [] kind \in {"Pung", "MeldedKong"} -> 20
    [] kind \in {"DiscardWin", "RobAddedKongWin"} -> 40 + ((seat - target + 4) % 4)
    [] OTHER -> SelfPriority

\* The winner who comes first in turn order after the discarder counts most.
Priority(kind, seat, target) ==
  CASE kind = "Chow" -> 10
    [] kind \in {"Pung", "MeldedKong"} -> 20
    [] kind \in {"DiscardWin", "RobAddedKongWin"} -> 40 + ((target - seat + 4) % 4)
    [] OTHER -> SelfPriority

\* Mutation: only options of other kinds of claim than a chow are compared.
MaskedButChow(options, seat, p) ==
  {k \in options : k = "Chow" \/ Priority(k, seat, last.seat) > p}

\* update_avail_melds_other: options that no longer beat the accepted claim go.
Masked(options, seat, p) ==
  {k \in options : Priority(k, seat, last.seat) > p}

-----------------------------------------------------------------------------
(* Decision windows.                                                       *)

\* update_pending_status, the part that writes: what becomes of the window of
\* a seat.  A slept seat has no pending_from_ms and is taken for one without a
\* window; one whose start is still scheduled is left alone.
Refresh(window, start, lapsed) ==
  IF start # "None" THEN window
  ELSE IF window = "Slept" \/ (window = "Primary" /\ lapsed) THEN "None"
  ELSE IF window = "Secondary" /\ lapsed THEN "Slept"
  ELSE window

\* update_pending_status, the part that answers.
Status(window, start, lapsed) ==
  IF start # "None" THEN start ELSE Refresh(window, start, lapsed)

\* The validity check calls update_pending_status twice, once to compare with
\* kPendingNone and once to compare with kPendingSlept.
Once(s) == Refresh(pending[s], scheduled[s], s \in late)
Twice(s) == Refresh(Once(s), scheduled[s], s \in late)
CanDecide(s) ==
  /\ Status(pending[s], scheduled[s], s \in late) # "None"
  /\ Status(Once(s), scheduled[s], s \in late) # "Slept"
\* All that is left of a check that no decision follows.
Checked(s) ==
  /\ pending' = [pending EXCEPT ![s] = Twice(s)]
  /\ UNCHANGED <<scheduled, opener, late, delayed>>

AfterDraw(s) == last.kind = "DrawTile" /\ last.seat = s
AfterMeld(s) == last.kind \in {"Chow", "Pung"} /\ last.seat = s
AfterDiscard(s) == last.kind = "DiscardTile" /\ last.seat # s
AfterAddedKong(s) == last.kind = "AddedKong" /\ last.seat # s

\* Mutation: the timer is armed before the pending stop takes effect.
SetTimerStopped(w) == timer' = FALSE /\ until' = w /\ UNCHANGED fired

\* next_transition_not_before_ms_ has not come: a discard or a kong puts it
\* minimal_transition_ms, 400 ms, behind the last of its delayed messages, and
\* with it behind every delayed start of a window of this stage.  (A start that
\* its worker is so much too late for is left out.)
NotBefore ==
  /\ last.kind \in SyncCheckpoints
  /\ \E s \in Seats : opener[s].pending # "None" /\ opener[s].stage = stage

\* set_timer(...) of an event: the timer runs anew and covers the windows in w.
\* Whatever w, the deadline is raised to next_transition_not_before_ms_, which
\* stays the same until the next transition: TimerExpires waits for it.
SetTimer(w) == timer' = TRUE /\ until' = w /\ UNCHANGED fired

EndWait(s) ==
  /\ pending' = [pending EXCEPT ![s] = "None"]
  /\ scheduled' = [scheduled EXCEPT ![s] = "None"]
  /\ late' = late \ {s}
  /\ UNCHANGED <<opener, delayed>>

\* Mutation: seats without an option get a window too.
PolicyAll(s, e, options, people) ==
  IF IsAfk(people[s]) THEN "None"
  ELSE IF e.kind \in {"DrawTile", "Chow", "Pung"}
    THEN IF s = e.seat THEN "Primary" ELSE "None"
  ELSE IF e.kind \in {"DiscardTile", "AddedKong"} /\ s # e.seat
    THEN IF s = Right(e.seat) THEN "Primary" ELSE "Secondary"
  ELSE "None"

\* Mutation: the player on turn is awaited whether afk or not.
PolicyAwaitsAfk(s, e, options, people) ==
  IF e.kind \in {"DrawTile", "Chow", "Pung"}
    THEN IF s = e.seat THEN "Primary" ELSE "None"
  ELSE IF e.kind \in {"DiscardTile", "AddedKong"} /\ s # e.seat /\ options[s] # {}
    THEN IF s = Right(e.seat) THEN "Primary" ELSE "Secondary"
  ELSE "None"

\* MsgOnTransition: the window that seat s gets when event e is delivered.
Policy(s, e, options, people) ==
  IF IsAfk(people[s]) THEN "None"
  ELSE IF e.kind \in {"DrawTile", "Chow", "Pung"}
    THEN IF s = e.seat THEN "Primary" ELSE "None"
  ELSE IF e.kind \in {"DiscardTile", "AddedKong"} /\ s # e.seat /\ options[s] # {}
    THEN IF s = Right(e.seat) THEN "Primary" ELSE "Secondary"
  ELSE "None"

\* process_transition: seats that see the next interval late because they have
\* no option while some other seat has.
NextDelayed(e, options, people) ==
  LET others == Seats \ {e.seat}
      reacting == {s \in others : options[s] # {}}
      awake == {s \in others : ~IsAfk(people[s])}
  IN  IF /\ e.kind \in {"DiscardTile", "AddedKong"}
         /\ reacting # {}
         /\ Cardinality(reacting) < Cardinality(awake)
      THEN others \ reacting ELSE {}

\* Seats whose window starts only some time after the transition: those that
\* the interval delays, or all of them when a random pause is drawn.
SlowSets(e, awaited) ==
  IF ~Delays THEN {{}}
  ELSE {{}, awaited \intersect delayed} \union
       (IF e.kind \in {"DiscardTile", "AddedKong"} THEN {awaited} ELSE {})

\* process_transition: deliver e, open or schedule the windows, arm the timer
\* for the transition to come.
Deliver(e, options, people) ==
  LET awaited == {s \in Seats : Policy(s, e, options, people) # "None"}
  IN  \E slow \in SlowSets(e, awaited) :
        /\ pending' = [s \in Seats |-> IF s \in slow THEN "None"
                                       ELSE Policy(s, e, options, people)]
        /\ scheduled' = [s \in Seats |-> IF s \in slow
                           THEN Policy(s, e, options, people) ELSE "None"]
        /\ opener' = [s \in Seats |->
                        IF e.kind = "End" THEN Stopped
                        ELSE IF s \in slow
                        THEN [pending |-> Policy(s, e, options, people), stage |-> stage']
                        ELSE opener[s]]
        /\ late' = {}
        /\ delayed' = IF e.kind \in SyncCheckpoints
                        THEN NextDelayed(e, options, people)
                      ELSE IF e.kind \in {"Start", "End"} THEN {} ELSE delayed
        /\ timer' = (next'.kind # "None")
        /\ until' = IF next'.kind # "None" THEN awaited ELSE {}
        /\ last' = [kind |-> e.kind, seat |-> e.seat]

-----------------------------------------------------------------------------
(* What a hand allows.                                                     *)

\* Mutation: any seat may chow.
ReactionSetsAnyChow(s, e, people, ts) ==
  {o \in SUBSET Reactions :
     /\ s = e.seat \/ IsAfk(people[s]) => o = {}
     /\ e.kind = "AddedKong" => o \subseteq {"RobAddedKongWin"}
     /\ e.kind = "DiscardTile" => "RobAddedKongWin" \notin o
     /\ "Chow" \in o => ts[s].hand >= 2
     /\ "Pung" \in o => ts[s].hand >= 2
     /\ "MeldedKong" \in o => "Pung" \in o /\ ts[s].hand >= 3}

\* update_other
ReactionSets(s, e, people, ts) ==
  {o \in SUBSET Reactions :
     /\ s = e.seat \/ IsAfk(people[s]) => o = {}
     /\ e.kind = "AddedKong" => o \subseteq {"RobAddedKongWin"}
     /\ e.kind = "DiscardTile" => "RobAddedKongWin" \notin o
     /\ "Chow" \in o => s = Right(e.seat) /\ ts[s].hand >= 2
     /\ "Pung" \in o => ts[s].hand >= 2
     /\ "MeldedKong" \in o => "Pung" \in o /\ ts[s].hand >= 3}

\* A tile exists four times, so two seats never hold a pair of the same discard.
OnePung(options) ==
  \A s, t \in Seats : "Pung" \in options[s] /\ "Pung" \in options[t] => s = t

React(e, people, ts) ==
  \E a \in ReactionSets(0, e, people, ts), b \in ReactionSets(1, e, people, ts),
     c \in ReactionSets(2, e, people, ts), d \in ReactionSets(3, e, people, ts) :
    LET options == [s \in Seats |-> <<a, b, c, d>>[s + 1]]
    IN  /\ OnePung(options)
        /\ avail' = options
        /\ Deliver(e, options, people)

\* update_self
DeclarationSets(e, p, t) ==
  {o \in SUBSET Declarations :
     /\ IsAfk(p) => o = {}
     /\ "ConcealedHand" \in o => t.hand >= 4
     /\ "ConcealedDraw" \in o => t.drawn = 1 /\ t.hand >= 3
     /\ "AddedHand" \in o => t.pungs >= 1 /\ t.hand >= 1
     /\ "AddedDraw" \in o => t.drawn = 1 /\ t.pungs >= 1
     /\ "SelfDrawnWin" \in o => e.kind = "DrawTile"}

\* How a transition moves tiles.
DropDiscard(t, drawn) ==
  IF drawn THEN [t EXCEPT !.drawn = 0, !.pile = @ + 1]
  ELSE [t EXCEPT !.hand = @ - 1 + t.drawn, !.drawn = 0, !.pile = @ + 1]
LoseDiscard(t) == [t EXCEPT !.pile = @ - 1]
TakeMeld(t, kind) ==
  CASE kind = "Chow" -> [t EXCEPT !.hand = @ - 2, !.chows = @ + 1]
    [] kind = "Pung" -> [t EXCEPT !.hand = @ - 2, !.pungs = @ + 1]
    [] OTHER -> [t EXCEPT !.hand = @ - 3, !.kongs = @ + 1]
\* Mutation: the pung stays beside the kong it became.
AddKongKeepingPung(t, drawn) ==
  [t EXCEPT !.hand = IF drawn THEN @ ELSE @ + t.drawn - 1, !.drawn = 0,
            !.kongs = @ + 1]
AddKong(t, drawn) ==
  [t EXCEPT !.hand = IF drawn THEN @ ELSE @ + t.drawn - 1, !.drawn = 0,
            !.pungs = @ - 1, !.kongs = @ + 1]
\* Mutation: the drawn tile never joins the hand.
ConcealKongLosingDraw(t, drawn) ==
  [t EXCEPT !.hand = IF drawn THEN @ - 3 ELSE @ - 4, !.drawn = 0, !.kongs = @ + 1]
ConcealKong(t, drawn) ==
  [t EXCEPT !.hand = IF drawn THEN @ - 3 ELSE @ + t.drawn - 4, !.drawn = 0,
            !.kongs = @ + 1]

-----------------------------------------------------------------------------
(* Rounds, records and the end of the session.                             *)

\* Mutation: nothing follows the last round.
NextRoundStops(people) ==
  IF \/ \E s \in Seats : people[s].score < Floor
     \/ RoundCount # 0 /\ round >= RoundCount
  THEN NoEvent ELSE Ev("Start", 0)

\* next_round_transition
NextRound(people) ==
  IF \/ \E s \in Seats : people[s].score < Floor
     \/ RoundCount # 0 /\ round >= RoundCount
  THEN Ev("End", 0) ELSE Ev("Start", 0)

\* enqueue_current_round_record; a record manager that is shut down refuses it.
EnqueueRecord ==
  IF Recorded /\ started /\ ~saved
  THEN \/ saved' = TRUE /\ records' = Append(records, round) /\ UNCHANGED started
       \/ MayRefuse /\ UNCHANGED recording
  ELSE UNCHANGED recording

\* Mutation: the end of the session saves nothing.
RecordAfterWinOnly(kind, nextKind) ==
  IF kind \in RoundResults /\ nextKind # "End"
  THEN EnqueueRecord ELSE UNCHANGED recording

\* The kinds of transition after which execute_transition enqueues the record:
\* the result of the last round waits for the end of the session.
RecordAfter(kind, nextKind) ==
  IF kind = "End" \/ (kind \in RoundResults /\ nextKind # "End")
  THEN EnqueueRecord ELSE UNCHANGED recording

\* The callbacks of end_session, which returns at once when already ended.
EndLifecycle ==
  /\ ended' = TRUE
  /\ endCalls' = IF ended THEN endCalls ELSE endCalls + 1

\* kStart: the seats are left, shuffled or rotated.
Seatings ==
  IF Duplicate /\ round = 0 THEN {[s \in Seats |-> s]}
  ELSE IF ShufflePeriod # 0 /\ round % ShufflePeriod = 0 THEN Shuffles
  ELSE {[s \in Seats |-> Right(s)]}

\* The abandon check at the start of a round.
Quits(p) ==
  \/ p.abandoned
  \/ ~p.bot /\ (IsAfk(p) \/ p.gone) /\ p.idle = "Long"
Quitters == IF AbandonGame THEN {s \in Seats : Quits(person[s])} ELSE {}
IdleCheck(p) ==
  IF ~AbandonGame \/ p.bot THEN p
  ELSE IF ~(IsAfk(p) \/ p.gone) THEN [p EXCEPT !.idle = "None"]
  ELSE IF p.idle = "None" THEN [p EXCEPT !.idle = "Recent"] ELSE p

-----------------------------------------------------------------------------
(* The constructor: handle_event(kStart) and the first timer.              *)

Init ==
  /\ stage = 0 /\ round = 0
  /\ priority = StartPriority
  /\ next = Ev("Start", 0)
  /\ last = [kind |-> "None", seat |-> 0]
  /\ claims = {} /\ waived = {}
  /\ \E bots \in Bots :
       person = [s \in Seats |-> [bot |-> s \in bots, score |-> 0, afk |-> 0,
                   gone |-> FALSE, abandoned |-> FALSE, idle |-> "None"]]
  /\ tiles = [s \in Seats |-> NoTiles] /\ wall = 0
  /\ avail = Empty /\ declare = {}
  /\ pending = NoWait /\ scheduled = NoWait
  /\ opener = [s \in Seats |-> Stopped]
  /\ late = {} /\ delayed = {}
  /\ timer = TRUE /\ until = {} /\ fired = FALSE
  /\ ended = FALSE /\ endCalls = 0
  /\ started = FALSE /\ saved = TRUE /\ records = <<>>
  /\ call = NoCall /\ doomed = FALSE /\ calls = 0

-----------------------------------------------------------------------------
(* Time and timers.                                                        *)

\* Time passes: an open window outlives its time.
WaitLapses(s) ==
  /\ pending[s] \in Open /\ s \notin late
  /\ late' = late \union {s}
  /\ UNCHANGED <<control, person, table, pending, scheduled, opener, delayed,
                 clock, recording, lifecycle, callers>>

\* Time passes: a player has been away for abandon_afk_timeout_ms.
IdleLapses(s) ==
  /\ AbandonGame /\ person[s].idle = "Recent"
  /\ person' = [person EXCEPT ![s].idle = "Long"]
  /\ UNCHANGED <<control, table, waits, clock, recording, lifecycle, callers>>

\* The transition timer's worker takes the callback, then waits for the mutex.
TimerExpires ==
  /\ timer /\ ~fired /\ until \subseteq late /\ ~NotBefore
  /\ timer' = FALSE /\ until' = {} /\ fired' = TRUE
  /\ UNCHANGED <<control, person, table, waits, recording, lifecycle, callers>>

\* apply_pending: the delayed start of a window.
WaitStarts(s) ==
  /\ opener[s].pending # "None"
  /\ opener' = [opener EXCEPT ![s] = Stopped]
  /\ IF scheduled[s] # opener[s].pending
     THEN UNCHANGED <<pending, scheduled, late>>
     ELSE /\ scheduled' = [scheduled EXCEPT ![s] = "None"]
          /\ IF opener[s].stage # stage
             THEN UNCHANGED <<pending, late>>
             ELSE /\ pending' = [pending EXCEPT ![s] = opener[s].pending]
                  /\ late' = late \ {s}
  /\ UNCHANGED <<control, person, table, delayed, clock, recording, lifecycle, callers>>

-----------------------------------------------------------------------------
(* execute_transition, one action per kind of transition.                  *)

\* What every transition does before the switch.
Executes(kind) ==
  /\ fired /\ next.kind = kind /\ stage < MaxStage
  /\ fired' = FALSE
  /\ stage' = stage + 1 /\ priority' = -1 /\ claims' = {} /\ waived' = {}
  /\ UNCHANGED callers

ExecuteNothing ==
  /\ fired /\ next.kind = "None"
  /\ fired' = FALSE
  /\ UNCHANGED <<control, person, table, waits, timer, until, recording, lifecycle, callers>>

ExecuteStart ==
  /\ Executes("Start") /\ Quitters = {}
  /\ round' = round + 1
  /\ \E seating \in Seatings :
       person' = [s \in Seats |-> IdleCheck(person[seating[s]])]
  /\ tiles' = [s \in Seats |-> NoTiles] /\ wall' = WallTiles
  /\ avail' = Empty /\ declare' = {}
  /\ next' = PredrawBy(0, 0)
  /\ IF Recorded THEN started' = TRUE /\ saved' = FALSE ELSE UNCHANGED <<started, saved>>
  /\ Deliver(Ev("Start", next.seat), Empty, person)
  /\ UNCHANGED <<records, lifecycle>>

\* Someone has abandoned the game, or was away for too long: it ends instead.
ExecuteAbandon ==
  /\ Executes("Start") /\ Quitters # {}
  /\ LET quitter == CHOOSE s \in Quitters : \A t \in Quitters : s <= t
     IN  person' = [s \in Seats |->
                      IF s = quitter THEN [person[s] EXCEPT !.abandoned = TRUE]
                      ELSE IF s < quitter THEN IdleCheck(person[s]) ELSE person[s]]
  /\ EndLifecycle
  /\ next' = NoEvent
  /\ Deliver(Ev("End", 0), Empty, person)
  /\ RecordAfter("End", "None")
  /\ UNCHANGED <<round, table>>

\* Mutation: one draw more than the deal has.
ExecutePredrawLong ==
  /\ Executes("Predraw")
  /\ LET s == next.seat
         k == IF next.n >= 12 THEN 1 ELSE 4
     IN  /\ tiles' = [tiles EXCEPT ![s].hand = @ + k]
         /\ wall' = wall - k
         /\ next' = IF next.n <= 15 THEN PredrawBy(Right(s), next.n + 1)
                    ELSE DrawBy(0, FALSE)
  /\ Deliver(next, Empty, person)
  /\ UNCHANGED <<round, person, avail, declare, recording, lifecycle>>

ExecutePredraw ==
  /\ Executes("Predraw")
  /\ LET s == next.seat
         k == IF next.n >= 12 THEN 1 ELSE 4
     IN  /\ tiles' = [tiles EXCEPT ![s].hand = @ + k]
         /\ wall' = wall - k
         /\ next' = IF next.n < 15 THEN PredrawBy(Right(s), next.n + 1)
                    ELSE DrawBy(0, FALSE)
  /\ Deliver(next, Empty, person)
  /\ UNCHANGED <<round, person, avail, declare, recording, lifecycle>>

ExecuteDraw ==
  /\ Executes("DrawTile") /\ wall > 0
  /\ LET s == next.seat
     IN  /\ wall' = wall - 1
         /\ tiles' = [tiles EXCEPT ![s].drawn = 1]
         /\ next' = ForcedDiscard(s, TRUE)
         /\ declare' \in DeclarationSets(next, person[s], tiles'[s])
  /\ Deliver(next, avail, person)
  /\ UNCHANGED <<round, person, avail, recording, lifecycle>>

\* A draw from an empty wall is a drawn game.
ExecuteDrawnGame ==
  /\ Executes("DrawTile") /\ wall = 0
  /\ next' = NextRound(person)
  /\ Deliver(Ev("DrawnGame", next.seat), avail, person)
  /\ RecordAfter("DrawnGame", next'.kind)
  /\ UNCHANGED <<round, person, table, lifecycle>>

ExecuteDiscard ==
  /\ Executes("DiscardTile")
  /\ person' = AfterForced(next)
  /\ tiles' = [tiles EXCEPT ![next.seat] = DropDiscard(@, next.drawn)]
  /\ next' = DrawBy(Right(next.seat), FALSE)
  /\ React(next, person', tiles')
  /\ declare' = {}
  /\ UNCHANGED <<round, wall, recording, lifecycle>>

\* kChow, kPung, kMeldedKong: the discard joins a meld of the actor.
ExecuteMeld(kind) ==
  /\ Executes(kind)
  /\ LET s == next.seat
     IN  /\ tiles' = [t \in Seats |-> IF t = s THEN TakeMeld(tiles[t], kind)
                                     ELSE IF t = last.seat THEN LoseDiscard(tiles[t])
                                     ELSE tiles[t]]
         /\ IF kind = "MeldedKong"
            THEN next' = DrawBy(s, TRUE) /\ declare' = {}
            ELSE /\ next' = ForcedDiscard(s, FALSE)
                 /\ declare' \in DeclarationSets(next, person[s], tiles'[s])
  /\ Deliver(next, avail, person)
  /\ UNCHANGED <<round, person, wall, avail, recording, lifecycle>>

ExecuteAddedKong ==
  /\ Executes("AddedKong")
  /\ tiles' = [tiles EXCEPT ![next.seat] = AddKong(@, next.drawn)]
  /\ next' = DrawBy(next.seat, TRUE)
  /\ React(next, person, tiles')
  /\ declare' = {}
  /\ UNCHANGED <<round, person, wall, recording, lifecycle>>

ExecuteConcealedKong ==
  /\ Executes("ConcealedKong")
  /\ tiles' = [tiles EXCEPT ![next.seat] = ConcealKong(@, next.drawn)]
  /\ next' = DrawBy(next.seat, TRUE)
  /\ declare' = {}
  /\ Deliver(next, avail, person)
  /\ UNCHANGED <<round, person, wall, avail, recording, lifecycle>>

\* How a win of base point b moves scores.
DiscardWinScores(winner, loser, b) ==
  [s \in Seats |-> [person[s] EXCEPT !.score =
                      @ + (IF s = winner THEN 3 * b ELSE IF s = loser THEN -3 * b ELSE 0)]]
SelfDrawnScores(winner, b) ==
  [s \in Seats |-> [person[s] EXCEPT !.score = @ + (IF s = winner THEN 3 * b ELSE -b)]]

ExecuteWin(kind) ==
  /\ Executes(kind)
  /\ \E b \in BasePoints :
       person' = IF kind = "SelfDrawnWin" THEN SelfDrawnScores(next.seat, b)
                 ELSE DiscardWinScores(next.seat, last.seat, b)
  /\ next' = NextRound(person')
  /\ Deliver(next, avail, person')
  /\ RecordAfter(kind, next'.kind)
  /\ UNCHANGED <<round, table, lifecycle>>

ExecuteEnd ==
  /\ Executes("End")
  /\ EndLifecycle
  /\ next' = NoEvent
  /\ Deliver(Ev("End", 0), avail, person)
  /\ RecordAfter("End", "None")
  /\ UNCHANGED <<round, person, table>>

ExecuteTransition ==
  \/ ExecuteNothing
  \/ ExecuteStart
  \/ ExecuteAbandon
  \/ ExecutePredraw
  \/ ExecuteDraw
  \/ ExecuteDrawnGame
  \/ ExecuteDiscard
  \/ \E kind \in {"Chow", "Pung", "MeldedKong"} : ExecuteMeld(kind)
  \/ ExecuteAddedKong
  \/ ExecuteConcealedKong
  \/ \E kind \in Wins : ExecuteWin(kind)
  \/ ExecuteEnd

-----------------------------------------------------------------------------
(* handle_event, one action per event of a seat.                           *)

\* Every accepted decision clears the afk state of its seat.
Awake(s) == person' = [person EXCEPT ![s] = Cleared(@)]

\* validity of handle_event, for the player on turn.
MayDecide(s, kind, drawn) ==
  /\ AfterDraw(s) \/ AfterMeld(s)
  /\ CanDecide(s)
  /\ \/ kind = "DiscardTile" /\ (IF drawn THEN tiles[s].drawn = 1 ELSE tiles[s].hand > 0)
     \/ kind = "AddedKong" /\ (IF drawn THEN "AddedDraw" ELSE "AddedHand") \in declare
     \/ kind = "ConcealedKong" /\ (IF drawn THEN "ConcealedDraw" ELSE "ConcealedHand") \in declare
     \/ kind = "SelfDrawnWin" /\ AfterDraw(s) /\ drawn /\ "SelfDrawnWin" \in declare

\* validity of handle_event, for the others.
MayClaim(s, kind) ==
  /\ IF kind = "RobAddedKongWin" THEN AfterAddedKong(s) ELSE AfterDiscard(s)
  /\ CanDecide(s)
  /\ kind \in avail[s]
MayPass(s) == (AfterDiscard(s) \/ AfterAddedKong(s)) /\ CanDecide(s)

\* The player on turn replaces the default discard: kDiscardTile, kAddedKong,
\* kConcealedKong and kSelfDrawnWin.
DecideSelf(s, kind, drawn) ==
  /\ MayDecide(s, kind, drawn)
  /\ Awake(s)
  /\ IF priority < SelfPriority
     THEN /\ priority' = SelfPriority
          /\ next' = [Ev(kind, s) EXCEPT !.drawn = drawn]
          /\ EndWait(s)
          /\ SetTimer({})
     ELSE UNCHANGED <<priority, next, waits, clock>>
  /\ UNCHANGED <<stage, round, last, claims, waived, table, recording, lifecycle, callers>>

\* A claim on the last discard or added kong.  A claim that beats the accepted
\* one replaces it, takes the options it beats away from the others, and gives
\* those who still have one a new secondary window.
Claim(s, kind) ==
  /\ MayClaim(s, kind)
  /\ claims' = claims \union {[kind |-> kind, seat |-> s]}
  /\ Awake(s)
  /\ LET p == Priority(kind, s, last.seat)
         options == [i \in Seats |-> IF i = last.seat THEN avail[i] ELSE Masked(avail[i], i, p)]
         others == Seats \ {s, last.seat}
         reopened == {i \in others : options[i] # {}}
         closed == {s} \union {i \in others \ reopened : pending[i] # "None"}
     IN  IF priority < p
         THEN /\ priority' = p
              /\ next' = Ev(kind, s)
              /\ avail' = options
              /\ pending' = [i \in Seats |-> IF i \in reopened THEN "Secondary"
                                             ELSE IF i \in closed THEN "None" ELSE pending[i]]
              /\ scheduled' = [i \in Seats |->
                                 IF i \in reopened \union closed THEN "None" ELSE scheduled[i]]
              /\ late' = late \ (reopened \union closed)
              /\ SetTimer({})
              /\ UNCHANGED <<opener, delayed>>
         ELSE Checked(s) /\ UNCHANGED <<priority, next, avail, clock>>
  /\ UNCHANGED <<stage, round, last, waived, tiles, wall, declare, recording, lifecycle, callers>>

\* Mutation: time_left returns its minimum whatever windows are open.
TimeLeftAtOnce(window, start) ==
  /\ pending' = [i \in Seats |-> Refresh(window[i], start[i], i \in late)]
  /\ scheduled' = start
  /\ late' = {i \in late : pending'[i] \in Open}
  /\ SetTimer({})
  /\ UNCHANGED <<opener, delayed>>

\* set_timer(time_left(...)): every window is refreshed and the timer covers
\* those that are open.  A window whose start is still scheduled has no
\* pending_from_ms: the time it is taken to have left wraps around and either
\* counts for nothing or puts the deadline weeks away.  In the first case the
\* timer waits for the start of that window (NotBefore) but not for its end.
TimeLeft(window, start) ==
  /\ pending' = [i \in Seats |-> Refresh(window[i], start[i], i \in late)]
  /\ scheduled' = start
  /\ late' = {i \in late : pending'[i] \in Open}
  /\ \/ SetTimer({i \in Seats : start[i] = "None" /\ pending'[i] \in Open})
     \/ /\ \E i \in Seats : start[i] \in Open
        /\ SetTimer({Never})
  /\ UNCHANGED <<opener, delayed>>

\* kPass.  While another window is open the seat is marked slept, which
\* time_left undoes at once.  A pass that follows another seat's claim within
\* pass_margin_ms is ignored, which is a stuttering step here.
Pass(s) ==
  /\ MayPass(s)
  /\ Awake(s)
  /\ LET window == [pending EXCEPT ![s] = "None"]
         start == [scheduled EXCEPT ![s] = "None"]
         waiting == {i \in Seats : Status(window[i], start[i], i \in late) # "None"}
         \* claim_finalised refreshes seat after seat, up to the first that waits
         seen == [i \in Seats |-> IF \A j \in waiting : i <= j
                                  THEN Refresh(window[i], start[i], i \in late)
                                  ELSE window[i]]
     IN  TimeLeft(IF waiting = {} THEN seen ELSE [seen EXCEPT ![s] = "Slept"], start)
  /\ UNCHANGED <<control, table, recording, lifecycle, callers>>

\* Mutation: a final pass leaves the options of its seat alone.
FinalPassKeepingOptions(s) ==
  /\ MayPass(s)
  /\ Awake(s)
  /\ waived' = waived \union {s}
  /\ TimeLeft([pending EXCEPT ![s] = "None"], [scheduled EXCEPT ![s] = "None"])
  /\ UNCHANGED <<stage, round, priority, next, last, claims, table,
                 recording, lifecycle, callers>>

\* kFinalPass: the seat gives up its options on this discard for good.
FinalPass(s) ==
  /\ MayPass(s)
  /\ Awake(s)
  /\ waived' = waived \union {s}
  /\ avail' = [avail EXCEPT ![s] = {}]
  /\ TimeLeft([pending EXCEPT ![s] = "None"], [scheduled EXCEPT ![s] = "None"])
  /\ UNCHANGED <<stage, round, priority, next, last, claims, tiles, wall, declare,
                 recording, lifecycle, callers>>

\* An event of this stage that is refused still refreshed the window of its seat.
Refused(s) ==
  /\ AfterDraw(s) \/ AfterMeld(s) \/ AfterDiscard(s) \/ AfterAddedKong(s)
  /\ Twice(s) # pending[s]
  /\ Checked(s)
  /\ UNCHANGED <<control, person, table, clock, recording, lifecycle, callers>>

\* player_leaves and player_resumes look the seat up before they lock.
PresenceCall(s, op) ==
  /\ call = NoCall /\ calls < MaxCalls
  /\ ~person[s].bot
  /\ call' = [op |-> op, seat |-> s]
  /\ calls' = calls + 1
  /\ UNCHANGED <<control, person, table, waits, clock, recording, lifecycle, doomed>>

Presence ==
  /\ call # NoCall
  /\ person' = [person EXCEPT ![call.seat] = IF call.op = "Left" THEN Left(@) ELSE Cleared(@)]
  /\ call' = NoCall
  /\ UNCHANGED <<control, table, waits, clock, recording, lifecycle, doomed, calls>>

SetAbandoned(s, abandon) ==
  /\ AbandonGame /\ ~person[s].bot /\ person[s].abandoned # abandon
  /\ calls < MaxCalls /\ calls' = calls + 1
  /\ person' = [person EXCEPT ![s].abandoned = abandon,
                              ![s].idle = IF abandon THEN @ ELSE "None"]
  /\ UNCHANGED <<control, table, waits, clock, recording, lifecycle, call, doomed>>

-----------------------------------------------------------------------------
(* The collector of the hub ends a session that everybody has left.  It    *)
(* reads the seats without the mutex of the session.                       *)

CollectorLooks ==
  /\ ~doomed /\ ~ended
  /\ \A s \in Seats : IsAfk(person[s]) \/ person[s].gone
  /\ doomed' = TRUE
  /\ UNCHANGED <<control, person, table, waits, clock, recording, lifecycle, call, calls>>

\* Mutation: end_session stops the timers and keeps next_transition.
CollectorEndsKeepingNext ==
  /\ doomed /\ doomed' = FALSE
  /\ EndLifecycle
  /\ IF ended
     THEN UNCHANGED <<control, waits, clock, recording>>
     ELSE /\ pending' = NoWait /\ scheduled' = NoWait /\ late' = {}
          /\ opener' = [s \in Seats |-> Stopped]
          /\ timer' = FALSE /\ until' = {}
          /\ last' = IF Recorded /\ started THEN [kind |-> "End", seat |-> 0] ELSE last
          /\ EnqueueRecord
          /\ UNCHANGED <<stage, round, priority, next, claims, waived, delayed, fired>>
  /\ UNCHANGED <<person, table, call, calls>>

\* end_session(now, true)
CollectorEnds ==
  /\ doomed /\ doomed' = FALSE
  /\ EndLifecycle
  /\ IF ended
     THEN UNCHANGED <<control, waits, clock, recording>>
     ELSE /\ next' = NoEvent
          /\ pending' = NoWait /\ scheduled' = NoWait /\ late' = {}
          /\ opener' = [s \in Seats |-> Stopped]
          /\ timer' = FALSE /\ until' = {}
          /\ last' = IF Recorded /\ started THEN [kind |-> "End", seat |-> 0] ELSE last
          /\ EnqueueRecord
          /\ UNCHANGED <<stage, round, priority, claims, waived, delayed, fired>>
  /\ UNCHANGED <<person, table, call, calls>>

-----------------------------------------------------------------------------
Decide(s) ==
  \/ \E drawn \in BOOLEAN : DecideSelf(s, "DiscardTile", drawn)
  \/ \E drawn \in BOOLEAN : DecideSelf(s, "AddedKong", drawn)
  \/ \E drawn \in BOOLEAN : DecideSelf(s, "ConcealedKong", drawn)
  \/ DecideSelf(s, "SelfDrawnWin", TRUE)
  \/ \E kind \in ReactionKinds : Claim(s, kind)
  \/ Pass(s)
  \/ FinalPass(s)
  \/ Refused(s)

Callers ==
  \/ \E s \in Seats, op \in {"Left", "Resumed"} : PresenceCall(s, op)
  \/ Presence
  \/ \E s \in Seats, abandon \in BOOLEAN : SetAbandoned(s, abandon)
  \/ CollectorLooks
  \/ CollectorEnds

Time ==
  \/ \E s \in Seats : WaitLapses(s) \/ IdleLapses(s) \/ WaitStarts(s)
  \/ TimerExpires

Next == ExecuteTransition \/ (\E s \in Seats : Decide(s)) \/ Callers \/ Time

Spec == Init /\ [][Next]_vars

-----------------------------------------------------------------------------
(* Correctness.                                                            *)

Person == [bot : BOOLEAN, score : Int, afk : Nat, gone : BOOLEAN,
           abandoned : BOOLEAN, idle : {"None", "Recent", "Long"}]
Tiles == [hand : Int, drawn : 0..1, chows : Int, pungs : Int, kongs : Int, pile : Int]

ControlOK ==
  /\ stage \in Nat /\ round \in Nat
  /\ priority \in {-1} \union 10..100
  /\ next \in Event
  /\ last \in [kind : Kinds, seat : Seats]
  /\ claims \subseteq [kind : ReactionKinds, seat : Seats] /\ waived \subseteq Seats
PersonOK == person \in [Seats -> Person]
TableOK ==
  /\ tiles \in [Seats -> Tiles]
  /\ wall \in Int
  /\ avail \in [Seats -> SUBSET ReactionKinds]
  /\ declare \subseteq DeclarationKinds
WaitsOK ==
  /\ pending \in [Seats -> Open \union {"None", "Slept"}]
  /\ scheduled \in [Seats -> Open \union {"None"}]
  /\ opener \in [Seats -> [pending : Open \union {"None"}, stage : Nat]]
  /\ late \subseteq Seats /\ delayed \subseteq Seats
ClockOK ==
  /\ timer \in BOOLEAN /\ fired \in BOOLEAN
  /\ until \subseteq Seats \union {Never}
RecordingOK == started \in BOOLEAN /\ saved \in BOOLEAN /\ records \in Seq(Nat)
LifecycleOK == ended \in BOOLEAN /\ endCalls \in Nat
CallersOK ==
  /\ call \in [op : {"None", "Left", "Resumed"}, seat : Seats]
  /\ doomed \in BOOLEAN /\ calls \in Nat

\* Every variable has its type: no event, seat, priority or predraw number is
\* ever outside the range the code gives it.
TypeOK ==
  /\ ControlOK /\ PersonOK /\ TableOK /\ WaitsOK
  /\ ClockOK /\ RecordingOK /\ LifecycleOK /\ CallersOK

Dealt == last.kind \notin {"None", "Start", "Predraw", "End"}
Melds(t) == t.chows + t.pungs + t.kongs
Held(t) == t.hand + t.drawn + t.pile + 3 * (t.chows + t.pungs) + 4 * t.kongs

\* After the deal every seat holds thirteen tiles, a meld counted as three,
\* and one more exactly while its player is on turn: drawn after a draw, in
\* hand after a chow or a pung.  No count is ever negative.
HandShape ==
  Dealt => \A s \in Seats :
    /\ \A field \in DOMAIN tiles[s] : tiles[s][field] >= 0
    /\ tiles[s].hand + 3 * Melds(tiles[s]) =
         13 + (IF last.kind \in {"Chow", "Pung"} /\ last.seat = s THEN 1 ELSE 0)
    /\ AfterDraw(s) => tiles[s].drawn = 1
    /\ last.kind \in {"DiscardTile", "AddedKong", "ConcealedKong", "MeldedKong"}
         => tiles[s].drawn = 0

\* No transition of a round creates or loses a tile.
TilesConserved ==
  last.kind # "None" /\ round > 0 =>
    /\ wall >= 0
    /\ wall + Held(tiles[0]) + Held(tiles[1]) + Held(tiles[2]) + Held(tiles[3])
         = WallTiles

\* A session that is not over always has a transition to come and a timer, or
\* the callback of one, that will execute it.
NeverStuck == ~ended => next.kind # "None" /\ (timer \/ fired)

\* A session ends once, by its last round, an abandoned game or the collector,
\* whichever is first: the end callbacks run a single time, and nothing that is
\* still in flight revives the session afterwards.
EndedIsFinal ==
  /\ endCalls = (IF ended THEN 1 ELSE 0)
  /\ ended => /\ next = NoEvent
              /\ ~timer
              /\ \A s \in Seats : pending[s] = "None" /\ scheduled[s] = "None"

\* The rule of the game for two claims on one tile: a win beats a pung or a
\* kong, which beats a chow, and of two winners the one who comes first in
\* turn order after the discarder wins.
Rank(kind) == IF kind = "Chow" THEN 1 ELSE IF kind \in Wins THEN 3 ELSE 2
TurnsFrom(seat) == (seat - last.seat + 4) % 4
Beats(c, d) ==
  \/ Rank(c.kind) > Rank(d.kind)
  \/ c.kind \in Wins /\ d.kind \in Wins /\ TurnsFrom(c.seat) < TurnsFrom(d.seat)

\* Whatever the order in which the claims on a tile arrive, the one that the
\* rules prefer is the transition to come.
BestClaimWins ==
  claims # {} /\ ~ended =>
    \E c \in claims : /\ next.kind = c.kind /\ next.seat = c.seat
                     /\ \A d \in claims \ {c} : Beats(c, d)

\* A claim that handle_event accepts takes effect: it is never recorded and
\* then dropped for an earlier claim of the same or of a higher rank.
NoClaimInVain ==
  [][\A c \in claims' \ claims : next'.kind = c.kind /\ next'.seat = c.seat]_vars

\* A seat that gave up a tile for good is never asked again about it, neither
\* by a claim that reopens the windows of others nor by a delayed start.
WaivedForGood ==
  \A s \in waived : /\ avail[s] = {}
                    /\ pending[s] = "None" /\ scheduled[s] = "None"
                    /\ next.kind \in ReactionKinds => next.seat # s

\* The default transition, which nobody's decision has replaced, is executed
\* only after every window that was granted has been opened and has lapsed or
\* was given up.
WindowsRespected ==
  [][stage' # stage /\ priority = -1 =>
       \A s \in Seats : /\ scheduled[s] = "None"
                        /\ pending[s] \in Open => s \in late]_vars

\* Windows are only opened for seats that have something to decide.  Only a window
\* whose start was delayed may open after a claim has taken the options of its seat.
WindowsHaveOptions ==
  \A s \in Seats : pending[s] \in Open =>
    AfterDraw(s) \/ AfterMeld(s) \/ avail[s] # {} \/ (Delays /\ claims # {})

\* Nobody waits for a seat that is afk.
AfkNeverAwaited ==
  \A s \in Seats : IsAfk(person[s]) => pending[s] \notin Open /\ scheduled[s] = "None"

\* The record of a round is handed over at most once, in the order of the rounds,
\* although its result and three ways of ending the session may hand it over;
\* and when the session is over every round that was started has been recorded,
\* also the one that the end cut short, and no more than were configured.
RecordsComplete ==
  /\ \A i, j \in DOMAIN records : i < j => records[i] < records[j]
  /\ ended /\ Recorded /\ ~MayRefuse =>
       /\ records = [i \in 1..round |-> i]
       /\ RoundCount # 0 => round <= RoundCount

\* The deadline set last has passed when the transition is executed: a claim
\* that others may still override is not cut short.
OverrideWindow == [][stage' # stage => ~timer]_vars

\* A claim is refused once the window of its seat has lapsed.
NoLateClaim ==
  [][\A c \in claims' \ claims :
       scheduled[c.seat] # "None" \/ (pending[c.seat] \in Open /\ c.seat \notin late)]_vars

\* Whatever the players do or fail to do, the game goes on until it ends.
GoesOn == <>(ended \/ stage = MaxStage)

\* The worker threads run and time passes.
Fairness ==
  /\ WF_vars(ExecuteTransition)
  /\ WF_vars(TimerExpires)
  /\ \A s \in Seats : WF_vars(WaitLapses(s)) /\ WF_vars(WaitStarts(s))

FairSpec == Spec /\ Fairness

-----------------------------------------------------------------------------
(* The game behind the session.                                            *)

Concealed(t) == t.hand + t.drawn

\* The table as its players know it: the transitions that were executed, the
\* tiles in each hand, drawn or not, and melds of any kind.
Table == INSTANCE TableRules WITH
  concealed <- [s \in Seats |-> Concealed(tiles[s])],
  melds <- [s \in Seats |-> Melds(tiles[s])],
  points <- [s \in Seats |-> person[s].score]

\* Behind the claims that arrive late or in any order, the windows that lapse,
\* defaults, races of timers and players who leave, the executed transitions
\* make up one legal game: each is a move its seat is entitled to after the
\* one before, every round begins after the result of the last, and nothing
\* follows the end.
FollowsRules == Table!Spec

=============================================================================
