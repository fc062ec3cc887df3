------------------------------ MODULE SessionProofs ------------------------------
(***************************************************************************)
(* Theorems about Session, for every value of its constants: its types,    *)
(* the life of a game, and which claim on a tile wins.  SessionTiles has   *)
(* the theorems about the tiles.                                           *)
(***************************************************************************)
EXTENDS Session, TLAPS

-----------------------------------------------------------------------------
(* The types of the operators the actions are built from.                  *)

LEMMA EvTyped ==
  ASSUME NEW kind \in Kinds, NEW seat \in Seats
  PROVE  Ev(kind, seat) \in Event
BY DEF Ev, Event

LEMMA DrawTyped ==
  ASSUME NEW seat \in Seats, NEW b \in BOOLEAN
  PROVE  DrawBy(seat, b) \in Event /\ ForcedDiscard(seat, b) \in Event
<1>1. DrawBy(seat, b) \in Event
  <2>1. Ev("DrawTile", seat) \in Event
    BY EvTyped DEF Kinds
  <2>2. QED
    BY <2>1 DEF DrawBy, Event
<1>2. ForcedDiscard(seat, b) \in Event
  <2> DEFINE d == Ev("DiscardTile", seat)
             f == [d EXCEPT !.forced = TRUE]
  <2>1. ForcedDiscard(seat, b) = [f EXCEPT !.drawn = b]
    BY DEF ForcedDiscard
  <2>2. d \in Event
    BY EvTyped DEF Kinds
  <2> HIDE DEF d
  <2>3. f \in Event
    BY <2>2 DEF Event
  <2> HIDE DEF f
  <2>4. QED
    BY <2>1, <2>3 DEF Event
<1>3. QED
  BY <1>1, <1>2

LEMMA PredrawTyped ==
  ASSUME NEW seat \in Seats, NEW n \in 0..15
  PROVE  PredrawBy(seat, n) \in Event
<1>1. Ev("Predraw", seat) \in Event
  BY EvTyped DEF Kinds
<1>2. QED
  BY <1>1 DEF PredrawBy, Event

LEMMA NoEventTyped == NoEvent \in Event
BY DEF NoEvent, Ev, Event, Kinds, Seats

LEMMA NextRoundTyped == ASSUME NEW people PROVE NextRound(people) \in Event
BY DEF NextRound, Ev, Event, Kinds, Seats

LEMMA RightTyped == ASSUME NEW s \in Seats PROVE Right(s) \in Seats
BY DEF Right, Seats

LEMMA PriorityTyped ==
  ASSUME NEW kind, NEW seat \in Seats, NEW target \in Seats
  PROVE  Priority(kind, seat, target) \in 10..90
BY DEF Priority, Seats, SelfPriority

LEMMA PersonTyped ==
  ASSUME NEW p \in Person
  PROVE  /\ Cleared(p) \in Person /\ Left(p) \in Person
         /\ TimedOut(p) \in Person /\ IdleCheck(p) \in Person
<1>1. Cleared(p) \in Person
  BY DEF Cleared, Person
<1>2. Left(p) \in Person
  BY DEF Left, Person, AfkLimit
<1>3. TimedOut(p) \in Person
  <2> DEFINE q == [p EXCEPT !.afk = @ + 1]
  <2>1. q \in Person /\ q.idle = p.idle
    BY DEF Person
  <2>2. TimedOut(p) = [q EXCEPT !.idle = IF ~IsAfk(p) /\ p.afk + 1 > AfkLimit
                                         THEN "Recent" ELSE @]
    BY DEF TimedOut, Person
  <2> HIDE DEF q
  <2>3. QED
    BY <2>1, <2>2 DEF Person
<1>4. IdleCheck(p) \in Person
  BY DEF IdleCheck, Person
<1>5. QED
  BY <1>1, <1>2, <1>3, <1>4

LEMMA TilesTyped ==
  ASSUME NEW t \in Tiles, NEW drawn \in BOOLEAN, NEW kind
  PROVE  /\ DropDiscard(t, drawn) \in Tiles /\ TakeMeld(t, kind) \in Tiles
         /\ AddKong(t, drawn) \in Tiles /\ ConcealKong(t, drawn) \in Tiles
         /\ LoseDiscard(t) \in Tiles
<1> DEFINE hand(n) == [t EXCEPT !.hand = n]
           free(n) == [hand(n) EXCEPT !.drawn = 0]
<1>1. t.hand \in Int /\ t.drawn \in Int /\ t.pungs \in Int
  BY DEF Tiles
<1>2. \A n \in Int : hand(n) \in Tiles /\ free(n) \in Tiles
  <2>1. \A n \in Int : hand(n) \in Tiles
    BY DEF Tiles
  <2> HIDE DEF hand
  <2>2. \A n \in Int : free(n) \in Tiles
    BY <2>1 DEF Tiles
  <2>3. QED
    BY <2>1, <2>2
<1> HIDE DEF hand, free
<1>3. DropDiscard(t, drawn) \in Tiles
  <2>1. CASE drawn
    <3> DEFINE u == [t EXCEPT !.drawn = 0]
    <3>1. DropDiscard(t, drawn) = [u EXCEPT !.pile = @ + 1]
      BY <2>1 DEF DropDiscard
    <3>2. u \in Tiles
      BY DEF Tiles
    <3> HIDE DEF u
    <3>3. QED
      BY <3>1, <3>2 DEF Tiles
  <2>2. CASE ~drawn
    <3> DEFINE u == free(t.hand - 1 + t.drawn)
    <3>1. DropDiscard(t, drawn) = [u EXCEPT !.pile = @ + 1]
      BY <2>2 DEF DropDiscard, hand, free
    <3>2. u \in Tiles
      BY <1>1, <1>2
    <3> HIDE DEF u
    <3>3. QED
      BY <3>1, <3>2 DEF Tiles
  <2>3. QED
    BY <2>1, <2>2
<1>4. TakeMeld(t, kind) \in Tiles
  <2> DEFINE u(n) == hand(t.hand - n)
  <2>1. u(2) \in Tiles /\ u(3) \in Tiles
    BY <1>1, <1>2
  <2>2. TakeMeld(t, kind) \in {[u(2) EXCEPT !.chows = @ + 1], [u(2) EXCEPT !.pungs = @ + 1],
                               [u(3) EXCEPT !.kongs = @ + 1]}
    BY DEF TakeMeld, hand
  <2> HIDE DEF u
  <2>3. QED
    BY <2>1, <2>2 DEF Tiles
<1>5. AddKong(t, drawn) \in Tiles
  <2> DEFINE u == free(IF drawn THEN t.hand ELSE t.hand + t.drawn - 1)
             v == [u EXCEPT !.pungs = @ - 1]
  <2>1. u \in Tiles
    BY <1>1, <1>2
  <2>2. AddKong(t, drawn) = [v EXCEPT !.kongs = @ + 1]
    BY DEF AddKong, hand, free
  <2> HIDE DEF u
  <2>3. v \in Tiles
    BY <2>1 DEF Tiles
  <2> HIDE DEF v
  <2>4. QED
    BY <2>2, <2>3 DEF Tiles
<1>6. ConcealKong(t, drawn) \in Tiles
  <2> DEFINE u == free(IF drawn THEN t.hand - 3 ELSE t.hand + t.drawn - 4)
  <2>1. u \in Tiles
    BY <1>1, <1>2
  <2>2. ConcealKong(t, drawn) = [u EXCEPT !.kongs = @ + 1]
    BY DEF ConcealKong, hand, free
  <2> HIDE DEF u
  <2>3. QED
    BY <2>1, <2>2 DEF Tiles
<1>7. LoseDiscard(t) \in Tiles
  BY DEF LoseDiscard, Tiles
<1>8. QED
  BY <1>3, <1>4, <1>5, <1>6, <1>7

LEMMA RefreshTyped ==
  ASSUME NEW w \in Open \union {"None", "Slept"}, NEW start, NEW b
  PROVE  Refresh(w, start, b) \in Open \union {"None", "Slept"}
BY DEF Refresh

LEMMA PolicyTyped ==
  ASSUME NEW s, NEW e, NEW options, NEW people
  PROVE  Policy(s, e, options, people) \in Open \union {"None"}
BY DEF Policy, Open

-----------------------------------------------------------------------------
(* The types of what the shared parts of the actions assign.               *)

LEMMA DeliverTyped ==
  ASSUME NEW e \in Event, NEW options, NEW people, WaitsOK, stage' \in Nat,
         Deliver(e, options, people)
  PROVE  /\ WaitsOK'
         /\ timer' \in BOOLEAN /\ until' \subseteq Seats \union {Never}
         /\ last' \in [kind : Kinds, seat : Seats]
<1> DEFINE policy(s) == Policy(s, e, options, people)
           awaited == {s \in Seats : policy(s) # "None"}
<1>1. \A s \in Seats : policy(s) \in Open \union {"None"}
  BY PolicyTyped
<1>2. PICK slow \in SlowSets(e, awaited) :
        /\ pending' = [s \in Seats |-> IF s \in slow THEN "None" ELSE policy(s)]
        /\ scheduled' = [s \in Seats |-> IF s \in slow THEN policy(s) ELSE "None"]
        /\ opener' = [s \in Seats |->
                        IF e.kind = "End" THEN Stopped
                        ELSE IF s \in slow
                        THEN [pending |-> policy(s), stage |-> stage']
                        ELSE opener[s]]
  BY DEF Deliver
<1>3. pending' \in [Seats -> Open \union {"None", "Slept"}]
  BY <1>1, <1>2
<1>4. scheduled' \in [Seats -> Open \union {"None"}]
  BY <1>1, <1>2
<1>5. opener' \in [Seats -> [pending : Open \union {"None"}, stage : Nat]]
  BY <1>1, <1>2 DEF WaitsOK, Stopped
<1>6. late' \subseteq Seats /\ delayed' \subseteq Seats
  BY DEF Deliver, NextDelayed, WaitsOK
<1>7. timer' \in BOOLEAN /\ until' \subseteq Seats \union {Never}
  BY DEF Deliver
<1>8. last' \in [kind : Kinds, seat : Seats]
  BY DEF Deliver, Event
<1>9. QED
  BY <1>3, <1>4, <1>5, <1>6, <1>7, <1>8 DEF WaitsOK

LEMMA ReactTyped ==
  ASSUME NEW e \in Event, NEW people, NEW ts, WaitsOK, stage' \in Nat, React(e, people, ts)
  PROVE  /\ avail' \in [Seats -> SUBSET ReactionKinds]
         /\ WaitsOK'
         /\ timer' \in BOOLEAN /\ until' \subseteq Seats \union {Never}
         /\ last' \in [kind : Kinds, seat : Seats]
<1>1. PICK a \in ReactionSets(0, e, people, ts), b \in ReactionSets(1, e, people, ts),
           c \in ReactionSets(2, e, people, ts), d \in ReactionSets(3, e, people, ts) :
        LET options == [s \in Seats |-> <<a, b, c, d>>[s + 1]]
        IN  avail' = options /\ Deliver(e, options, people)
  BY DEF React
<1>2. \A s \in Seats : ReactionSets(s, e, people, ts) \subseteq SUBSET ReactionKinds
  BY ReactionsAssumption DEF ReactionSets
<1>3. avail' \in [Seats -> SUBSET ReactionKinds]
  BY <1>1, <1>2 DEF Seats
<1>4. QED
  BY <1>1, <1>3, DeliverTyped

LEMMA RecordTyped ==
  ASSUME RecordingOK, round \in Nat, NEW kind, NEW nextKind, RecordAfter(kind, nextKind)
  PROVE  RecordingOK'
<1>1. CASE UNCHANGED recording
  BY <1>1 DEF RecordingOK, recording
<1>2. CASE saved' = TRUE /\ records' = Append(records, round) /\ UNCHANGED started
  <2>1. records' \in Seq(Nat)
    BY <1>2 DEF RecordingOK
  <2>2. QED
    BY <1>2, <2>1 DEF RecordingOK
<1>3. QED
  BY <1>1, <1>2 DEF RecordAfter, EnqueueRecord

LEMMA EndTyped ==
  ASSUME LifecycleOK, EndLifecycle PROVE LifecycleOK'
BY DEF LifecycleOK, EndLifecycle

LEMMA ExecutesTyped ==
  ASSUME TypeOK, NEW kind, Executes(kind)
  PROVE  /\ stage' \in Nat /\ priority' \in {-1} \union 10..100 /\ fired' \in BOOLEAN
         /\ claims' \subseteq [kind : ReactionKinds, seat : Seats] /\ waived' \subseteq Seats
         /\ CallersOK'
<1>1. stage' \in Nat
  BY DEF TypeOK, ControlOK, Executes
<1>2. CallersOK'
  BY DEF TypeOK, CallersOK, Executes, callers
<1>3. QED
  BY <1>1, <1>2 DEF Executes

-----------------------------------------------------------------------------
LEMMA TypeInit == Init => TypeOK
<1> SUFFICES ASSUME Init PROVE TypeOK
  OBVIOUS
<1>1. ControlOK
  BY EvTyped DEF Init, ControlOK, StartPriority, Kinds, Seats
<1>2. PersonOK
  BY DEF Init, PersonOK, Person
<1>3. TableOK
  BY DEF Init, TableOK, NoTiles, Tiles, Empty
<1>4. WaitsOK
  BY DEF Init, WaitsOK, NoWait, Stopped
<1>5. ClockOK /\ LifecycleOK
  BY DEF Init, ClockOK, LifecycleOK
<1>6. RecordingOK
  <2>1. <<>> \in Seq(Nat)
    OBVIOUS
  <2>2. QED
    BY <2>1 DEF Init, RecordingOK
<1>7. CallersOK
  <2>1. NoCall \in [op : {"None", "Left", "Resumed"}, seat : Seats]
    BY DEF NoCall, Seats
  <2>2. QED
    BY <2>1 DEF Init, CallersOK
<1>8. QED
  BY <1>1, <1>2, <1>3, <1>4, <1>5, <1>6, <1>7 DEF TypeOK

\* One transition: given the types of what it assigns itself, the rest follows.
LEMMA TypeExecutes ==
  ASSUME TypeOK, NEW kind, Executes(kind),
         round' \in Nat, next' \in Event,
         last' \in [kind : Kinds, seat : Seats],
         PersonOK', TableOK', WaitsOK',
         timer' \in BOOLEAN, until' \subseteq Seats \union {Never},
         RecordingOK', LifecycleOK'
  PROVE  TypeOK'
<1>1. ControlOK'
  BY ExecutesTyped DEF ControlOK
<1>2. ClockOK'
  BY ExecutesTyped DEF ClockOK
<1>3. CallersOK'
  BY ExecutesTyped
<1>4. QED
  BY <1>1, <1>2, <1>3 DEF TypeOK

\* What the actions read from a state of the right type.
LEMMA TypeReads ==
  ASSUME TypeOK
  PROVE  /\ next \in Event /\ next.seat \in Seats /\ next.drawn \in BOOLEAN
         /\ last.seat \in Seats /\ round \in Nat /\ wall \in Int
         /\ \A s \in Seats : person[s] \in Person /\ tiles[s] \in Tiles
BY DEF TypeOK, ControlOK, PersonOK, TableOK, Event

\* Replacing one or two entries of a function.
LEMMA OneTyped ==
  ASSUME NEW S, NEW T, NEW f \in [S -> T], NEW s \in S, NEW v \in T
  PROVE  [f EXCEPT ![s] = v] \in [S -> T]
OBVIOUS

LEMMA DeclarationsTyped ==
  ASSUME NEW e, NEW p, NEW t
  PROVE  DeclarationSets(e, p, t) \subseteq SUBSET DeclarationKinds
BY DeclarationsAssumption DEF DeclarationSets

LEMMA SeatingTyped ==
  ASSUME NEW seating \in Seatings PROVE seating \in [Seats -> Seats]
BY ShufflesAssumption, RightTyped DEF Seatings

LEMMA TypeExecute == ASSUME TypeOK, ExecuteTransition PROVE TypeOK'
<1> USE DEF TypeOK
<1>0. UNCHANGED recording => RecordingOK'
  BY DEF RecordingOK, recording
<1>1. UNCHANGED lifecycle => LifecycleOK'
  BY DEF LifecycleOK, lifecycle
<1>2. UNCHANGED table => TableOK'
  BY DEF TableOK, table
<1>3. UNCHANGED person => PersonOK'
  BY DEF PersonOK
<1>4. CASE ExecuteNothing
  BY <1>4 DEF ExecuteNothing, control, table, waits, recording, lifecycle, callers,
     ControlOK, PersonOK, TableOK, WaitsOK, ClockOK, RecordingOK, LifecycleOK, CallersOK
<1>5. CASE ExecuteStart
  <2>1. PICK seating \in Seatings :
          person' = [s \in Seats |-> IdleCheck(person[seating[s]])]
    BY <1>5 DEF ExecuteStart
  <2>2. PersonOK'
    BY <2>1, SeatingTyped, TypeReads, PersonTyped DEF PersonOK
  <2>3. TableOK'
    BY <1>5, WallAssumption DEF ExecuteStart, TableOK, NoTiles, Tiles, Empty
  <2>4. next' \in Event
    BY <1>5, PredrawTyped DEF ExecuteStart, Seats
  <2>5. Ev("Start", next.seat) \in Event
    BY TypeReads, EvTyped DEF Kinds
  <2>6. RecordingOK'
    BY <1>5 DEF ExecuteStart, RecordingOK
  <2>7. QED
    BY <1>1, <1>5, <2>2, <2>3, <2>4, <2>5, <2>6, TypeReads, DeliverTyped, ExecutesTyped, TypeExecutes
    DEF ExecuteStart
<1>6. CASE ExecuteAbandon
  <2>1. PersonOK'
    <3> DEFINE quitter == CHOOSE s \in Quitters : \A t \in Quitters : s <= t
    <3>1. person' = [s \in Seats |->
                      IF s = quitter THEN [person[s] EXCEPT !.abandoned = TRUE]
                      ELSE IF s < quitter THEN IdleCheck(person[s]) ELSE person[s]]
      BY <1>6 DEF ExecuteAbandon
    <3>2. \A s \in Seats : [person[s] EXCEPT !.abandoned = TRUE] \in Person
      BY TypeReads DEF Person
    <3>3. \A s \in Seats : IdleCheck(person[s]) \in Person /\ person[s] \in Person
      BY TypeReads, PersonTyped
    <3>4. QED
      BY <3>1, <3>2, <3>3 DEF PersonOK
  <2>2. next' \in Event
    BY <1>6, NoEventTyped DEF ExecuteAbandon
  <2>3. Ev("End", 0) \in Event
    BY EvTyped DEF Kinds, Seats
  <2>4. RecordingOK' /\ LifecycleOK' /\ round' \in Nat
    BY <1>6, RecordTyped, EndTyped, TypeReads DEF ExecuteAbandon
  <2>5. QED
    BY <1>2, <1>6, <2>1, <2>2, <2>3, <2>4, DeliverTyped, ExecutesTyped, TypeExecutes
    DEF ExecuteAbandon, table
<1>7. CASE ExecutePredraw
  <2>1. PICK k \in {1, 4} :
          /\ tiles' = [tiles EXCEPT ![next.seat].hand = @ + k]
          /\ wall' = wall - k
    BY <1>7 DEF ExecutePredraw
  <2>2. TableOK'
    <3>1. [tiles[next.seat] EXCEPT !.hand = @ + k] \in Tiles
      BY <2>1, TypeReads DEF Tiles
    <3>2. tiles' \in [Seats -> Tiles]
      BY <2>1, <3>1, TypeReads, OneTyped DEF TableOK
    <3>3. QED
      BY <1>7, <2>1, <3>2, TypeReads DEF ExecutePredraw, TableOK
  <2>3. next' \in Event
    <3>1. CASE next.n < 15
      <4>1. next.n + 1 \in 0..15
        BY <3>1, TypeReads DEF Event
      <4>2. QED
        BY <1>7, <3>1, <4>1, TypeReads, RightTyped, PredrawTyped DEF ExecutePredraw
    <3>2. CASE ~(next.n < 15)
      <4>1. DrawBy(0, FALSE) \in Event
        <5>1. 0 \in Seats
          BY DEF Seats
        <5>2. QED
          BY <5>1, DrawTyped
      <4>2. QED
        BY <1>7, <3>2, <4>1 DEF ExecutePredraw
    <3>3. QED
      BY <3>1, <3>2
  <2>4. QED
    BY <1>0, <1>1, <1>3, <1>7, <2>2, <2>3, TypeReads, DeliverTyped, ExecutesTyped, TypeExecutes
    DEF ExecutePredraw
<1>8. CASE ExecuteDraw
  <2>1. TableOK'
    <3>1. [tiles[next.seat] EXCEPT !.drawn = 1] \in Tiles
      BY TypeReads DEF Tiles
    <3>2. tiles' \in [Seats -> Tiles]
      BY <1>8, <3>1, TypeReads, OneTyped DEF ExecuteDraw, TableOK
    <3>3. declare' \subseteq DeclarationKinds
      BY <1>8, DeclarationsTyped DEF ExecuteDraw
    <3>4. QED
      BY <1>8, <3>2, <3>3, TypeReads DEF ExecuteDraw, TableOK
  <2>2. next' \in Event
    BY <1>8, TypeReads, DrawTyped DEF ExecuteDraw
  <2>3. QED
    BY <1>0, <1>1, <1>3, <1>8, <2>1, <2>2, TypeReads, DeliverTyped, ExecutesTyped, TypeExecutes
    DEF ExecuteDraw
<1>9. CASE ExecuteDrawnGame
  <2>1. next' \in Event
    BY <1>9, NextRoundTyped DEF ExecuteDrawnGame
  <2>2. Ev("DrawnGame", next.seat) \in Event
    BY TypeReads, EvTyped DEF Kinds
  <2>3. RecordingOK' /\ round' \in Nat
    BY <1>9, RecordTyped, TypeReads DEF ExecuteDrawnGame
  <2>4. QED
    BY <1>1, <1>2, <1>3, <1>9, <2>1, <2>2, <2>3, DeliverTyped, ExecutesTyped, TypeExecutes
    DEF ExecuteDrawnGame
<1>10. CASE ExecuteDiscard
  <2>1. PersonOK'
    BY <1>10, TypeReads, PersonTyped, OneTyped DEF ExecuteDiscard, AfterForced, PersonOK
  <2>2. tiles' \in [Seats -> Tiles]
    BY <1>10, TypeReads, TilesTyped, OneTyped DEF ExecuteDiscard, TableOK
  <2>3. next' \in Event
    BY <1>10, TypeReads, RightTyped, DrawTyped DEF ExecuteDiscard
  <2>4. stage' \in Nat
    BY <1>10, ExecutesTyped DEF ExecuteDiscard
  <2>5. React(next, person', tiles')
    BY <1>10 DEF ExecuteDiscard
  <2>6. TableOK'
    BY <1>10, <2>2, <2>4, <2>5, TypeReads, ReactTyped DEF ExecuteDiscard, TableOK
  <2>7. QED
    BY <1>0, <1>1, <1>10, <2>1, <2>3, <2>4, <2>5, <2>6, TypeReads, ReactTyped, TypeExecutes
    DEF ExecuteDiscard
<1>11. ASSUME NEW kind \in {"Chow", "Pung", "MeldedKong"}, ExecuteMeld(kind) PROVE TypeOK'
  <2>1. tiles' \in [Seats -> Tiles]
    <3>1. \A t \in Seats : /\ TakeMeld(tiles[t], kind) \in Tiles
                           /\ LoseDiscard(tiles[t]) \in Tiles
      BY TypeReads, TilesTyped
    <3>2. QED
      BY <1>11, <3>1, TypeReads DEF ExecuteMeld
  <2>2. declare' \subseteq DeclarationKinds
    BY <1>11, DeclarationsTyped DEF ExecuteMeld
  <2>3. TableOK'
    BY <1>11, <2>1, <2>2 DEF ExecuteMeld, TableOK
  <2>4. next' \in Event
    BY <1>11, TypeReads, DrawTyped DEF ExecuteMeld
  <2>5. QED
    BY <1>0, <1>1, <1>3, <1>11, <2>3, <2>4, TypeReads, DeliverTyped, ExecutesTyped, TypeExecutes
    DEF ExecuteMeld
<1>12. CASE ExecuteAddedKong
  <2>1. tiles' \in [Seats -> Tiles]
    <3>1. AddKong(tiles[next.seat], next.drawn) \in Tiles
      BY TypeReads, TilesTyped
    <3>2. QED
      BY <1>12, <3>1, TypeReads, OneTyped DEF ExecuteAddedKong, TableOK
  <2>2. next' \in Event
    BY <1>12, TypeReads, DrawTyped DEF ExecuteAddedKong
  <2>3. stage' \in Nat
    BY <1>12, ExecutesTyped DEF ExecuteAddedKong
  <2>4. React(next, person, tiles')
    BY <1>12 DEF ExecuteAddedKong
  <2>5. TableOK'
    BY <1>12, <2>1, <2>3, <2>4, TypeReads, ReactTyped DEF ExecuteAddedKong, TableOK
  <2>6. QED
    BY <1>0, <1>1, <1>3, <1>12, <2>2, <2>3, <2>4, <2>5, TypeReads, ReactTyped, TypeExecutes
    DEF ExecuteAddedKong
<1>13. CASE ExecuteConcealedKong
  <2>1. tiles' \in [Seats -> Tiles]
    <3>1. ConcealKong(tiles[next.seat], next.drawn) \in Tiles
      BY TypeReads, TilesTyped
    <3>2. QED
      BY <1>13, <3>1, TypeReads, OneTyped DEF ExecuteConcealedKong, TableOK
  <2>2. TableOK'
    BY <1>13, <2>1 DEF ExecuteConcealedKong, TableOK
  <2>3. next' \in Event
    BY <1>13, TypeReads, DrawTyped DEF ExecuteConcealedKong
  <2>4. QED
    BY <1>0, <1>1, <1>3, <1>13, <2>2, <2>3, TypeReads, DeliverTyped, ExecutesTyped, TypeExecutes
    DEF ExecuteConcealedKong
<1>14. ASSUME NEW kind \in Wins, ExecuteWin(kind) PROVE TypeOK'
  <2>1. PersonOK'
    <3>1. PICK b \in BasePoints :
            person' = IF kind = "SelfDrawnWin" THEN SelfDrawnScores(next.seat, b)
                      ELSE DiscardWinScores(next.seat, last.seat, b)
      BY <1>14 DEF ExecuteWin
    <3>2. b \in Int
      BY BasePointsAssumption
    <3>3. \A s \in Seats, n \in Int : [person[s] EXCEPT !.score = @ + n] \in Person
      BY TypeReads DEF Person
    <3>4. SelfDrawnScores(next.seat, b) \in [Seats -> Person]
      BY <3>2, <3>3 DEF SelfDrawnScores
    <3>5. DiscardWinScores(next.seat, last.seat, b) \in [Seats -> Person]
      BY <3>2, <3>3 DEF DiscardWinScores
    <3>6. QED
      BY <3>1, <3>4, <3>5 DEF PersonOK
  <2>2. next' \in Event
    BY <1>14, NextRoundTyped DEF ExecuteWin
  <2>3. RecordingOK' /\ round' \in Nat
    BY <1>14, RecordTyped, TypeReads DEF ExecuteWin
  <2>4. QED
    BY <1>1, <1>2, <1>14, <2>1, <2>2, <2>3, TypeReads, DeliverTyped, ExecutesTyped, TypeExecutes
    DEF ExecuteWin
<1>15. CASE ExecuteEnd
  <2>1. next' \in Event
    BY <1>15, NoEventTyped DEF ExecuteEnd
  <2>2. Ev("End", 0) \in Event
    BY EvTyped DEF Kinds, Seats
  <2>3. RecordingOK' /\ LifecycleOK' /\ round' \in Nat
    BY <1>15, RecordTyped, EndTyped, TypeReads DEF ExecuteEnd
  <2>4. QED
    BY <1>2, <1>3, <1>15, <2>1, <2>2, <2>3, DeliverTyped, ExecutesTyped, TypeExecutes
    DEF ExecuteEnd
<1>16. QED
  BY <1>4, <1>5, <1>6, <1>7, <1>8, <1>9, <1>10, <1>11, <1>12, <1>13, <1>14, <1>15
  DEF ExecuteTransition

\* The windows after time_left, and after a check that no decision follows.
LEMMA TimeLeftTyped ==
  ASSUME WaitsOK, ClockOK, NEW w \in [Seats -> Open \union {"None", "Slept"}],
         NEW start \in [Seats -> Open \union {"None"}], TimeLeft(w, start)
  PROVE  WaitsOK' /\ ClockOK'
<1>1. pending' \in [Seats -> Open \union {"None", "Slept"}]
  BY RefreshTyped DEF TimeLeft
<1>2. WaitsOK'
  BY <1>1 DEF TimeLeft, WaitsOK
<1>3. ClockOK'
  BY DEF TimeLeft, SetTimer, ClockOK
<1>4. QED
  BY <1>2, <1>3

LEMMA CheckedTyped ==
  ASSUME WaitsOK, NEW s \in Seats, Checked(s)
  PROVE  WaitsOK'
<1>1. Once(s) \in Open \union {"None", "Slept"}
  BY RefreshTyped DEF WaitsOK, Once
<1>2. Twice(s) \in Open \union {"None", "Slept"}
  BY <1>1, RefreshTyped DEF Twice
<1>3. QED
  BY <1>2, OneTyped DEF WaitsOK, Checked

LEMMA EndWaitTyped ==
  ASSUME WaitsOK, NEW s \in Seats, EndWait(s)
  PROVE  WaitsOK'
BY DEF WaitsOK, EndWait

LEMMA AwakeTyped ==
  ASSUME TypeOK, NEW s \in Seats, Awake(s)
  PROVE  PersonOK'
BY TypeReads, PersonTyped, OneTyped DEF Awake, PersonOK, TypeOK

LEMMA TypeDecide == ASSUME TypeOK, NEW s \in Seats, Decide(s) PROVE TypeOK'
<1> USE DEF TypeOK
<1>0. UNCHANGED recording => RecordingOK'
  BY DEF RecordingOK, recording
<1>1. UNCHANGED lifecycle => LifecycleOK'
  BY DEF LifecycleOK, lifecycle
<1>2. UNCHANGED callers => CallersOK'
  BY DEF CallersOK, callers
<1>3. UNCHANGED table => TableOK'
  BY DEF TableOK, table
<1>4. UNCHANGED waits => WaitsOK'
  BY DEF WaitsOK, waits
<1>5. UNCHANGED clock => ClockOK'
  BY DEF ClockOK, clock
<1>6. ASSUME NEW kind \in {"DiscardTile", "AddedKong", "ConcealedKong", "SelfDrawnWin"},
             NEW drawn \in BOOLEAN, DecideSelf(s, kind, drawn)
      PROVE  TypeOK'
  <2>1. [Ev(kind, s) EXCEPT !.drawn = drawn] \in Event
    <3>1. Ev(kind, s) \in Event
      BY <1>6, EvTyped DEF Kinds
    <3>2. QED
      BY <3>1 DEF Event
  <2>2. ControlOK'
    BY <1>6, <2>1 DEF DecideSelf, ControlOK, SelfPriority
  <2>3. WaitsOK' /\ ClockOK'
    <3>1. CASE priority < SelfPriority
      BY <1>6, <3>1, EndWaitTyped DEF DecideSelf, SetTimer, ClockOK
    <3>2. CASE ~(priority < SelfPriority)
      BY <1>4, <1>5, <1>6, <3>2 DEF DecideSelf
    <3>3. QED
      BY <3>1, <3>2
  <2>4. QED
    BY <1>0, <1>1, <1>2, <1>3, <1>6, <2>2, <2>3, AwakeTyped DEF DecideSelf
<1>7. ASSUME NEW kind \in ReactionKinds, Claim(s, kind) PROVE TypeOK'
  <2> DEFINE p == Priority(kind, s, last.seat)
             options == [i \in Seats |-> IF i = last.seat THEN avail[i] ELSE Masked(avail[i], i, p)]
             others == Seats \ {s, last.seat}
             reopened == {i \in others : options[i] # {}}
             closed == {s} \union {i \in others \ reopened : pending[i] # "None"}
  <2>1. p \in 10..90 /\ Ev(kind, s) \in Event
    BY PriorityTyped, TypeReads, EvTyped DEF ReactionKinds, Kinds
  <2>2. options \in [Seats -> SUBSET ReactionKinds]
    BY DEF TableOK, Masked
  <2>3. claims' \subseteq [kind : ReactionKinds, seat : Seats]
    BY <1>7 DEF Claim, ControlOK
  <2>4. CASE priority < p
    <3>1. /\ priority' = p /\ next' = Ev(kind, s) /\ avail' = options
          /\ pending' = [i \in Seats |-> IF i \in reopened THEN "Secondary"
                                         ELSE IF i \in closed THEN "None" ELSE pending[i]]
          /\ scheduled' = [i \in Seats |->
                             IF i \in reopened \union closed THEN "None" ELSE scheduled[i]]
          /\ late' = late \ (reopened \union closed)
          /\ SetTimer({})
          /\ UNCHANGED <<opener, delayed>>
      BY <1>7, <2>4 DEF Claim
    <3> HIDE DEF p, options, reopened, closed
    <3>2. ControlOK'
      BY <1>7, <2>1, <2>3, <3>1 DEF Claim, ControlOK
    <3>3. WaitsOK'
      BY <3>1 DEF WaitsOK, Open
    <3>4. TableOK' /\ ClockOK'
      BY <1>7, <2>2, <3>1 DEF Claim, TableOK, ClockOK, SetTimer
    <3>5. QED
      BY <1>0, <1>1, <1>2, <1>7, <3>2, <3>3, <3>4, AwakeTyped DEF Claim
  <2>5. CASE ~(priority < p)
    <3>1. Checked(s) /\ UNCHANGED <<priority, next, avail, clock>>
      BY <1>7, <2>5 DEF Claim
    <3>2. ControlOK'
      BY <1>7, <2>3, <3>1 DEF Claim, ControlOK
    <3>3. TableOK'
      BY <1>7, <3>1 DEF Claim, TableOK
    <3>4. QED
      BY <1>0, <1>1, <1>2, <1>5, <1>7, <3>1, <3>2, <3>3, CheckedTyped, AwakeTyped DEF Claim
  <2>6. QED
    BY <2>4, <2>5
<1>8. CASE Pass(s)
  <2>1. PICK w \in [Seats -> Open \union {"None", "Slept"}],
             start \in [Seats -> Open \union {"None"}] : TimeLeft(w, start)
    <3> DEFINE window == [pending EXCEPT ![s] = "None"]
               start == [scheduled EXCEPT ![s] = "None"]
               waiting == {i \in Seats : Status(window[i], start[i], i \in late) # "None"}
               seen == [i \in Seats |-> IF \A j \in waiting : i <= j
                                        THEN Refresh(window[i], start[i], i \in late)
                                        ELSE window[i]]
    <3>1. window \in [Seats -> Open \union {"None", "Slept"}]
      BY DEF WaitsOK
    <3>2. start \in [Seats -> Open \union {"None"}]
      BY DEF WaitsOK
    <3>3. TimeLeft(IF waiting = {} THEN seen ELSE [seen EXCEPT ![s] = "Slept"], start)
      BY <1>8 DEF Pass
    <3> HIDE DEF window, start, waiting
    <3>4. seen \in [Seats -> Open \union {"None", "Slept"}]
      BY <3>1, RefreshTyped
    <3> HIDE DEF seen
    <3>5. [seen EXCEPT ![s] = "Slept"] \in [Seats -> Open \union {"None", "Slept"}]
      BY <3>4
    <3>6. QED
      BY <3>2, <3>3, <3>4, <3>5
  <2>2. WaitsOK' /\ ClockOK'
    BY <2>1, TimeLeftTyped
  <2>3. ControlOK'
    BY <1>8 DEF Pass, ControlOK, control
  <2>4. QED
    BY <1>0, <1>1, <1>2, <1>3, <1>8, <2>2, <2>3, AwakeTyped DEF Pass
<1>9. CASE FinalPass(s)
  <2>1. WaitsOK' /\ ClockOK'
    <3> DEFINE window == [pending EXCEPT ![s] = "None"]
               start == [scheduled EXCEPT ![s] = "None"]
    <3>1. window \in [Seats -> Open \union {"None", "Slept"}]
      BY DEF WaitsOK
    <3>2. start \in [Seats -> Open \union {"None"}]
      BY DEF WaitsOK
    <3>3. TimeLeft(window, start)
      BY <1>9 DEF FinalPass
    <3> HIDE DEF window, start
    <3>4. QED
      BY <3>1, <3>2, <3>3, TimeLeftTyped
  <2>2. ControlOK'
    BY <1>9 DEF FinalPass, ControlOK
  <2>3. TableOK'
    BY <1>9 DEF FinalPass, TableOK
  <2>4. QED
    BY <1>0, <1>1, <1>2, <1>9, <2>1, <2>2, <2>3, AwakeTyped DEF FinalPass
<1>10. CASE Refused(s)
  <2>1. ControlOK' /\ PersonOK'
    BY <1>10 DEF Refused, ControlOK, PersonOK, control
  <2>2. QED
    BY <1>0, <1>1, <1>2, <1>3, <1>5, <1>10, <2>1, CheckedTyped DEF Refused
<1>11. QED
  BY <1>6, <1>7, <1>8, <1>9, <1>10 DEF Decide

LEMMA TypeCallers == ASSUME TypeOK, Callers PROVE TypeOK'
<1> USE DEF TypeOK
<1>0. UNCHANGED <<control, table, waits, clock, recording, lifecycle>> =>
        ControlOK' /\ TableOK' /\ WaitsOK' /\ ClockOK' /\ RecordingOK' /\ LifecycleOK'
  BY DEF control, table, waits, clock, recording, lifecycle,
     ControlOK, TableOK, WaitsOK, ClockOK, RecordingOK, LifecycleOK
<1>1. ASSUME NEW s \in Seats, NEW op \in {"Left", "Resumed"}, PresenceCall(s, op) PROVE TypeOK'
  BY <1>0, <1>1 DEF PresenceCall, PersonOK, CallersOK
<1>2. CASE Presence
  <2>1. call.seat \in Seats
    BY DEF CallersOK
  <2>2. PersonOK'
    BY <1>2, <2>1, TypeReads, PersonTyped, OneTyped DEF Presence, PersonOK
  <2>3. NoCall \in [op : {"None", "Left", "Resumed"}, seat : Seats]
    BY DEF NoCall, Seats
  <2>4. QED
    BY <1>0, <1>2, <2>2, <2>3 DEF Presence, CallersOK
<1>3. ASSUME NEW s \in Seats, NEW abandon \in BOOLEAN, SetAbandoned(s, abandon) PROVE TypeOK'
  <2> DEFINE q == [person[s] EXCEPT !.abandoned = abandon]
             r == [q EXCEPT !.idle = IF abandon THEN @ ELSE "None"]
  <2>1. q \in Person
    BY TypeReads DEF Person
  <2>2. r \in Person
    <3> HIDE DEF q
    <3>1. QED
      BY <2>1 DEF Person
  <2>3. person' = [person EXCEPT ![s] = r]
    BY <1>3, TypeReads DEF SetAbandoned, PersonOK, Person
  <2>4. PersonOK'
    <3> HIDE DEF r
    <3>1. QED
      BY <2>2, <2>3, OneTyped DEF PersonOK
  <2>5. CallersOK'
    BY <1>3 DEF SetAbandoned, CallersOK
  <2>6. QED
    BY <1>0, <1>3, <2>4, <2>5 DEF SetAbandoned
<1>4. CASE CollectorLooks
  BY <1>0, <1>4 DEF CollectorLooks, PersonOK, CallersOK
<1>5. CASE CollectorEnds
  <2>1. LifecycleOK' /\ PersonOK' /\ TableOK' /\ CallersOK'
    BY <1>5, EndTyped DEF CollectorEnds, PersonOK, TableOK, table, CallersOK
  <2>2. CASE ended
    BY <1>5, <2>1, <2>2 DEF CollectorEnds, control, waits, clock, recording,
       ControlOK, WaitsOK, ClockOK, RecordingOK
  <2>3. CASE ~ended
    <3>1. ControlOK'
      <4>1. [kind |-> "End", seat |-> 0] \in [kind : Kinds, seat : Seats]
        BY DEF Kinds, Seats
      <4>2. last' \in [kind : Kinds, seat : Seats]
        BY <1>5, <2>3, <4>1 DEF CollectorEnds, ControlOK
      <4>3. QED
        BY <1>5, <2>3, <4>2, NoEventTyped DEF CollectorEnds, ControlOK
    <3>2. WaitsOK'
      BY <1>5, <2>3 DEF CollectorEnds, WaitsOK, NoWait, Stopped
    <3>3. ClockOK'
      BY <1>5, <2>3 DEF CollectorEnds, ClockOK
    <3>4. RecordingOK'
      BY <1>5, <2>3, RecordTyped, TypeReads DEF CollectorEnds, RecordAfter
    <3>5. QED
      BY <2>1, <3>1, <3>2, <3>3, <3>4
  <2>4. QED
    BY <2>2, <2>3 DEF LifecycleOK
<1>6. QED
  BY <1>1, <1>2, <1>3, <1>4, <1>5 DEF Callers

LEMMA TypeTime == ASSUME TypeOK, Time PROVE TypeOK'
<1> USE DEF TypeOK
<1>0. UNCHANGED <<control, table, recording, lifecycle, callers>> =>
        ControlOK' /\ TableOK' /\ RecordingOK' /\ LifecycleOK' /\ CallersOK'
  BY DEF control, table, recording, lifecycle, callers,
     ControlOK, TableOK, RecordingOK, LifecycleOK, CallersOK
<1>1. UNCHANGED clock => ClockOK'
  BY DEF ClockOK, clock
<1>2. ASSUME NEW s \in Seats, WaitLapses(s) PROVE TypeOK'
  BY <1>0, <1>1, <1>2 DEF WaitLapses, PersonOK, WaitsOK
<1>3. ASSUME NEW s \in Seats, IdleLapses(s) PROVE TypeOK'
  <2>1. [person[s] EXCEPT !.idle = "Long"] \in Person
    BY TypeReads DEF Person
  <2>2. PersonOK'
    BY <1>3, <2>1, OneTyped DEF IdleLapses, PersonOK
  <2>3. WaitsOK'
    BY <1>3 DEF IdleLapses, WaitsOK, waits
  <2>4. QED
    BY <1>0, <1>1, <1>3, <2>2, <2>3 DEF IdleLapses
<1>4. ASSUME NEW s \in Seats, WaitStarts(s) PROVE TypeOK'
  <2>1. opener' \in [Seats -> [pending : Open \union {"None"}, stage : Nat]]
    BY <1>4 DEF WaitStarts, WaitsOK, Stopped
  <2>2. opener[s].pending \in Open \union {"None"}
    BY DEF WaitsOK
  <2>3. pending' \in [Seats -> Open \union {"None", "Slept"}]
    BY <1>4, <2>2 DEF WaitStarts, WaitsOK
  <2>4. scheduled' \in [Seats -> Open \union {"None"}]
    BY <1>4 DEF WaitStarts, WaitsOK
  <2>5. late' \subseteq Seats /\ delayed' \subseteq Seats
    BY <1>4 DEF WaitStarts, WaitsOK
  <2>6. WaitsOK'
    BY <2>1, <2>3, <2>4, <2>5 DEF WaitsOK
  <2>7. QED
    BY <1>0, <1>1, <1>4, <2>6 DEF WaitStarts, PersonOK
<1>5. CASE TimerExpires
  BY <1>0, <1>5 DEF TimerExpires, PersonOK, WaitsOK, waits, ClockOK
<1>6. QED
  BY <1>2, <1>3, <1>4, <1>5 DEF Time

LEMMA TypeStep == TypeOK /\ [Next]_vars => TypeOK'
<1>1. ASSUME TypeOK, UNCHANGED vars PROVE TypeOK'
  BY <1>1 DEF TypeOK, vars, control, table, waits, clock, recording, lifecycle, callers,
     ControlOK, PersonOK, TableOK, WaitsOK, ClockOK, RecordingOK, LifecycleOK, CallersOK
<1>2. QED
  BY <1>1, TypeExecute, TypeDecide, TypeCallers, TypeTime DEF Next

\* No event, seat, priority, window or predraw number leaves its range: whatever
\* the clients send and in whatever order timers and callers run.
THEOREM TypeCorrect == Spec => []TypeOK
BY TypeInit, TypeStep, PTL DEF Spec

-----------------------------------------------------------------------------
(* The life of a session: it has a transition to come and a timer for it   *)
(* until it ends, it ends once, and nothing revives it.                    *)

Asleep(s) == pending[s] = "None" /\ scheduled[s] = "None"

LifeInv ==
  /\ ended => next = NoEvent /\ ~timer /\ \A s \in Seats : Asleep(s)
  /\ ~ended => next.kind # "None" /\ (timer \/ fired)
  /\ endCalls = (IF ended THEN 1 ELSE 0)

\* Delivering a transition arms the timer exactly if another one follows, and
\* the last transition of a session leaves no window behind.
LEMMA DeliverArms ==
  ASSUME NEW e, NEW options, NEW people, Deliver(e, options, people)
  PROVE  /\ timer' = (next'.kind # "None")
         /\ e.kind = "End" => \A s \in Seats : Asleep(s)'
<1>1. timer' = (next'.kind # "None")
  BY DEF Deliver
<1>2. ASSUME e.kind = "End", NEW s \in Seats PROVE Asleep(s)'
  <2>1. Policy(s, e, options, people) = "None"
    BY <1>2 DEF Policy
  <2>2. QED
    BY <1>2, <2>1 DEF Deliver, Asleep
<1>3. QED
  BY <1>1, <1>2

\* The decision to come after a round is never missing.
LEMMA NextRoundIsEvent ==
  ASSUME NEW people PROVE NextRound(people).kind \in {"Start", "End"}
BY DEF NextRound, Ev

\* A seat without a window cannot decide, and a check of it changes nothing.
LEMMA AsleepIsRefused ==
  ASSUME NEW s \in Seats, Asleep(s)
  PROVE  ~CanDecide(s) /\ Twice(s) = pending[s]
<1>1. Once(s) = "None"
  BY DEF Asleep, Once, Refresh
<1>2. Twice(s) = "None"
  BY <1>1 DEF Asleep, Twice, Refresh
<1>3. Status(pending[s], scheduled[s], s \in late) = "None"
  BY DEF Asleep, Status, Refresh
<1>4. QED
  BY <1>2, <1>3 DEF Asleep, CanDecide

LEMMA LifeInit == Init => LifeInv
BY DEF Init, LifeInv, Ev

\* A transition that is not the last.
LEMMA LifeGoesOn ==
  ASSUME LifeInv, ~ended, UNCHANGED lifecycle, next'.kind # "None", timer' \/ fired'
  PROVE  LifeInv'
BY DEF LifeInv, lifecycle

LEMMA LifeExecute == ASSUME LifeInv, ExecuteTransition PROVE LifeInv'
<1> USE DEF LifeInv
<1>0. ASSUME NEW kind, Executes(kind), kind # "None" PROVE ~ended
  BY <1>0 DEF Executes, NoEvent, Ev
<1>1. CASE ExecuteNothing
  BY <1>1 DEF ExecuteNothing, control, waits, lifecycle, Asleep
<1>2. CASE ExecuteStart
  <2>1. next'.kind = "Predraw"
    BY <1>2 DEF ExecuteStart, PredrawBy, Ev
  <2>2. timer'
    BY <1>2, <2>1, DeliverArms DEF ExecuteStart
  <2>3. QED
    BY <1>0, <1>2, <2>1, <2>2, LifeGoesOn DEF ExecuteStart
<1>3. CASE ExecuteAbandon
  <2>1. ~ended
    BY <1>0, <1>3 DEF ExecuteAbandon
  <2>2. ended' /\ endCalls' = 1
    BY <1>3, <2>1 DEF ExecuteAbandon, EndLifecycle
  <2>3. next' = NoEvent /\ next'.kind = "None"
    BY <1>3 DEF ExecuteAbandon, NoEvent, Ev
  <2>4. ~timer' /\ \A s \in Seats : Asleep(s)'
    <3>1. Ev("End", 0).kind = "End"
      BY DEF Ev
    <3>2. Deliver(Ev("End", 0), Empty, person)
      BY <1>3 DEF ExecuteAbandon
    <3>3. QED
      BY <2>3, <3>1, <3>2, DeliverArms
  <2>5. QED
    BY <2>2, <2>3, <2>4
<1>4. CASE ExecutePredraw
  <2>1. next'.kind \in {"Predraw", "DrawTile"}
    BY <1>4 DEF ExecutePredraw, PredrawBy, DrawBy, Ev
  <2>2. timer'
    BY <1>4, <2>1, DeliverArms DEF ExecutePredraw
  <2>3. QED
    BY <1>0, <1>4, <2>1, <2>2, LifeGoesOn DEF ExecutePredraw
<1>5. CASE ExecuteDraw
  <2>1. next'.kind = "DiscardTile"
    BY <1>5 DEF ExecuteDraw, ForcedDiscard, Ev
  <2>2. timer'
    BY <1>5, <2>1, DeliverArms DEF ExecuteDraw
  <2>3. QED
    BY <1>0, <1>5, <2>1, <2>2, LifeGoesOn DEF ExecuteDraw
<1>6. CASE ExecuteDrawnGame
  <2>1. next'.kind \in {"Start", "End"}
    BY <1>6, NextRoundIsEvent DEF ExecuteDrawnGame
  <2>2. timer'
    BY <1>6, <2>1, DeliverArms DEF ExecuteDrawnGame
  <2>3. QED
    BY <1>0, <1>6, <2>1, <2>2, LifeGoesOn DEF ExecuteDrawnGame
<1>7. CASE ExecuteDiscard
  <2>1. next'.kind = "DrawTile"
    BY <1>7 DEF ExecuteDiscard, DrawBy, Ev
  <2>2. timer'
    BY <1>7, <2>1, DeliverArms DEF ExecuteDiscard, React
  <2>3. QED
    BY <1>0, <1>7, <2>1, <2>2, LifeGoesOn DEF ExecuteDiscard
<1>8. ASSUME NEW kind \in {"Chow", "Pung", "MeldedKong"}, ExecuteMeld(kind) PROVE LifeInv'
  <2>1. next'.kind \in {"DrawTile", "DiscardTile"}
    BY <1>8 DEF ExecuteMeld, DrawBy, ForcedDiscard, Ev
  <2>2. timer'
    BY <1>8, <2>1, DeliverArms DEF ExecuteMeld
  <2>3. QED
    BY <1>0, <1>8, <2>1, <2>2, LifeGoesOn DEF ExecuteMeld
<1>9. CASE ExecuteAddedKong
  <2>1. next'.kind = "DrawTile"
    BY <1>9 DEF ExecuteAddedKong, DrawBy, Ev
  <2>2. timer'
    BY <1>9, <2>1, DeliverArms DEF ExecuteAddedKong, React
  <2>3. QED
    BY <1>0, <1>9, <2>1, <2>2, LifeGoesOn DEF ExecuteAddedKong
<1>10. CASE ExecuteConcealedKong
  <2>1. next'.kind = "DrawTile"
    BY <1>10 DEF ExecuteConcealedKong, DrawBy, Ev
  <2>2. timer'
    BY <1>10, <2>1, DeliverArms DEF ExecuteConcealedKong
  <2>3. QED
    BY <1>0, <1>10, <2>1, <2>2, LifeGoesOn DEF ExecuteConcealedKong
<1>11. ASSUME NEW kind \in Wins, ExecuteWin(kind) PROVE LifeInv'
  <2>1. next'.kind \in {"Start", "End"}
    BY <1>11, NextRoundIsEvent DEF ExecuteWin
  <2>2. timer'
    BY <1>11, <2>1, DeliverArms DEF ExecuteWin
  <2>3. QED
    BY <1>0, <1>11, <2>1, <2>2, LifeGoesOn DEF ExecuteWin, Wins
<1>12. CASE ExecuteEnd
  <2>1. ~ended
    BY <1>0, <1>12 DEF ExecuteEnd
  <2>2. ended' /\ endCalls' = 1
    BY <1>12, <2>1 DEF ExecuteEnd, EndLifecycle
  <2>3. next' = NoEvent /\ next'.kind = "None"
    BY <1>12 DEF ExecuteEnd, NoEvent, Ev
  <2>4. ~timer' /\ \A s \in Seats : Asleep(s)'
    <3>1. Ev("End", 0).kind = "End"
      BY DEF Ev
    <3>2. Deliver(Ev("End", 0), avail, person)
      BY <1>12 DEF ExecuteEnd
    <3>3. QED
      BY <2>3, <3>1, <3>2, DeliverArms
  <2>5. QED
    BY <2>2, <2>3, <2>4
<1>13. QED
  BY <1>1, <1>2, <1>3, <1>4, <1>5, <1>6, <1>7, <1>8, <1>9, <1>10, <1>11, <1>12
  DEF ExecuteTransition

LEMMA LifeDecide == ASSUME LifeInv, NEW s \in Seats, Decide(s) PROVE LifeInv'
<1> USE DEF MayDecide, MayClaim, MayPass
<1>1. ASSUME CanDecide(s) PROVE ~ended
  BY <1>1, AsleepIsRefused DEF LifeInv
<1>2. ASSUME NEW kind, NEW drawn, DecideSelf(s, kind, drawn), kind # "None" PROVE LifeInv'
  <2>1. next'.kind # "None" /\ (timer' \/ fired')
    BY <1>1, <1>2 DEF LifeInv, DecideSelf, SetTimer, clock, Ev
  <2>2. QED
    BY <1>1, <1>2, <2>1, LifeGoesOn DEF DecideSelf
<1>3. ASSUME NEW kind \in ReactionKinds, Claim(s, kind) PROVE LifeInv'
  <2>1. next'.kind # "None" /\ (timer' \/ fired')
    BY <1>1, <1>3 DEF LifeInv, Claim, SetTimer, clock, Ev, ReactionKinds
  <2>2. QED
    BY <1>1, <1>3, <2>1, LifeGoesOn DEF Claim
<1>4. CASE Pass(s)
  <2>1. next'.kind # "None" /\ (timer' \/ fired')
    BY <1>1, <1>4 DEF LifeInv, Pass, TimeLeft, SetTimer, control
  <2>2. QED
    BY <1>1, <1>4, <2>1, LifeGoesOn DEF Pass
<1>5. CASE FinalPass(s)
  <2>1. next'.kind # "None" /\ (timer' \/ fired')
    BY <1>1, <1>5 DEF LifeInv, FinalPass, TimeLeft, SetTimer
  <2>2. QED
    BY <1>1, <1>5, <2>1, LifeGoesOn DEF FinalPass
<1>6. CASE Refused(s)
  <2>1. ~ended
    BY <1>6, AsleepIsRefused DEF LifeInv, Refused
  <2>2. QED
    BY <1>6, <2>1, LifeGoesOn DEF LifeInv, Refused, control, clock
<1>7. QED
  BY <1>2, <1>3, <1>4, <1>5, <1>6 DEF Decide

LEMMA LifeCallers == ASSUME LifeInv, Callers PROVE LifeInv'
<1> USE DEF LifeInv, Asleep, control, waits, clock, lifecycle
<1>1. ASSUME NEW s \in Seats, NEW op, PresenceCall(s, op) PROVE LifeInv'
  BY <1>1 DEF PresenceCall
<1>2. CASE Presence
  BY <1>2 DEF Presence
<1>3. ASSUME NEW s \in Seats, NEW abandon, SetAbandoned(s, abandon) PROVE LifeInv'
  BY <1>3 DEF SetAbandoned
<1>4. CASE CollectorLooks
  BY <1>4 DEF CollectorLooks
<1>5. CASE CollectorEnds
  <2>1. CASE ended
    BY <1>5, <2>1 DEF CollectorEnds, EndLifecycle
  <2>2. CASE ~ended
    BY <1>5, <2>2 DEF CollectorEnds, EndLifecycle, NoWait
  <2>3. QED
    BY <2>1, <2>2
<1>6. QED
  BY <1>1, <1>2, <1>3, <1>4, <1>5 DEF Callers

LEMMA LifeTime == ASSUME LifeInv, Time PROVE LifeInv'
<1> USE DEF LifeInv, Asleep, control, waits, clock, lifecycle
<1>1. ASSUME NEW s \in Seats, WaitLapses(s) PROVE LifeInv'
  BY <1>1 DEF WaitLapses
<1>2. ASSUME NEW s \in Seats, IdleLapses(s) PROVE LifeInv'
  BY <1>2 DEF IdleLapses
<1>3. ASSUME NEW s \in Seats, WaitStarts(s) PROVE LifeInv'
  <2>1. CASE ended
    BY <1>3, <2>1 DEF WaitStarts
  <2>2. CASE ~ended
    BY <1>3, <2>2 DEF WaitStarts
  <2>3. QED
    BY <2>1, <2>2
<1>4. CASE TimerExpires
  BY <1>4 DEF TimerExpires
<1>5. QED
  BY <1>1, <1>2, <1>3, <1>4 DEF Time

LEMMA LifeStep == LifeInv /\ [Next]_vars => LifeInv'
<1>1. ASSUME LifeInv, UNCHANGED vars PROVE LifeInv'
  BY <1>1 DEF LifeInv, Asleep, vars, control, waits, clock, lifecycle
<1>2. QED
  BY <1>1, LifeExecute, LifeDecide, LifeCallers, LifeTime DEF Next

\* What ends, ends once and for good: the end callbacks run a single time, whether a
\* transition or the collector ends the session first, and no decision, timer,
\* delayed start or presence call that is still in flight gives an ended session a
\* transition or a window.
THEOREM EndedIsFinalHolds == Spec => []EndedIsFinal
<1>1. LifeInv => EndedIsFinal
  BY DEF LifeInv, EndedIsFinal, Asleep
<1>2. QED
  BY LifeInit, LifeStep, <1>1, PTL DEF Spec

\* A session that is not over has a transition to come and a timer for it.
THEOREM NeverStuckHolds == Spec => []NeverStuck
<1>1. LifeInv => NeverStuck
  BY DEF LifeInv, NeverStuck
<1>2. QED
  BY LifeInit, LifeStep, <1>1, PTL DEF Spec

-----------------------------------------------------------------------------
(* Which claim on a tile wins, for every hand, every order of arrival and  *)
(* every delay of the broadcasts.                                          *)

Claimable == last.kind \in {"DiscardTile", "AddedKong"}
Best == [kind |-> next.kind, seat |-> next.seat]
RankOf(c) == Priority(c.kind, c.seat, last.seat)

\* BestClaimWins alone is not inductive.  What it rests on: this_priority is
\* the priority of the accepted claim, every other claim of this stage counts
\* less, and whatever option is left to a seat counts more.
ClaimInv ==
  /\ claims # {} /\ ~ended =>
       /\ Claimable
       /\ Best \in claims
       /\ priority = RankOf(Best)
       /\ \A d \in claims \ {Best} : RankOf(d) < priority
  /\ \A d \in claims : ~ended => d.seat # last.seat
  /\ Claimable => \A s \in Seats \ {last.seat} : \A k \in avail[s] :
                    Priority(k, s, last.seat) > priority

\* WaivedForGood rests on the claimant's own window being closed.
WaiveInv ==
  /\ \A s \in waived : avail[s] = {} /\ Asleep(s)
  /\ next.kind \in ReactionKinds => next.seat \notin waived /\ Asleep(next.seat)

Inv == TypeOK /\ LifeInv /\ ClaimInv /\ WaiveInv

-----------------------------------------------------------------------------
\* The priorities of handle_event are the rule of the game.
LEMMA PriorityIsRule ==
  ASSUME last.seat \in Seats,
         NEW c \in [kind : ReactionKinds, seat : Seats],
         NEW d \in [kind : ReactionKinds, seat : Seats],
         c.seat # last.seat, d.seat # last.seat, RankOf(d) < RankOf(c)
  PROVE  Beats(c, d)
<1>1. c.kind \in ReactionKinds /\ d.kind \in ReactionKinds /\ c.seat \in 0..3 /\ d.seat \in 0..3
  BY DEF Seats
<1>2. \A s \in 0..3 : s # last.seat => ((last.seat - s + 4) % 4) = 4 - ((s - last.seat + 4) % 4)
  BY DEF Seats
<1>3. \A s \in 0..3 : (last.seat - s + 4) % 4 \in 0..3 /\ (s - last.seat + 4) % 4 \in 0..3
  BY DEF Seats
<1>4. CASE c.kind = "Chow"
  BY <1>1, <1>3, <1>4 DEF RankOf, Priority, ReactionKinds
<1>5. CASE c.kind \in {"Pung", "MeldedKong"}
  <2>1. d.kind = "Chow"
    BY <1>1, <1>3, <1>5 DEF RankOf, Priority, ReactionKinds
  <2>2. QED
    BY <1>5, <2>1 DEF Beats, Rank, Wins
<1>6. CASE c.kind \in {"DiscardWin", "RobAddedKongWin"}
  <2>1. CASE d.kind \notin Wins
    BY <1>1, <1>6, <2>1 DEF Beats, Rank, Wins, ReactionKinds
  <2>2. CASE d.kind \in Wins
    <3>1. d.kind \in {"DiscardWin", "RobAddedKongWin"}
      BY <1>1, <2>2 DEF Wins, ReactionKinds
    <3>2. (last.seat - d.seat + 4) % 4 < (last.seat - c.seat + 4) % 4
      BY <1>1, <1>3, <1>6, <3>1 DEF RankOf, Priority
    <3>3. TurnsFrom(c.seat) < TurnsFrom(d.seat)
      BY <1>1, <1>2, <1>3, <3>2 DEF TurnsFrom
    <3>4. QED
      BY <1>6, <2>2, <3>3 DEF Beats, Wins
  <2>3. QED
    BY <2>1, <2>2
<1>7. QED
  BY <1>1, <1>4, <1>5, <1>6 DEF ReactionKinds

\* An accepted transition never leaves a claim as the transition to come.
LEMMA ExecuteNext ==
  ASSUME ExecuteTransition
  PROVE  \/ ExecuteNothing
         \/ /\ next'.kind \notin ReactionKinds
            /\ \E kind : Executes(kind)
<1>1. CASE ExecuteStart
  BY <1>1 DEF ExecuteStart, PredrawBy, Ev, ReactionKinds
<1>2. CASE ExecuteAbandon
  BY <1>2 DEF ExecuteAbandon, NoEvent, Ev, ReactionKinds
<1>3. CASE ExecutePredraw
  <2>1. next'.kind \in {"Predraw", "DrawTile"}
    BY <1>3 DEF ExecutePredraw, PredrawBy, DrawBy, Ev
  <2>2. QED
    BY <1>3, <2>1 DEF ExecutePredraw, ReactionKinds
<1>4. CASE ExecuteDraw
  BY <1>4 DEF ExecuteDraw, ForcedDiscard, Ev, ReactionKinds
<1>5. CASE ExecuteDrawnGame
  BY <1>5, NextRoundIsEvent DEF ExecuteDrawnGame, ReactionKinds
<1>6. CASE ExecuteDiscard
  BY <1>6 DEF ExecuteDiscard, DrawBy, Ev, ReactionKinds
<1>7. ASSUME NEW kind \in {"Chow", "Pung", "MeldedKong"}, ExecuteMeld(kind)
      PROVE  next'.kind \notin ReactionKinds /\ Executes(kind)
  <2>1. next'.kind \in {"DrawTile", "DiscardTile"}
    BY <1>7 DEF ExecuteMeld, DrawBy, ForcedDiscard, Ev
  <2>2. QED
    BY <1>7, <2>1 DEF ExecuteMeld, ReactionKinds
<1>8. CASE ExecuteAddedKong
  BY <1>8 DEF ExecuteAddedKong, DrawBy, Ev, ReactionKinds
<1>9. CASE ExecuteConcealedKong
  BY <1>9 DEF ExecuteConcealedKong, DrawBy, Ev, ReactionKinds
<1>10. ASSUME NEW kind \in Wins, ExecuteWin(kind)
       PROVE  next'.kind \notin ReactionKinds /\ Executes(kind)
  BY <1>10, NextRoundIsEvent DEF ExecuteWin, ReactionKinds
<1>11. CASE ExecuteEnd
  BY <1>11 DEF ExecuteEnd, NoEvent, Ev, ReactionKinds
<1>12. QED
  BY <1>1, <1>2, <1>3, <1>4, <1>5, <1>6, <1>7, <1>8, <1>9, <1>10, <1>11
  DEF ExecuteTransition

-----------------------------------------------------------------------------
LEMMA InvInit == Init => Inv
<1>1. Init => ClaimInv
  BY DEF Init, ClaimInv, Claimable
<1>2. Init => WaiveInv
  BY DEF Init, WaiveInv, Ev, ReactionKinds
<1>3. QED
  BY <1>1, <1>2, TypeInit, LifeInit DEF Inv

\* A transition forgets the claims and waivers on the tile before it.
LEMMA InvExecute ==
  ASSUME Inv, TypeOK', ExecuteTransition PROVE ClaimInv' /\ WaiveInv'
<1>1. CASE ExecuteNothing
  BY <1>1 DEF Inv, ExecuteNothing, control, table, waits, lifecycle, ClaimInv, WaiveInv,
     Claimable, Best, RankOf, Asleep, Priority
<1>2. CASE next'.kind \notin ReactionKinds /\ \E kind : Executes(kind)
  <2>1. claims' = {} /\ waived' = {} /\ priority' = -1
    BY <1>2 DEF Executes
  <2>2. last'.seat \in Seats
    BY DEF TypeOK, ControlOK
  <2>3. \A s \in Seats : \A k : Priority(k, s, last'.seat) > priority'
    BY <2>1, <2>2, PriorityTyped
  <2>4. ClaimInv'
    BY <2>1, <2>3 DEF ClaimInv, Priority
  <2>5. QED
    BY <1>2, <2>1, <2>4 DEF WaiveInv
<1>3. QED
  BY <1>1, <1>2, ExecuteNext

-----------------------------------------------------------------------------
(* The decisions of a seat.                                                *)

\* A seat that can decide has a window, so it has not waived the tile, its
\* claim is not the one to come, and the session is not over.
LEMMA Deciding ==
  ASSUME Inv, NEW s \in Seats, CanDecide(s) \/ Twice(s) # pending[s]
  PROVE  /\ ~ended /\ ~Asleep(s) /\ s \notin waived
         /\ next.kind \in ReactionKinds => next.seat # s
<1>1. ~Asleep(s)
  BY AsleepIsRefused
<1>2. QED
  BY <1>1 DEF Inv, LifeInv, WaiveInv

\* A window that is shut stays shut when time_left refreshes it.
LEMMA TimeLeftKeepsShut ==
  ASSUME NEW window, NEW start, TimeLeft(window, start), NEW i \in Seats,
         window[i] = "None", start[i] = "None"
  PROVE  Asleep(i)'
<1>1. pending'[i] = Refresh(window[i], start[i], i \in late)
  BY DEF TimeLeft
<1>2. Refresh(window[i], start[i], i \in late) = "None"
  BY DEF Refresh
<1>3. scheduled'[i] = "None"
  BY DEF TimeLeft
<1>4. QED
  BY <1>1, <1>2, <1>3 DEF Asleep

\* What keeps ClaimInv when nothing that it speaks of grows.
LEMMA ClaimKept ==
  ASSUME ClaimInv, UNCHANGED <<last, claims, priority, next, ended>>,
         \A s \in Seats : avail'[s] \subseteq avail[s]
  PROVE  ClaimInv'
BY DEF ClaimInv, Claimable, Best, RankOf, Priority

\* What keeps WaiveInv when no seat that is asleep is woken.
LEMMA WaiveKept ==
  ASSUME TypeOK, WaiveInv, UNCHANGED <<waived, next>>,
         \A s \in waived : avail'[s] = {},
         \A s \in Seats : Asleep(s) => Asleep(s)'
  PROVE  WaiveInv'
<1>1. waived \subseteq Seats /\ next.seat \in Seats
  BY DEF TypeOK, ControlOK, Event
<1>2. QED
  BY <1>1 DEF WaiveInv

LEMMA InvDecideSelf ==
  ASSUME Inv, NEW s \in Seats, NEW drawn \in BOOLEAN,
         NEW kind \in {"DiscardTile", "AddedKong", "ConcealedKong", "SelfDrawnWin"},
         DecideSelf(s, kind, drawn)
  PROVE  ClaimInv' /\ WaiveInv'
<1>1. ~ended /\ ~Asleep(s)
  BY Deciding DEF DecideSelf, MayDecide
<1>2. ~Claimable
  BY DEF DecideSelf, MayDecide, AfterDraw, AfterMeld, Claimable
<1>3. claims = {}
  BY <1>1, <1>2 DEF Inv, ClaimInv
<1>4. ClaimInv'
  BY <1>2, <1>3 DEF DecideSelf, ClaimInv, Claimable
<1>5. avail' = avail /\ waived' = waived
  BY DEF DecideSelf, table
<1>6. \A t \in Seats : Asleep(t) => Asleep(t)'
  <2>1. CASE priority < SelfPriority
    BY <2>1 DEF DecideSelf, EndWait, Asleep, Inv, TypeOK, WaitsOK
  <2>2. CASE ~(priority < SelfPriority)
    BY <2>2 DEF DecideSelf, waits, Asleep
  <2>3. QED
    BY <2>1, <2>2
<1>7. next'.kind \in ReactionKinds => next' = next
  BY DEF DecideSelf, Ev, ReactionKinds
<1>8. waived \subseteq Seats /\ next.seat \in Seats
  BY DEF Inv, TypeOK, ControlOK, Event
<1>9. QED
  BY <1>4, <1>5, <1>6, <1>7, <1>8 DEF Inv, WaiveInv

\* The priority of an option is above that of every claim made so far.
LEMMA InvClaim ==
  ASSUME Inv, NEW s \in Seats, NEW kind \in ReactionKinds, Claim(s, kind)
  PROVE  /\ ClaimInv' /\ WaiveInv'
         /\ next'.kind = kind /\ next'.seat = s
         /\ claims' = claims \union {[kind |-> kind, seat |-> s]}
<1> DEFINE p == Priority(kind, s, last.seat)
           c == [kind |-> kind, seat |-> s]
           options == [i \in Seats |-> IF i = last.seat THEN avail[i]
                                       ELSE Masked(avail[i], i, p)]
           others == Seats \ {s, last.seat}
           reopened == {i \in others : options[i] # {}}
           closed == {s} \union {i \in others \ reopened : pending[i] # "None"}
<1>1. /\ ~ended /\ ~Asleep(s) /\ s \notin waived
      /\ next.kind \in ReactionKinds => next.seat # s
  BY Deciding DEF Claim, MayClaim
<1>2. Claimable /\ s # last.seat /\ kind \in avail[s]
  BY DEF Claim, MayClaim, AfterDiscard, AfterAddedKong, Claimable
<1>3. p > priority
  BY <1>2 DEF Inv, ClaimInv
<1>4. p \in Int /\ priority \in Int /\ last.seat \in Seats
  BY PriorityTyped DEF Inv, TypeOK, ControlOK
<1>5. priority < p
  BY <1>3, <1>4
<1>6. /\ priority' = p /\ next' = Ev(kind, s) /\ avail' = options
      /\ claims' = claims \union {c}
      /\ UNCHANGED <<last, waived, ended>>
  BY <1>5 DEF Claim, lifecycle
<1>7. /\ pending' = [i \in Seats |-> IF i \in reopened THEN "Secondary"
                                     ELSE IF i \in closed THEN "None" ELSE pending[i]]
      /\ scheduled' = [i \in Seats |->
                         IF i \in reopened \union closed THEN "None" ELSE scheduled[i]]
  BY <1>5 DEF Claim
<1>8. next'.kind = kind /\ next'.seat = s
  BY <1>6 DEF Ev
<1>9. ClaimInv'
  <2>1. Best' = c /\ RankOf(c)' = p /\ Claimable'
    BY <1>2, <1>6, <1>8 DEF Best, RankOf, Claimable, Priority
  <2>2. \A d \in claims : RankOf(d) < p /\ d.seat # last.seat
    <3>1. TAKE d \in claims
    <3>2. d.seat # last.seat
      BY <1>1 DEF Inv, ClaimInv
    <3>3. RankOf(d) \in Int
      <4>1. d.seat \in Seats
        BY DEF Inv, TypeOK, ControlOK
      <4>2. QED
        BY <1>4, <4>1, PriorityTyped DEF RankOf
    <3>4. RankOf(d) <= priority
      BY <1>1, <1>4, <3>3 DEF Inv, ClaimInv
    <3>5. QED
      BY <1>4, <1>5, <3>2, <3>3, <3>4
  <2>3. \A d \in claims' \ {Best'} : RankOf(d)' < priority'
    BY <1>6, <2>1, <2>2 DEF RankOf, Priority
  <2>4. \A d \in claims' : d.seat # last'.seat
    BY <1>2, <1>6, <2>2
  <2>5. \A t \in Seats \ {last'.seat} : \A k \in avail'[t] :
          Priority(k, t, last'.seat) > priority'
    BY <1>6 DEF Masked
  <2>6. QED
    BY <1>6, <2>1, <2>3, <2>4, <2>5 DEF ClaimInv
<1>10. WaiveInv'
  <2>1. \A t \in waived : avail'[t] = {} /\ Asleep(t)'
    <3>1. TAKE t \in waived
    <3>2. t \in Seats /\ t # s /\ avail[t] = {} /\ Asleep(t)
      BY <1>1 DEF Inv, WaiveInv, TypeOK, ControlOK
    <3>3. options[t] = {}
      BY <3>2 DEF Masked
    <3>4. t \notin reopened /\ avail'[t] = {}
      BY <1>6, <3>3
    <3>5. QED
      BY <1>7, <3>2, <3>4 DEF Asleep
  <2>2. Asleep(s)'
    <3>1. s \notin reopened /\ s \in closed
      OBVIOUS
    <3>2. QED
      BY <1>7, <3>1 DEF Asleep
  <2>3. QED
    BY <1>1, <1>6, <1>8, <2>1, <2>2 DEF WaiveInv
<1>11. QED
  BY <1>6, <1>8, <1>9, <1>10

LEMMA InvPass ==
  ASSUME Inv, NEW s \in Seats, Pass(s) PROVE ClaimInv' /\ WaiveInv'
<1> DEFINE window == [pending EXCEPT ![s] = "None"]
           start == [scheduled EXCEPT ![s] = "None"]
           waiting == {i \in Seats : Status(window[i], start[i], i \in late) # "None"}
           seen == [i \in Seats |-> IF \A j \in waiting : i <= j
                                    THEN Refresh(window[i], start[i], i \in late)
                                    ELSE window[i]]
           after == IF waiting = {} THEN seen ELSE [seen EXCEPT ![s] = "Slept"]
<1>1. ~Asleep(s)
  BY Deciding DEF Pass, MayPass
<1>2. TimeLeft(after, start)
  BY DEF Pass
<1>3. UNCHANGED <<last, claims, waived, priority, next, ended, avail>>
  BY DEF Pass, control, table, lifecycle
<1>4. \A t \in Seats : Asleep(t) => Asleep(t)'
  <2>1. SUFFICES ASSUME NEW t \in Seats, Asleep(t) PROVE Asleep(t)'
    OBVIOUS
  <2>2. t # s
    BY <1>1, <2>1
  <2>3. window[t] = "None" /\ start[t] = "None"
    BY <2>1, <2>2 DEF Asleep, Inv, TypeOK, WaitsOK
  <2>4. seen[t] = "None"
    BY <2>3 DEF Refresh
  <2>5. after[t] = "None"
    BY <2>2, <2>4
  <2> HIDE DEF after, start
  <2>6. QED
    BY <1>2, <2>3, <2>5, TimeLeftKeepsShut
<1>5. ClaimInv'
  BY <1>3, ClaimKept DEF Inv
<1>6. WaiveInv'
  <2>1. \A t \in waived : avail'[t] = {}
    BY <1>3 DEF Inv, WaiveInv
  <2>2. QED
    BY <1>3, <1>4, <2>1, WaiveKept DEF Inv
<1>7. QED
  BY <1>5, <1>6

LEMMA InvFinalPass ==
  ASSUME Inv, NEW s \in Seats, FinalPass(s) PROVE ClaimInv' /\ WaiveInv'
<1> DEFINE window == [pending EXCEPT ![s] = "None"]
           start == [scheduled EXCEPT ![s] = "None"]
<1>1. ~Asleep(s) /\ (next.kind \in ReactionKinds => next.seat # s)
  BY Deciding DEF FinalPass, MayPass
<1>2. TimeLeft(window, start)
  BY DEF FinalPass
<1>3. /\ UNCHANGED <<last, claims, priority, next, ended>>
      /\ waived' = waived \union {s}
      /\ avail' = [avail EXCEPT ![s] = {}]
  BY DEF FinalPass, lifecycle
<1>4. \A t \in Seats : Asleep(t) \/ t = s => Asleep(t)'
  <2>1. SUFFICES ASSUME NEW t \in Seats, Asleep(t) \/ t = s PROVE Asleep(t)'
    OBVIOUS
  <2>2. window[t] = "None" /\ start[t] = "None"
    BY <2>1 DEF Asleep, Inv, TypeOK, WaitsOK
  <2> HIDE DEF window, start
  <2>3. QED
    BY <1>2, <2>2, TimeLeftKeepsShut
<1>5. \A t \in Seats : avail'[t] = IF t = s THEN {} ELSE avail[t]
  BY <1>3 DEF Inv, TypeOK, TableOK
<1>6. ClaimInv'
  BY <1>3, <1>5, ClaimKept DEF Inv
<1>7. WaiveInv'
  <2>1. waived \subseteq Seats /\ next.seat \in Seats
    BY DEF Inv, TypeOK, ControlOK, Event
  <2>2. \A t \in waived' : avail'[t] = {} /\ Asleep(t)'
    BY <1>3, <1>4, <1>5, <2>1 DEF Inv, WaiveInv
  <2>3. next'.kind \in ReactionKinds => next'.seat \notin waived' /\ Asleep(next.seat)'
    BY <1>1, <1>3, <1>4, <2>1 DEF Inv, WaiveInv
  <2>4. QED
    BY <1>3, <2>2, <2>3 DEF WaiveInv
<1>8. QED
  BY <1>6, <1>7

LEMMA InvRefused ==
  ASSUME Inv, NEW s \in Seats, Refused(s) PROVE ClaimInv' /\ WaiveInv'
<1>1. ~Asleep(s)
  BY Deciding DEF Refused
<1>2. UNCHANGED <<last, claims, waived, priority, next, ended, avail>>
  BY DEF Refused, control, table, lifecycle
<1>3. \A t \in Seats : Asleep(t) => Asleep(t)'
  BY <1>1 DEF Refused, Checked, Asleep, Inv, TypeOK, WaitsOK
<1>4. ClaimInv'
  BY <1>2, ClaimKept DEF Inv
<1>5. WaiveInv'
  <2>1. \A t \in waived : avail'[t] = {}
    BY <1>2 DEF Inv, WaiveInv
  <2>2. QED
    BY <1>2, <1>3, <2>1, WaiveKept DEF Inv
<1>6. QED
  BY <1>4, <1>5

LEMMA InvDecide ==
  ASSUME Inv, NEW s \in Seats, Decide(s) PROVE ClaimInv' /\ WaiveInv'
BY InvDecideSelf, InvClaim, InvPass, InvFinalPass, InvRefused DEF Decide

-----------------------------------------------------------------------------
(* The steps of callers and of time.                                       *)

LEMMA InvCallers ==
  ASSUME Inv, Callers PROVE ClaimInv' /\ WaiveInv'
<1>1. CASE UNCHANGED <<control, table, waits, lifecycle>>
  <2>1. UNCHANGED <<last, claims, waived, priority, next, ended, avail, pending, scheduled>>
    BY <1>1 DEF control, table, waits, lifecycle
  <2>2. \A t \in Seats : Asleep(t) => Asleep(t)'
    BY <2>1 DEF Asleep
  <2>3. ClaimInv'
    BY <2>1, ClaimKept DEF Inv
  <2>4. \A t \in waived : avail'[t] = {}
    BY <2>1 DEF Inv, WaiveInv
  <2>5. QED
    BY <2>1, <2>2, <2>3, <2>4, WaiveKept DEF Inv
<1>2. CASE CollectorEnds /\ ~ended
  <2>1. /\ ended' /\ next' = NoEvent /\ pending' = NoWait /\ scheduled' = NoWait
        /\ UNCHANGED <<claims, waived, priority, avail>>
        /\ last' = [kind |-> "End", seat |-> 0] \/ last' = last
    BY <1>2 DEF CollectorEnds, EndLifecycle, table
  <2>2. \A t \in Seats : Asleep(t)'
    BY <2>1 DEF Asleep, NoWait
  <2>3. ClaimInv'
    <3>1. CASE last' = last
      BY <2>1, <3>1 DEF Inv, ClaimInv, Claimable, Priority
    <3>2. CASE last' = [kind |-> "End", seat |-> 0]
      BY <2>1, <3>2 DEF ClaimInv, Claimable
    <3>3. QED
      BY <2>1, <3>1, <3>2
  <2>4. next'.kind \notin ReactionKinds
    BY <2>1 DEF NoEvent, Ev, ReactionKinds
  <2>5. waived \subseteq Seats
    BY DEF Inv, TypeOK, ControlOK
  <2>6. QED
    BY <2>1, <2>2, <2>3, <2>4, <2>5 DEF Inv, WaiveInv
<1>3. CASE CollectorEnds /\ ended
  BY <1>1, <1>3 DEF CollectorEnds, EndLifecycle, lifecycle, LifeInv, Inv
<1>4. QED
  BY <1>1, <1>2, <1>3
  DEF Callers, PresenceCall, Presence, SetAbandoned, CollectorLooks

LEMMA InvTime ==
  ASSUME Inv, Time PROVE ClaimInv' /\ WaiveInv'
<1>1. UNCHANGED <<last, claims, waived, priority, next, ended, avail>>
  BY DEF Time, WaitLapses, IdleLapses, WaitStarts, TimerExpires, control, table, lifecycle
<1>2. \A t \in Seats : Asleep(t) => Asleep(t)'
  <2>1. ASSUME NEW s \in Seats, WaitStarts(s), NEW t \in Seats, Asleep(t) PROVE Asleep(t)'
    <3>1. CASE scheduled[s] # opener[s].pending
      BY <2>1, <3>1 DEF WaitStarts, Asleep
    <3>2. CASE scheduled[s] = opener[s].pending
      <4>1. s # t
        BY <2>1, <3>2 DEF WaitStarts, Asleep
      <4>2. pending'[t] = pending[t] /\ scheduled'[t] = scheduled[t]
        BY <2>1, <3>2, <4>1 DEF WaitStarts, Inv, TypeOK, WaitsOK
      <4>3. QED
        BY <2>1, <4>2 DEF Asleep
    <3>3. QED
      BY <3>1, <3>2
  <2>2. QED
    BY <2>1 DEF Time, WaitLapses, IdleLapses, TimerExpires, waits, Asleep
<1>3. ClaimInv'
  BY <1>1, ClaimKept DEF Inv
<1>4. \A t \in waived : avail'[t] = {}
  BY <1>1 DEF Inv, WaiveInv
<1>5. QED
  BY <1>1, <1>2, <1>3, <1>4, WaiveKept DEF Inv

LEMMA InvStep == Inv /\ [Next]_vars => Inv'
<1>1. ASSUME Inv, [Next]_vars PROVE TypeOK' /\ LifeInv'
  BY <1>1, TypeStep, LifeStep DEF Inv
<1>2. ASSUME Inv, UNCHANGED vars PROVE ClaimInv' /\ WaiveInv'
  BY <1>2 DEF Inv, ClaimInv, WaiveInv, Claimable, Best, RankOf, Priority, Asleep,
     vars, control, table, waits, lifecycle
<1>3. ASSUME Inv, Next PROVE ClaimInv' /\ WaiveInv'
  BY <1>1, <1>3, InvExecute, InvDecide, InvCallers, InvTime DEF Next
<1>4. QED
  BY <1>1, <1>2, <1>3 DEF Inv

-----------------------------------------------------------------------------
\* Whatever the order in which claims on a tile arrive, and whoever decides,
\* passes or is late between them, the best of them is the transition to come.
THEOREM BestClaimWinsHolds == Spec => []BestClaimWins
<1>1. Inv => BestClaimWins
  <2>1. SUFFICES ASSUME Inv, claims # {}, ~ended
                 PROVE  \A d \in claims \ {Best} : Best \in claims /\ Beats(Best, d)
    BY DEF BestClaimWins, Best, Inv, ClaimInv
  <2>2. TAKE d \in claims \ {Best}
  <2>3. last.seat \in Seats /\ claims \subseteq [kind : ReactionKinds, seat : Seats]
    BY <2>1 DEF Inv, TypeOK, ControlOK
  <2>4. Best \in claims /\ RankOf(d) < RankOf(Best)
    BY <2>1 DEF Inv, ClaimInv
  <2>5. Best.seat # last.seat /\ d.seat # last.seat
    BY <2>1, <2>4 DEF Inv, ClaimInv
  <2>6. QED
    BY <2>3, <2>4, <2>5, PriorityIsRule
<1>2. QED
  BY InvInit, InvStep, <1>1, PTL DEF Spec

\* A seat that gave up a tile for good is not asked again about it, whatever
\* others claim afterwards and whichever delayed starts are still under way.
THEOREM WaivedForGoodHolds == Spec => []WaivedForGood
<1>1. Inv => WaivedForGood
  BY DEF Inv, WaiveInv, WaivedForGood, Asleep
<1>2. QED
  BY InvInit, InvStep, <1>1, PTL DEF Spec

\* No claim is accepted and then dropped for an earlier one.
THEOREM NoClaimInVainHolds == Spec => NoClaimInVain
<1> DEFINE Counts == \A c \in claims' \ claims :
                       next'.kind = c.kind /\ next'.seat = c.seat
<1>1. ASSUME Inv, Next PROVE Counts
  <2>1. CASE claims' \subseteq claims
    BY <2>1
  <2>2. ASSUME NEW s \in Seats, NEW kind \in ReactionKinds, Claim(s, kind) PROVE Counts
    BY <1>1, <2>2, InvClaim
  <2>3. CASE ExecuteTransition
    BY <2>1, <2>3, ExecuteNext DEF ExecuteNothing, control, Executes
  <2>4. ASSUME NEW s \in Seats, Decide(s) PROVE Counts
    BY <2>1, <2>2, <2>4 DEF Decide, DecideSelf, Pass, FinalPass, Refused, control
  <2>5. CASE Callers
    BY <2>1, <2>5 DEF Callers, PresenceCall, Presence, SetAbandoned, CollectorLooks,
       CollectorEnds, control
  <2>6. CASE Time
    BY <2>1, <2>6 DEF Time, WaitLapses, IdleLapses, WaitStarts, TimerExpires, control
  <2>7. QED
    BY <1>1, <2>3, <2>4, <2>5, <2>6 DEF Next
<1>2. Inv /\ [Next]_vars => [Counts]_vars
  BY <1>1
<1>3. QED
  BY InvInit, InvStep, <1>2, PTL DEF Spec, NoClaimInVain


-----------------------------------------------------------------------------
(* For whom the windows are opened.                                        *)

Asking == {"DrawTile", "Chow", "Pung", "DiscardTile", "AddedKong"}

\* A seat whose policy is to be told without a pause gets no window.
LEMMA DeliverSleeps ==
  ASSUME NEW e, NEW options, NEW people, Deliver(e, options, people), NEW s \in Seats,
         Policy(s, e, options, people) = "None"
  PROVE  Asleep(s)'
BY DEF Deliver, Asleep

\* Every transition is delivered, and one that somebody is asked about with the
\* players and the options that it leaves behind.
LEMMA ExecuteDelivers ==
  ASSUME ExecuteTransition
  PROVE  \/ ExecuteNothing
         \/ \E e, options, people :
              /\ Deliver(e, options, people)
              /\ e.kind \in Asking => options = avail' /\ people = person'
              /\ e.kind \in {"DiscardTile", "AddedKong"} =>
                   \A s \in Seats : IsAfk(people[s]) => options[s] = {}
<1> DEFINE Delivers ==
             \E e, options, people :
               /\ Deliver(e, options, people)
               /\ e.kind \in Asking => options = avail' /\ people = person'
               /\ e.kind \in {"DiscardTile", "AddedKong"} =>
                    \A s \in Seats : IsAfk(people[s]) => options[s] = {}
<1>1. ASSUME NEW e, NEW options, NEW people, Deliver(e, options, people),
             e.kind \notin Asking
      PROVE  Delivers
  BY <1>1 DEF Asking
<1>2. ASSUME NEW e, Deliver(e, avail, person), UNCHANGED <<avail, person>>,
             e.kind \notin {"DiscardTile", "AddedKong"}
      PROVE  Delivers
  BY <1>2
<1>3. ASSUME NEW e, NEW people, NEW ts, React(e, people, ts), people = person'
      PROVE  Delivers
  <2>1. PICK a \in ReactionSets(0, e, people, ts), b \in ReactionSets(1, e, people, ts),
             c \in ReactionSets(2, e, people, ts), d \in ReactionSets(3, e, people, ts) :
          LET options == [s \in Seats |-> <<a, b, c, d>>[s + 1]]
          IN  avail' = options /\ Deliver(e, options, people)
    BY <1>3 DEF React
  <2> DEFINE options == [s \in Seats |-> <<a, b, c, d>>[s + 1]]
  <2>2. ASSUME NEW s \in Seats, IsAfk(people[s]) PROVE options[s] = {}
    <3>1. s \in 0..3 /\ options[s] = <<a, b, c, d>>[s + 1]
      BY DEF Seats
    <3>2. options[s] \in ReactionSets(s, e, people, ts)
      BY <3>1
    <3>3. QED
      BY <2>2, <3>2 DEF ReactionSets
  <2>3. avail' = options /\ Deliver(e, options, people)
    BY <2>1
  <2> HIDE DEF options
  <2>4. QED
    BY <1>3, <2>2, <2>3
<1>4. CASE ExecuteStart
  <2>1. Deliver(Ev("Start", next.seat), Empty, person)
    BY <1>4 DEF ExecuteStart
  <2>2. QED
    BY <1>1, <2>1 DEF Ev, Asking
<1>5. CASE ExecuteAbandon \/ ExecuteEnd
  <2>1. \E options : Deliver(Ev("End", 0), options, person)
    BY <1>5 DEF ExecuteAbandon, ExecuteEnd
  <2>2. QED
    BY <1>1, <2>1 DEF Ev, Asking
<1>6. CASE ExecutePredraw
  <2>1. Deliver(next, Empty, person) /\ next.kind = "Predraw"
    BY <1>6 DEF ExecutePredraw, Executes
  <2>2. QED
    BY <1>1, <2>1 DEF Asking
<1>7. CASE ExecuteDrawnGame
  <2>1. Deliver(Ev("DrawnGame", next.seat), avail, person)
    BY <1>7 DEF ExecuteDrawnGame
  <2>2. QED
    BY <1>1, <2>1 DEF Ev, Asking
<1>8. CASE ExecuteDraw \/ ExecuteConcealedKong \/ \E kind \in {"Chow", "Pung", "MeldedKong"} :
             ExecuteMeld(kind)
  <2>1. /\ Deliver(next, avail, person) /\ UNCHANGED <<avail, person>>
        /\ next.kind \notin {"DiscardTile", "AddedKong"}
    BY <1>8 DEF ExecuteDraw, ExecuteConcealedKong, ExecuteMeld, Executes
  <2>2. QED
    BY <1>2, <2>1
<1>9. CASE ExecuteDiscard \/ ExecuteAddedKong
  BY <1>3, <1>9 DEF ExecuteDiscard, ExecuteAddedKong
<1>10. ASSUME NEW kind \in Wins, ExecuteWin(kind) PROVE Delivers
  <2>1. Deliver(next, avail, person') /\ next.kind \notin Asking
    BY <1>10 DEF ExecuteWin, Executes, Wins, Asking
  <2>2. QED
    BY <1>1, <2>1
<1>11. QED
  BY <1>4, <1>5, <1>6, <1>7, <1>8, <1>9, <1>10 DEF ExecuteTransition

\* Nobody waits for a seat that is afk because no window is opened for one, no
\* option is left for a later claim to reopen it for, and only a transition,
\* which closes every window, makes a player afk.
AfkInv ==
  \A s \in Seats :
    IsAfk(person[s]) => /\ pending[s] \notin Open /\ scheduled[s] = "None"
                        /\ Claimable => avail[s] = {}

LEMMA AfkFields ==
  ASSUME NEW p \in Person
  PROVE  /\ IsAfk(Cleared(p)) => IsAfk(p)
         /\ IsAfk(Left(p)) => IsAfk(p)
         /\ \A i : IsAfk([p EXCEPT !.idle = i]) => IsAfk(p)
         /\ \A a, i : IsAfk([p EXCEPT !.abandoned = a, !.idle = i]) => IsAfk(p)
<1>1. IsAfk(Cleared(p)) => IsAfk(p)
  BY DEF Cleared, IsAfk, Person, AfkLimit
<1>2. IsAfk(Left(p)) => IsAfk(p)
  BY DEF Left, IsAfk, Person, AfkLimit
<1>3. QED
  BY <1>1, <1>2 DEF IsAfk, Person

\* What keeps AfkInv when nobody becomes afk and only windows that were granted open.
LEMMA AfkKept ==
  ASSUME AfkInv,
         \A s \in Seats :
           IsAfk(person'[s]) =>
             /\ IsAfk(person[s])
             /\ pending'[s] \in Open => pending[s] \in Open \/ scheduled[s] # "None"
             /\ scheduled'[s] \in {"None", scheduled[s]}
             /\ Claimable' => Claimable /\ (avail[s] = {} => avail'[s] = {})
  PROVE  AfkInv'
BY DEF AfkInv


\* For whom a window may be open or about to open.
HasOption(s) == AfterDraw(s) \/ AfterMeld(s) \/ avail[s] # {}
OptionsInv ==
  \A s \in Seats :
    /\ pending[s] \in Open \/ scheduled[s] # "None" =>
         HasOption(s) \/ (Delays /\ claims # {})
    /\ ~Delays => scheduled[s] = "None"

WindowsInv == TypeOK /\ AfkInv /\ OptionsInv

\* What keeps OptionsInv when no seat gets a window and none loses an option that
\* it is asked about.
LEMMA OptionsKept ==
  ASSUME OptionsInv, UNCHANGED <<last, claims>>,
         \A s \in Seats :
           /\ pending'[s] \in Open => pending[s] \in Open \/ scheduled[s] # "None"
           /\ scheduled'[s] \in {"None", scheduled[s]}
           /\ \/ avail'[s] = avail[s]
              \/ pending'[s] \notin Open /\ scheduled'[s] = "None"
  PROVE  OptionsInv'
BY DEF OptionsInv, HasOption, AfterDraw, AfterMeld

LEMMA WindowsExecute ==
  ASSUME WindowsInv, ExecuteTransition PROVE AfkInv' /\ OptionsInv'
<1>1. CASE ExecuteNothing
  BY <1>1 DEF ExecuteNothing, control, table, waits, WindowsInv, AfkInv, OptionsInv,
     Claimable, HasOption, AfterDraw, AfterMeld
<1>2. ASSUME NEW e, NEW options, NEW people, Deliver(e, options, people),
             e.kind \in Asking => options = avail' /\ people = person',
             e.kind \in {"DiscardTile", "AddedKong"} =>
               \A s \in Seats : IsAfk(people[s]) => options[s] = {}
      PROVE  AfkInv' /\ OptionsInv'
  <2>1. last'.kind = e.kind /\ last'.seat = e.seat
    BY <1>2 DEF Deliver
  <2>2. ASSUME NEW s \in Seats, ~Asleep(s)'
        PROVE  /\ Policy(s, e, options, people) # "None"
               /\ e.kind \in Asking /\ ~IsAfk(person'[s]) /\ HasOption(s)'
    <3>1. Policy(s, e, options, people) # "None"
      BY <1>2, <2>2, DeliverSleeps
    <3>2. e.kind \in Asking /\ ~IsAfk(people[s])
      BY <3>1 DEF Policy, Asking
    <3>3. \/ e.kind \in {"DrawTile", "Chow", "Pung"} /\ s = e.seat
          \/ options[s] # {}
      BY <3>1 DEF Policy
    <3>4. QED
      BY <1>2, <2>1, <3>1, <3>2, <3>3 DEF HasOption, AfterDraw, AfterMeld
  <2>3. AfkInv'
    <3>1. \A s \in Seats : IsAfk(person'[s]) => Asleep(s)'
      BY <2>2
    <3>2. Claimable' => \A s \in Seats : IsAfk(person'[s]) => avail'[s] = {}
      BY <1>2, <2>1 DEF Claimable, Asking
    <3>3. QED
      BY <3>1, <3>2 DEF AfkInv, Asleep, Open
  <2>4. ~Delays => \A s \in Seats : scheduled'[s] = "None"
    BY <1>2 DEF Deliver, SlowSets
  <2>5. OptionsInv'
    BY <2>2, <2>4 DEF OptionsInv, Asleep, Open
  <2>6. QED
    BY <2>3, <2>5
<1>3. QED
  BY <1>1, <1>2, ExecuteDelivers

\* The decisions: how each of them changes windows and players.
LEMMA AwakeAfk ==
  ASSUME TypeOK, NEW s \in Seats, Awake(s)
  PROVE  \A t \in Seats : IsAfk(person'[t]) => IsAfk(person[t])
<1>1. TAKE t \in Seats
<1>2. person[t] \in Person /\ person'[t] = (IF t = s THEN Cleared(person[t]) ELSE person[t])
  BY DEF Awake, TypeOK, PersonOK
<1>3. QED
  BY <1>2, AfkFields

\* A refresh opens nothing.
LEMMA RefreshOpensNot ==
  ASSUME NEW window, NEW start, NEW lapsed, Refresh(window, start, lapsed) \in Open
  PROVE  window \in Open
BY DEF Refresh, Open

LEMMA TimeLeftOpensNot ==
  ASSUME NEW window, NEW start, TimeLeft(window, start), NEW s \in Seats
  PROVE  /\ pending'[s] \in Open => window[s] \in Open
         /\ scheduled' = start
<1>1. pending'[s] = Refresh(window[s], start[s], s \in late) /\ scheduled' = start
  BY DEF TimeLeft
<1>2. QED
  BY <1>1, RefreshOpensNot

LEMMA CheckedOpensNot ==
  ASSUME TypeOK, NEW s \in Seats, Checked(s), NEW t \in Seats
  PROVE  /\ pending'[t] \in Open => pending[t] \in Open
         /\ scheduled' = scheduled
<1>1. pending'[t] = (IF t = s THEN Twice(s) ELSE pending[t])
  BY DEF Checked, TypeOK, WaitsOK
<1>2. Twice(s) \in Open => pending[s] \in Open
  BY RefreshOpensNot DEF Once, Twice
<1>3. QED
  BY <1>1, <1>2 DEF Checked


\* A claim closes the windows it leaves without an option, but for those that
\* only start later, and reopens none of a seat that is afk.
LEMMA WindowsClaim ==
  ASSUME WindowsInv, NEW s \in Seats, NEW kind \in ReactionKinds, Claim(s, kind)
  PROVE  AfkInv' /\ OptionsInv'
<1> DEFINE p == Priority(kind, s, last.seat)
           options == [i \in Seats |-> IF i = last.seat THEN avail[i]
                                       ELSE Masked(avail[i], i, p)]
           others == Seats \ {s, last.seat}
           reopened == {i \in others : options[i] # {}}
           closed == {s} \union {i \in others \ reopened : pending[i] # "None"}
<1>1. Claimable /\ s # last.seat
  BY DEF Claim, MayClaim, AfterDiscard, AfterAddedKong, Claimable
<1>2. \A t \in Seats : IsAfk(person'[t]) => IsAfk(person[t])
  BY AwakeAfk DEF WindowsInv, Claim
<1>3. last' = last /\ claims' # {}
  BY DEF Claim
<1>4. CASE priority < p
  <2>1. /\ avail' = options
        /\ pending' = [i \in Seats |-> IF i \in reopened THEN "Secondary"
                                       ELSE IF i \in closed THEN "None" ELSE pending[i]]
        /\ scheduled' = [i \in Seats |->
                           IF i \in reopened \union closed THEN "None" ELSE scheduled[i]]
    BY <1>4 DEF Claim
  <2>2. \A t \in Seats : avail[t] = {} => options[t] = {}
    BY DEF Masked
  <2> HIDE DEF options
  <2>3. ASSUME NEW t \in Seats, IsAfk(person'[t])
        PROVE  pending'[t] \notin Open /\ scheduled'[t] = "None" /\ avail'[t] = {}
    <3>1. IsAfk(person[t]) /\ avail[t] = {} /\ pending[t] \notin Open /\ scheduled[t] = "None"
      BY <1>1, <1>2, <2>3 DEF WindowsInv, AfkInv
    <3>2. t \notin reopened
      BY <2>2, <3>1
    <3>3. QED
      BY <2>1, <2>2, <3>1, <3>2 DEF Open
  <2>4. AfkInv'
    BY <2>3 DEF AfkInv
  <2>5. ASSUME NEW t \in Seats PROVE ~Delays => scheduled'[t] = "None"
    BY <2>1 DEF WindowsInv, OptionsInv
  <2>6. ASSUME NEW t \in Seats, pending'[t] \in Open \/ scheduled'[t] # "None"
        PROVE  HasOption(t)' \/ (Delays /\ claims' # {})
    <3>1. CASE t \in reopened
      BY <2>1, <3>1 DEF HasOption
    <3>2. CASE t = last.seat
      <4>1. t \notin reopened \union closed /\ avail'[t] = avail[t]
        BY <1>1, <2>1, <3>2 DEF options
      <4>2. pending'[t] = pending[t] /\ scheduled'[t] = scheduled[t]
        BY <2>1, <4>1
      <4>3. HasOption(t) \/ (Delays /\ claims # {})
        BY <2>6, <4>2 DEF WindowsInv, OptionsInv
      <4>4. QED
        BY <1>3, <4>1, <4>3 DEF HasOption, AfterDraw, AfterMeld
    <3>3. CASE t # last.seat /\ t \notin reopened
      <4>1. t \notin closed
        BY <2>1, <2>6, <3>3 DEF Open
      <4>2. pending[t] = "None"
        BY <3>3, <4>1
      <4>3. scheduled'[t] # "None"
        BY <2>1, <2>6, <3>3, <4>1, <4>2 DEF Open
      <4>4. Delays
        BY <2>5, <4>3
      <4>5. QED
        BY <1>3, <4>4
    <3>4. QED
      BY <3>1, <3>2, <3>3
  <2>7. OptionsInv'
    BY <2>5, <2>6 DEF OptionsInv
  <2>8. QED
    BY <2>4, <2>7
<1>5. CASE ~(priority < p)
  <2>1. Checked(s) /\ avail' = avail
    BY <1>5 DEF Claim
  <2>2. \A t \in Seats : /\ pending'[t] \in Open => pending[t] \in Open
                         /\ scheduled'[t] = scheduled[t]
    BY <2>1, CheckedOpensNot DEF WindowsInv
  <2>3. AfkInv'
    BY <1>1, <1>2, <1>3, <2>1, <2>2, AfkKept DEF WindowsInv
  <2>4. OptionsInv'
    BY <1>3, <2>1, <2>2 DEF WindowsInv, OptionsInv, HasOption, AfterDraw, AfterMeld
  <2>5. QED
    BY <2>3, <2>4
<1>6. QED
  BY <1>4, <1>5

LEMMA WindowsDecide ==
  ASSUME WindowsInv, NEW s \in Seats, Decide(s) PROVE AfkInv' /\ OptionsInv'
<1>0. TypeOK /\ AfkInv /\ OptionsInv
  BY DEF WindowsInv
<1>1. ASSUME NEW kind, NEW drawn, DecideSelf(s, kind, drawn) PROVE AfkInv' /\ OptionsInv'
  <2>1. UNCHANGED <<last, claims, avail>>
    BY <1>1 DEF DecideSelf, table
  <2>2. \A t \in Seats : IsAfk(person'[t]) => IsAfk(person[t])
    BY <1>0, <1>1, AwakeAfk DEF DecideSelf
  <2>3. \A t \in Seats : /\ pending'[t] \in Open => pending[t] \in Open
                         /\ scheduled'[t] \in {"None", scheduled[t]}
    <3>1. CASE EndWait(s)
      BY <1>0, <3>1 DEF EndWait, TypeOK, WaitsOK, Open
    <3>2. CASE UNCHANGED waits
      BY <3>2 DEF waits
    <3>3. QED
      BY <1>1, <3>1, <3>2 DEF DecideSelf
  <2>4. QED
    BY <1>0, <2>1, <2>2, <2>3, AfkKept, OptionsKept DEF Claimable
<1>2. CASE Pass(s)
  <2>1. UNCHANGED <<last, claims, avail>>
    BY <1>2 DEF Pass, control, table
  <2>2. \A t \in Seats : IsAfk(person'[t]) => IsAfk(person[t])
    BY <1>0, <1>2, AwakeAfk DEF Pass
  <2> DEFINE window == [pending EXCEPT ![s] = "None"]
             start == [scheduled EXCEPT ![s] = "None"]
             waiting == {i \in Seats : Status(window[i], start[i], i \in late) # "None"}
             seen == [i \in Seats |-> IF \A j \in waiting : i <= j
                                      THEN Refresh(window[i], start[i], i \in late)
                                      ELSE window[i]]
             after == IF waiting = {} THEN seen ELSE [seen EXCEPT ![s] = "Slept"]
  <2>3. TimeLeft(after, start)
    BY <1>2 DEF Pass
  <2>4. \A t \in Seats : start[t] \in {"None", scheduled[t]}
    BY <1>0 DEF TypeOK, WaitsOK
  <2>5. \A t \in Seats : window[t] \in Open => pending[t] \in Open
    BY <1>0 DEF TypeOK, WaitsOK, Open
  <2>6. \A t \in Seats : seen[t] \in Open => window[t] \in Open
    BY RefreshOpensNot
  <2>7. \A t \in Seats : after[t] \in Open => seen[t] \in Open
    <3> HIDE DEF waiting
    <3>1. QED
      BY DEF Open
  <2> HIDE DEF after, start, seen, window
  <2>8. \A t \in Seats : /\ pending'[t] \in Open => pending[t] \in Open
                         /\ scheduled'[t] \in {"None", scheduled[t]}
    BY <2>3, <2>4, <2>5, <2>6, <2>7, TimeLeftOpensNot
  <2>9. QED
    BY <1>0, <2>1, <2>2, <2>8, AfkKept, OptionsKept DEF Claimable
<1>3. CASE FinalPass(s)
  <2>1. UNCHANGED <<last, claims>> /\ avail' = [avail EXCEPT ![s] = {}]
    BY <1>3 DEF FinalPass
  <2>2. \A t \in Seats : IsAfk(person'[t]) => IsAfk(person[t])
    BY <1>0, <1>3, AwakeAfk DEF FinalPass
  <2> DEFINE window == [pending EXCEPT ![s] = "None"]
             start == [scheduled EXCEPT ![s] = "None"]
  <2>3. TimeLeft(window, start)
    BY <1>3 DEF FinalPass
  <2>4. \A t \in Seats : /\ start[t] = IF t = s THEN "None" ELSE scheduled[t]
                         /\ window[t] = IF t = s THEN "None" ELSE pending[t]
                         /\ avail'[t] = IF t = s THEN {} ELSE avail[t]
    BY <1>0, <2>1 DEF TypeOK, WaitsOK, TableOK
  <2> HIDE DEF start, window
  <2>5. \A t \in Seats : /\ pending'[t] \in Open => window[t] \in Open
                         /\ scheduled'[t] = start[t]
    BY <2>3, TimeLeftOpensNot
  <2>6. \A t \in Seats : /\ pending'[t] \in Open => t # s /\ pending[t] \in Open
                         /\ scheduled'[t] = IF t = s THEN "None" ELSE scheduled[t]
    BY <2>4, <2>5 DEF Open
  <2>7. QED
    BY <1>0, <2>1, <2>2, <2>4, <2>6, AfkKept, OptionsKept DEF Claimable
<1>4. CASE Refused(s)
  <2>1. UNCHANGED <<last, claims, avail, person>> /\ Checked(s)
    BY <1>4 DEF Refused, control, table
  <2>2. \A t \in Seats : /\ pending'[t] \in Open => pending[t] \in Open
                         /\ scheduled'[t] = scheduled[t]
    BY <1>0, <2>1, CheckedOpensNot
  <2>3. QED
    BY <1>0, <2>1, <2>2, AfkKept, OptionsKept DEF Claimable
<1>5. QED
  BY <1>1, <1>2, <1>3, <1>4, WindowsClaim DEF Decide

LEMMA WindowsCallers ==
  ASSUME WindowsInv, Callers PROVE AfkInv' /\ OptionsInv'
<1>0. TypeOK /\ AfkInv /\ OptionsInv
  BY DEF WindowsInv
<1>1. ASSUME UNCHANGED <<control, table, waits>>,
             \A t \in Seats : IsAfk(person'[t]) => IsAfk(person[t])
      PROVE  AfkInv' /\ OptionsInv'
  BY <1>0, <1>1, AfkKept, OptionsKept DEF control, table, waits, Claimable
<1>2. CASE Presence
  <2>1. \A t \in Seats : IsAfk(person'[t]) => IsAfk(person[t])
    <3>1. TAKE t \in Seats
    <3>2. person[t] \in Person /\ person'[t] \in {person[t], Left(person[t]), Cleared(person[t])}
      BY <1>0, <1>2 DEF Presence, TypeOK, PersonOK, CallersOK
    <3>3. QED
      BY <3>2, AfkFields
  <2>2. QED
    BY <1>1, <1>2, <2>1 DEF Presence
<1>3. ASSUME NEW s \in Seats, NEW abandon \in BOOLEAN, SetAbandoned(s, abandon)
      PROVE  AfkInv' /\ OptionsInv'
  <2> DEFINE q == [person[s] EXCEPT !.abandoned = abandon]
             r == [q EXCEPT !.idle = IF abandon THEN @ ELSE "None"]
  <2>1. person' = [person EXCEPT ![s] = r]
    BY <1>0, <1>3, TypeReads DEF SetAbandoned, TypeOK, PersonOK, Person
  <2>2. q.afk = person[s].afk /\ q.bot = person[s].bot /\ q \in Person
    BY <1>0 DEF TypeOK, PersonOK, Person
  <2>3. r.afk = person[s].afk /\ r.bot = person[s].bot
    <3> HIDE DEF q
    <3>1. QED
      BY <2>2 DEF Person
  <2> HIDE DEF r
  <2>4. \A t \in Seats : person'[t].afk = person[t].afk /\ person'[t].bot = person[t].bot
    BY <1>0, <2>1, <2>3 DEF TypeOK, PersonOK
  <2>5. QED
    BY <1>1, <1>3, <2>4 DEF SetAbandoned, IsAfk
<1>4. CASE CollectorEnds /\ ~ended
  <2>1. \A t \in Seats : pending'[t] = "None" /\ scheduled'[t] = "None"
    BY <1>4 DEF CollectorEnds, NoWait
  <2>2. /\ UNCHANGED <<person, avail, claims>>
        /\ last' = [kind |-> "End", seat |-> 0] \/ last' = last
    BY <1>4 DEF CollectorEnds, table
  <2>3. Claimable' => Claimable
    BY <2>2 DEF Claimable
  <2>4. AfkInv'
    BY <1>0, <2>1, <2>2, <2>3 DEF AfkInv, Open
  <2>5. QED
    BY <2>1, <2>4 DEF OptionsInv, Open
<1>5. QED
  BY <1>1, <1>2, <1>3, <1>4
  DEF Callers, PresenceCall, CollectorLooks, CollectorEnds, control, waits

LEMMA WindowsTime ==
  ASSUME WindowsInv, Time PROVE AfkInv' /\ OptionsInv'
<1>0. TypeOK /\ AfkInv /\ OptionsInv
  BY DEF WindowsInv
<1>1. UNCHANGED <<last, claims, avail>>
  BY DEF Time, WaitLapses, IdleLapses, WaitStarts, TimerExpires, control, table
<1>2. ASSUME NEW s \in Seats, IdleLapses(s) PROVE AfkInv' /\ OptionsInv'
  <2>1. \A t \in Seats : IsAfk(person'[t]) => IsAfk(person[t])
    <3>1. TAKE t \in Seats
    <3>2. person'[t] = person[t] \/ person'[t] = [person[t] EXCEPT !.idle = "Long"]
      BY <1>0, <1>2 DEF IdleLapses, TypeOK, PersonOK
    <3>3. QED
      BY <1>0, <3>2, AfkFields DEF TypeOK, PersonOK
  <2>2. UNCHANGED <<pending, scheduled>>
    BY <1>2 DEF IdleLapses, waits
  <2>3. QED
    BY <1>0, <1>1, <2>1, <2>2, AfkKept, OptionsKept DEF Claimable
<1>3. ASSUME NEW s \in Seats, WaitStarts(s) PROVE AfkInv' /\ OptionsInv'
  <2>1. person' = person
    BY <1>3 DEF WaitStarts
  <2>2. \A t \in Seats :
          /\ pending'[t] \in Open => pending[t] \in Open \/ scheduled[t] # "None"
          /\ scheduled'[t] \in {"None", scheduled[t]}
    <3>1. TAKE t \in Seats
    <3>2. opener[s].pending # "None"
      BY <1>3 DEF WaitStarts
    <3>3. CASE scheduled[s] # opener[s].pending
      BY <1>3, <3>3 DEF WaitStarts
    <3>4. CASE scheduled[s] = opener[s].pending
      BY <1>0, <1>3, <3>2, <3>4 DEF WaitStarts, TypeOK, WaitsOK
    <3>5. QED
      BY <3>3, <3>4
  <2>3. QED
    BY <1>0, <1>1, <2>1, <2>2, AfkKept, OptionsKept DEF Claimable
<1>4. CASE TimerExpires \/ \E s \in Seats : WaitLapses(s)
  <2>1. UNCHANGED <<person, pending, scheduled>>
    BY <1>4 DEF TimerExpires, WaitLapses, waits
  <2>2. QED
    BY <1>0, <1>1, <2>1, AfkKept, OptionsKept DEF Claimable
<1>5. QED
  BY <1>2, <1>3, <1>4 DEF Time

LEMMA WindowsInit == Init => WindowsInv
<1>1. Init => AfkInv /\ OptionsInv
  BY DEF Init, AfkInv, OptionsInv, Claimable, NoWait, Open
<1>2. QED
  BY <1>1, TypeInit DEF WindowsInv

LEMMA WindowsStep == WindowsInv /\ [Next]_vars => WindowsInv'
<1>1. ASSUME WindowsInv, UNCHANGED vars PROVE AfkInv' /\ OptionsInv'
  BY <1>1 DEF vars, control, table, waits, WindowsInv, AfkInv, OptionsInv, Claimable,
     HasOption, AfterDraw, AfterMeld
<1>2. QED
  BY <1>1, TypeStep, WindowsExecute, WindowsDecide, WindowsCallers, WindowsTime
  DEF Next, WindowsInv

\* The table never waits for a player who is afk, although players leave, come
\* back and time out while windows are open and others are still to start.
THEOREM AfkNeverAwaitedHolds == Spec => []AfkNeverAwaited
<1>1. WindowsInv => AfkNeverAwaited
  BY DEF WindowsInv, AfkInv, AfkNeverAwaited
<1>2. QED
  BY WindowsInit, WindowsStep, <1>1, PTL DEF Spec

\* Every window that is open is that of a seat with something to decide, unless
\* it was delayed and a claim came before it.
THEOREM WindowsHaveOptionsHolds == Spec => []WindowsHaveOptions
<1>1. WindowsInv => WindowsHaveOptions
  BY DEF WindowsInv, OptionsInv, HasOption, WindowsHaveOptions
<1>2. QED
  BY WindowsInit, WindowsStep, <1>1, PTL DEF Spec


-----------------------------------------------------------------------------
(* The records of the rounds.                                              *)

Rounds(n) == [i \in 1..n |-> i]

\* What RecordsComplete rests on: nothing is handed over while saved, a round
\* that is not saved comes after all that are, and the next one only starts
\* when it is.  A record manager that may refuse only takes the last part away.
RecordsInv ==
  /\ \A i, j \in DOMAIN records : i < j => records[i] < records[j]
  /\ \A i \in DOMAIN records : records[i] <= round /\ (~saved => records[i] < round)
  /\ RoundCount # 0 => round <= RoundCount
  /\ RoundCount # 0 /\ next.kind = "Start" => round < RoundCount
  /\ Recorded /\ ~MayRefuse =>
       /\ started <=> round > 0
       /\ ~saved => started
       /\ records = Rounds(IF saved THEN round ELSE round - 1)
       /\ next.kind = "Start" \/ ended => saved

LEMMA RoundsAppend ==
  ASSUME NEW n \in Nat, n > 0 PROVE Append(Rounds(n - 1), n) = Rounds(n)
<1>1. Rounds(n - 1) \in Seq(Nat) /\ Len(Rounds(n - 1)) = n - 1
  BY DEF Rounds
<1>2. Append(Rounds(n - 1), n) = [i \in 1..n |-> IF i <= n - 1 THEN Rounds(n - 1)[i] ELSE n]
  BY <1>1
<1>3. \A i \in 1..n : (IF i <= n - 1 THEN Rounds(n - 1)[i] ELSE n) = i
  BY DEF Rounds
<1>4. QED
  BY <1>2, <1>3 DEF Rounds

\* What keeps RecordsInv while a round is played.
LEMMA RecordsKept ==
  ASSUME RecordsInv, UNCHANGED <<round, started, saved, records>>,
         next'.kind = "Start" => next.kind = "Start", ended' = ended
  PROVE  RecordsInv'
BY DEF RecordsInv

\* What keeps it when the record of the round is handed over, if it was not yet.
LEMMA RecordsEnqueued ==
  ASSUME TypeOK, RecordsInv, EnqueueRecord, round' = round,
         RoundCount # 0 /\ next'.kind = "Start" => round < RoundCount
  PROVE  RecordsInv'
<1>0. round \in Nat /\ records \in Seq(Nat) /\ started \in BOOLEAN /\ saved \in BOOLEAN
  BY DEF TypeOK, ControlOK, RecordingOK
<1>1. CASE /\ Recorded /\ started /\ ~saved
           /\ saved' = TRUE /\ records' = Append(records, round) /\ UNCHANGED started
  <2>1. /\ DOMAIN records = 1..Len(records) /\ Len(records) \in Nat
        /\ DOMAIN records' = 1..(Len(records) + 1)
        /\ records'[Len(records) + 1] = round
        /\ \A i \in DOMAIN records : records'[i] = records[i] /\ records[i] \in Nat
    BY <1>0, <1>1
  <2>2. \A i \in DOMAIN records : records[i] < round
    BY <1>1 DEF RecordsInv
  <2>3. \A i, j \in DOMAIN records' : i < j => records'[i] < records'[j]
    <3>1. TAKE i, j \in DOMAIN records'
    <3>2. HAVE i < j
    <3>3. i \in DOMAIN records
      BY <2>1, <3>2
    <3>4. CASE j \in DOMAIN records
      BY <2>1, <3>2, <3>3, <3>4 DEF RecordsInv
    <3>5. CASE j = Len(records) + 1
      BY <2>1, <2>2, <3>3, <3>5
    <3>6. QED
      BY <2>1, <3>4, <3>5
  <2>4. \A i \in DOMAIN records' : records'[i] <= round
    <3>1. TAKE i \in DOMAIN records'
    <3>2. CASE i \in DOMAIN records
      BY <1>0, <2>1, <2>2, <3>2
    <3>3. CASE i = Len(records) + 1
      BY <1>0, <2>1, <3>3
    <3>4. QED
      BY <2>1, <3>2, <3>3
  <2>5. ASSUME Recorded, ~MayRefuse PROVE round > 0 /\ records' = Rounds(round)
    <3>1. round > 0 /\ records = Rounds(round - 1)
      BY <1>1, <2>5 DEF RecordsInv
    <3>2. QED
      BY <1>0, <1>1, <3>1, RoundsAppend
  <2>6. QED
    BY <1>1, <2>3, <2>4, <2>5 DEF RecordsInv
<1>2. CASE UNCHANGED recording /\ (~(Recorded /\ started /\ ~saved) \/ MayRefuse)
  <2>1. UNCHANGED <<started, saved, records>>
    BY <1>2 DEF recording
  <2>2. Recorded /\ ~MayRefuse => saved
    BY <1>2 DEF RecordsInv
  <2>3. QED
    BY <2>1, <2>2 DEF RecordsInv
<1>3. QED
  BY <1>1, <1>2 DEF EnqueueRecord

\* A new round: every round before it has been handed over.
LEMMA RecordsStart ==
  ASSUME TypeOK, LifeInv, RecordsInv, ExecuteStart PROVE RecordsInv'
<1>0. round \in Nat /\ RoundCount \in Nat /\ records \in Seq(Nat)
      /\ started \in BOOLEAN /\ saved \in BOOLEAN
  BY RoundsAssumption DEF TypeOK, ControlOK, RecordingOK
<1>1. /\ next.kind = "Start" /\ round' = round + 1 /\ records' = records /\ ended' = ended
      /\ next'.kind = "Predraw"
      /\ IF Recorded THEN started' = TRUE /\ saved' = FALSE ELSE UNCHANGED <<started, saved>>
  BY DEF ExecuteStart, Executes, PredrawBy, Ev, lifecycle
<1>2. ~ended
  BY <1>1 DEF LifeInv, NoEvent, Ev
<1>3. \A i \in DOMAIN records : records[i] \in Nat /\ records[i] < round'
  <2>1. TAKE i \in DOMAIN records
  <2>2. records[i] \in Nat
    BY <1>0
  <2>3. records[i] <= round
    BY DEF RecordsInv
  <2>4. QED
    BY <1>0, <1>1, <2>2, <2>3
<1>4. RoundCount # 0 => round' <= RoundCount
  BY <1>0, <1>1 DEF RecordsInv
<1>5. Recorded /\ ~MayRefuse => records' = Rounds(round' - 1) /\ round' > 0
  <2>1. Recorded /\ ~MayRefuse => records = Rounds(round)
    BY <1>1 DEF RecordsInv
  <2>2. round' - 1 = round /\ round' > 0
    BY <1>0, <1>1
  <2>3. QED
    BY <1>1, <2>1, <2>2
<1>6. \A i \in DOMAIN records : records[i] <= round'
  BY <1>0, <1>1, <1>3
<1>7. \A i, j \in DOMAIN records' : i < j => records'[i] < records'[j]
  BY <1>1 DEF RecordsInv
<1>8. Recorded /\ ~MayRefuse => started' /\ ~saved'
  BY <1>1
<1>9. QED
  BY <1>1, <1>2, <1>3, <1>4, <1>5, <1>6, <1>7, <1>8 DEF RecordsInv

\* A round that is not the last is recorded with its result, the last one when
\* the session ends.
LEMMA RecordsResult ==
  ASSUME TypeOK, RecordsInv, NEW people, next' = NextRound(people),
         NEW kind \in RoundResults, RecordAfter(kind, next'.kind),
         round' = round, ended' = ended
  PROVE  RecordsInv'
<1>0. round \in Nat /\ RoundCount \in Nat
  BY RoundsAssumption DEF TypeOK, ControlOK
<1>1. CASE next'.kind = "End"
  <2>1. UNCHANGED recording
    BY <1>1 DEF RecordAfter, RoundResults, Wins
  <2>2. QED
    BY <1>1, <2>1, RecordsKept DEF recording
<1>2. CASE next'.kind # "End"
  <2>1. EnqueueRecord
    BY <1>2 DEF RecordAfter
  <2>2. RoundCount # 0 => ~(round >= RoundCount)
    BY <1>2 DEF NextRound, Ev
  <2>3. QED
    BY <1>0, <2>1, <2>2, RecordsEnqueued
<1>3. QED
  BY <1>1, <1>2

LEMMA RecordsExecute ==
  ASSUME TypeOK, LifeInv, RecordsInv, ExecuteTransition PROVE RecordsInv'
<1>1. CASE ExecuteNothing
  BY <1>1, RecordsKept DEF ExecuteNothing, control, recording, lifecycle
<1>2. CASE ExecuteStart
  BY <1>2, RecordsStart
<1>3. CASE ExecuteAbandon \/ ExecuteEnd
  <2>1. EnqueueRecord /\ round' = round /\ next'.kind # "Start"
    BY <1>3 DEF ExecuteAbandon, ExecuteEnd, RecordAfter, NoEvent, Ev
  <2>2. QED
    BY <2>1, RecordsEnqueued
<1>4. ASSUME UNCHANGED <<round, recording, lifecycle>>, next'.kind # "Start"
      PROVE  RecordsInv'
  BY <1>4, RecordsKept DEF recording, lifecycle
<1>5. CASE ExecutePredraw
  <2>1. next'.kind # "Start"
    BY <1>5 DEF ExecutePredraw, PredrawBy, DrawBy, Ev
  <2>2. QED
    BY <1>4, <1>5, <2>1 DEF ExecutePredraw
<1>6. CASE ExecuteDraw
  BY <1>4, <1>6 DEF ExecuteDraw, ForcedDiscard, Ev
<1>7. CASE ExecuteDrawnGame
  <2>1. "DrawnGame" \in RoundResults
    BY DEF RoundResults
  <2>2. QED
    BY <1>7, <2>1, RecordsResult DEF ExecuteDrawnGame, lifecycle
<1>8. CASE ExecuteDiscard
  BY <1>4, <1>8 DEF ExecuteDiscard, DrawBy, Ev
<1>9. ASSUME NEW kind \in {"Chow", "Pung", "MeldedKong"}, ExecuteMeld(kind)
      PROVE  RecordsInv'
  <2>1. next'.kind # "Start"
    BY <1>9 DEF ExecuteMeld, DrawBy, ForcedDiscard, Ev
  <2>2. QED
    BY <1>4, <1>9, <2>1 DEF ExecuteMeld
<1>10. CASE ExecuteAddedKong
  BY <1>4, <1>10 DEF ExecuteAddedKong, DrawBy, Ev
<1>11. CASE ExecuteConcealedKong
  BY <1>4, <1>11 DEF ExecuteConcealedKong, DrawBy, Ev
<1>12. ASSUME NEW kind \in Wins, ExecuteWin(kind) PROVE RecordsInv'
  <2>1. kind \in RoundResults
    BY <1>12 DEF RoundResults
  <2>2. QED
    BY <1>12, <2>1, RecordsResult DEF ExecuteWin, lifecycle
<1>13. QED
  BY <1>1, <1>2, <1>3, <1>5, <1>6, <1>7, <1>8, <1>9, <1>10, <1>11, <1>12
  DEF ExecuteTransition

LEMMA RecordsDecide ==
  ASSUME RecordsInv, NEW s \in Seats, Decide(s) PROVE RecordsInv'
<1>1. UNCHANGED <<round, recording, lifecycle>>
  BY DEF Decide, DecideSelf, Claim, Pass, FinalPass, Refused, control
<1>2. next'.kind = "Start" => next.kind = "Start"
  <2>1. ASSUME NEW drawn,
               NEW kind \in {"DiscardTile", "AddedKong", "ConcealedKong", "SelfDrawnWin"},
               DecideSelf(s, kind, drawn)
        PROVE  next' = next \/ next'.kind # "Start"
    <3>1. next' = next \/ next' = [Ev(kind, s) EXCEPT !.drawn = drawn]
      BY <2>1 DEF DecideSelf
    <3>2. [Ev(kind, s) EXCEPT !.drawn = drawn].kind = kind
      BY DEF Ev
    <3>3. QED
      BY <3>1, <3>2
  <2>2. ASSUME NEW kind \in ReactionKinds, Claim(s, kind)
        PROVE  next' = next \/ next'.kind # "Start"
    BY <2>2 DEF Claim, Ev, ReactionKinds
  <2>3. CASE Pass(s) \/ FinalPass(s) \/ Refused(s)
    BY <2>3 DEF Pass, FinalPass, Refused, control
  <2>4. QED
    BY <2>1, <2>2, <2>3 DEF Decide
<1>3. QED
  BY <1>1, <1>2, RecordsKept DEF recording, lifecycle

LEMMA RecordsCallers ==
  ASSUME TypeOK, LifeInv, RecordsInv, Callers PROVE RecordsInv'
<1>1. CASE UNCHANGED <<control, recording, lifecycle>>
  BY <1>1, RecordsKept DEF control, recording, lifecycle
<1>2. CASE CollectorEnds /\ ~ended
  <2>1. EnqueueRecord /\ round' = round /\ next'.kind # "Start"
    BY <1>2 DEF CollectorEnds, NoEvent, Ev
  <2>2. QED
    BY <2>1, RecordsEnqueued
<1>3. CASE CollectorEnds /\ ended
  BY <1>1, <1>3 DEF CollectorEnds, EndLifecycle, LifeInv, lifecycle
<1>4. QED
  BY <1>1, <1>2, <1>3 DEF Callers, PresenceCall, Presence, SetAbandoned, CollectorLooks

LEMMA RecordsTime ==
  ASSUME RecordsInv, Time PROVE RecordsInv'
<1>1. UNCHANGED <<control, recording, lifecycle>>
  BY DEF Time, WaitLapses, IdleLapses, WaitStarts, TimerExpires
<1>2. QED
  BY <1>1, RecordsKept DEF control, recording, lifecycle

LEMMA RecordsInit == Init => RecordsInv
<1> SUFFICES ASSUME Init PROVE RecordsInv
  OBVIOUS
<1>1. records = <<>> /\ saved = TRUE /\ started = FALSE /\ round = 0
  BY DEF Init
<1>2. DOMAIN records = {} /\ records = Rounds(0)
  BY <1>1 DEF Rounds
<1>3. QED
  BY <1>1, <1>2, RoundsAssumption DEF RecordsInv

LEMMA RecordsStep ==
  (TypeOK /\ LifeInv /\ RecordsInv) /\ [Next]_vars => RecordsInv'
<1>1. ASSUME RecordsInv, UNCHANGED vars PROVE RecordsInv'
  BY <1>1, RecordsKept DEF vars, control, recording, lifecycle
<1>2. QED
  BY <1>1, RecordsExecute, RecordsDecide, RecordsCallers, RecordsTime DEF Next

\* However a session ends, the records of its rounds are handed over once each,
\* in order, up to the last one that was started.
THEOREM RecordsCompleteHolds == Spec => []RecordsComplete
<1>1. TypeOK /\ RecordsInv => RecordsComplete
  <2>1. SUFFICES ASSUME TypeOK, RecordsInv, ended, Recorded, ~MayRefuse
                 PROVE  records = [i \in 1..round |-> i]
    BY DEF RecordsInv, RecordsComplete
  <2>2. QED
    BY <2>1 DEF RecordsInv, Rounds
<1>2. QED
  BY TypeInit, TypeStep, LifeInit, LifeStep, RecordsInit, RecordsStep, <1>1, PTL DEF Spec


-----------------------------------------------------------------------------
(* Without delays no window is cut short.                                  *)

\* Until somebody decides, the deadline of the timer lies behind every open
\* window, and when the timer has expired they all have lapsed.
CoveredInv ==
  ~Delays /\ priority = -1 =>
    \A s \in Seats : pending[s] \in Open => /\ fired => s \in late
                                            /\ timer => s \in until \union late

RespectInv == WindowsInv /\ CoveredInv

\* What keeps CoveredInv while the timer is left alone.
LEMMA CoveredKept ==
  ASSUME CoveredInv, UNCHANGED <<priority, timer, until, fired>>, late \subseteq late',
         \A s \in Seats : pending'[s] \in Open => pending[s] \in Open
  PROVE  CoveredInv'
BY DEF CoveredInv

LEMMA CoveredExecute ==
  ASSUME RespectInv, ExecuteTransition PROVE CoveredInv'
<1>1. CASE ExecuteNothing
  BY <1>1 DEF ExecuteNothing, control, waits, RespectInv, CoveredInv
<1>2. ASSUME NEW e, NEW options, NEW people, Deliver(e, options, people),
             NEW kind, Executes(kind)
      PROVE  CoveredInv'
  <2>1. ASSUME NEW s \in Seats, pending'[s] \in Open, timer' PROVE s \in until'
    <3>1. Policy(s, e, options, people) # "None"
      BY <1>2, <2>1, DeliverSleeps DEF Asleep, Open
    <3>2. next'.kind # "None"
      BY <1>2, <2>1 DEF Deliver
    <3>3. until' = {t \in Seats : Policy(t, e, options, people) # "None"}
      BY <1>2, <3>2 DEF Deliver
    <3>4. QED
      BY <3>1, <3>3
  <2>2. fired' = FALSE
    BY <1>2 DEF Executes
  <2>3. QED
    BY <2>1, <2>2 DEF CoveredInv
<1>3. QED
  BY <1>1, <1>2, ExecuteDelivers, ExecuteNext

\* The deadline that time_left sets covers the windows it leaves open.
LEMMA CoveredTimeLeft ==
  ASSUME CoveredInv, NEW window, NEW start, TimeLeft(window, start), priority' = priority,
         \A s \in Seats : window[s] \in Open => pending[s] \in Open,
         ~Delays => \A s \in Seats : start[s] = "None"
  PROVE  CoveredInv'
<1>1. SUFFICES ASSUME ~Delays, priority = -1, NEW s \in Seats, pending'[s] \in Open
               PROVE  (fired' => s \in late') /\ s \in until'
  BY DEF CoveredInv
<1>2. pending[s] \in Open
  BY <1>1, TimeLeftOpensNot
<1>3. \A i \in Seats : start[i] \notin Open
  BY <1>1 DEF Open
<1>4. until' = {i \in Seats : start[i] = "None" /\ pending'[i] \in Open} /\ fired' = fired
  BY <1>3 DEF TimeLeft, SetTimer
<1>5. fired => s \in late
  BY <1>1, <1>2 DEF CoveredInv
<1>6. s \in late => s \in late'
  BY <1>1 DEF TimeLeft
<1>7. QED
  BY <1>1, <1>4, <1>5, <1>6

LEMMA CoveredDecide ==
  ASSUME RespectInv, NEW s \in Seats, Decide(s) PROVE CoveredInv'
<1>0. TypeOK /\ OptionsInv /\ CoveredInv
  BY DEF RespectInv, WindowsInv
<1>1. ASSUME NEW kind, NEW drawn, DecideSelf(s, kind, drawn) PROVE CoveredInv'
  <2>1. CASE priority < SelfPriority
    BY <1>1, <2>1 DEF DecideSelf, CoveredInv, SelfPriority
  <2>2. CASE ~(priority < SelfPriority)
    BY <1>0, <1>1, <2>2, CoveredKept DEF DecideSelf, waits, clock
  <2>3. QED
    BY <2>1, <2>2
<1>2. ASSUME NEW kind \in ReactionKinds, Claim(s, kind) PROVE CoveredInv'
  <2>1. last.seat \in Seats
    BY <1>0, TypeReads
  <2>2. CASE priority < Priority(kind, s, last.seat)
    <3>1. priority' = Priority(kind, s, last.seat)
      BY <1>2, <2>2 DEF Claim
    <3>2. priority' # -1
      BY <2>1, <3>1, PriorityTyped
    <3>3. QED
      BY <3>2 DEF CoveredInv
  <2>3. CASE ~(priority < Priority(kind, s, last.seat))
    <3>1. Checked(s) /\ UNCHANGED <<priority, clock>>
      BY <1>2, <2>3 DEF Claim
    <3>2. QED
      BY <1>0, <3>1, CheckedOpensNot, CoveredKept DEF Checked, clock
  <2>4. QED
    BY <2>2, <2>3
<1>3. CASE Pass(s)
  <2> DEFINE window == [pending EXCEPT ![s] = "None"]
             start == [scheduled EXCEPT ![s] = "None"]
             waiting == {i \in Seats : Status(window[i], start[i], i \in late) # "None"}
             seen == [i \in Seats |-> IF \A j \in waiting : i <= j
                                      THEN Refresh(window[i], start[i], i \in late)
                                      ELSE window[i]]
             after == IF waiting = {} THEN seen ELSE [seen EXCEPT ![s] = "Slept"]
  <2>1. TimeLeft(after, start) /\ priority' = priority
    BY <1>3 DEF Pass, control
  <2>2. ~Delays => \A t \in Seats : start[t] = "None"
    BY <1>0 DEF TypeOK, WaitsOK, OptionsInv
  <2>3. \A t \in Seats : window[t] \in Open => pending[t] \in Open
    BY <1>0 DEF TypeOK, WaitsOK, Open
  <2>4. \A t \in Seats : seen[t] \in Open => window[t] \in Open
    BY RefreshOpensNot
  <2>5. \A t \in Seats : after[t] \in Open => seen[t] \in Open
    <3> HIDE DEF waiting
    <3>1. QED
      BY DEF Open
  <2> HIDE DEF after, start, seen, window
  <2>6. QED
    BY <1>0, <2>1, <2>2, <2>3, <2>4, <2>5, CoveredTimeLeft
<1>4. CASE FinalPass(s)
  <2> DEFINE window == [pending EXCEPT ![s] = "None"]
             start == [scheduled EXCEPT ![s] = "None"]
  <2>1. TimeLeft(window, start) /\ priority' = priority
    BY <1>4 DEF FinalPass
  <2>2. /\ ~Delays => \A t \in Seats : start[t] = "None"
        /\ \A t \in Seats : window[t] \in Open => pending[t] \in Open
    BY <1>0 DEF TypeOK, WaitsOK, OptionsInv, Open
  <2> HIDE DEF window, start
  <2>3. QED
    BY <1>0, <2>1, <2>2, CoveredTimeLeft
<1>5. CASE Refused(s)
  <2>1. Checked(s) /\ UNCHANGED <<control, clock>>
    BY <1>5 DEF Refused
  <2>2. QED
    BY <1>0, <2>1, CheckedOpensNot, CoveredKept DEF Checked, control, clock
<1>6. QED
  BY <1>1, <1>2, <1>3, <1>4, <1>5 DEF Decide

LEMMA CoveredCallers ==
  ASSUME RespectInv, Callers PROVE CoveredInv'
<1>1. CASE UNCHANGED <<control, waits, clock>>
  BY <1>1, CoveredKept DEF RespectInv, control, waits, clock
<1>2. CASE CollectorEnds /\ ~ended
  BY <1>2 DEF CollectorEnds, NoWait, CoveredInv, Open
<1>3. QED
  BY <1>1, <1>2
  DEF Callers, PresenceCall, Presence, SetAbandoned, CollectorLooks, CollectorEnds

LEMMA CoveredTime ==
  ASSUME RespectInv, Time PROVE CoveredInv'
<1>0. TypeOK /\ OptionsInv /\ CoveredInv
  BY DEF RespectInv, WindowsInv
<1>1. ASSUME NEW s \in Seats, WaitLapses(s) \/ IdleLapses(s) PROVE CoveredInv'
  <2>1. /\ UNCHANGED <<control, pending, clock>>
        /\ late \subseteq late'
    BY <1>1 DEF WaitLapses, IdleLapses, waits
  <2>2. QED
    BY <1>0, <2>1, CoveredKept DEF control, clock
<1>2. ASSUME NEW s \in Seats, WaitStarts(s) PROVE CoveredInv'
  <2>1. CASE Delays
    BY <2>1 DEF CoveredInv
  <2>2. CASE ~Delays
    <3>1. scheduled[s] # opener[s].pending
      BY <1>0, <1>2, <2>2 DEF OptionsInv, WaitStarts
    <3>2. UNCHANGED <<control, pending, late, clock>>
      BY <1>2, <3>1 DEF WaitStarts
    <3>3. QED
      BY <1>0, <3>2, CoveredKept DEF control, clock
  <2>3. QED
    BY <2>1, <2>2
<1>3. CASE TimerExpires
  <2>1. /\ UNCHANGED <<priority, pending, late>>
        /\ timer /\ timer' = FALSE /\ fired' = TRUE /\ until \subseteq late
    BY <1>3 DEF TimerExpires, control, waits
  <2>2. QED
    BY <1>0, <2>1 DEF CoveredInv
<1>4. QED
  BY <1>1, <1>2, <1>3 DEF Time

LEMMA RespectInit == Init => RespectInv
<1>1. Init => CoveredInv
  BY DEF Init, CoveredInv, NoWait, Open
<1>2. QED
  BY <1>1, WindowsInit DEF RespectInv

LEMMA RespectStep == RespectInv /\ [Next]_vars => RespectInv'
<1>1. ASSUME RespectInv, UNCHANGED vars PROVE CoveredInv'
  BY <1>1 DEF vars, control, waits, clock, RespectInv, CoveredInv
<1>2. QED
  BY <1>1, WindowsStep, CoveredExecute, CoveredDecide, CoveredCallers, CoveredTime
  DEF Next, RespectInv

\* Only a transition counts up the stage, and its callback was taken before.
LEMMA StageCounts ==
  ASSUME RespectInv, Next, stage' # stage PROVE fired
<1>1. ASSUME ExecuteTransition PROVE fired
  <2>1. CASE ExecuteNothing
    BY <2>1 DEF ExecuteNothing
  <2>2. CASE \E kind : Executes(kind)
    BY <2>2 DEF Executes
  <2>3. QED
    BY <1>1, <2>1, <2>2, ExecuteNext
<1>2. ASSUME NEW s \in Seats, Decide(s) PROVE stage' = stage
  BY <1>2 DEF Decide, DecideSelf, Claim, Pass, FinalPass, Refused, control
<1>3. ASSUME Callers PROVE stage' = stage
  BY <1>3 DEF Callers, PresenceCall, Presence, SetAbandoned, CollectorLooks,
     CollectorEnds, control
<1>4. ASSUME Time PROVE stage' = stage
  BY <1>4 DEF Time, WaitLapses, IdleLapses, WaitStarts, TimerExpires, control
<1>5. QED
  BY <1>1, <1>2, <1>3, <1>4 DEF Next

\* Where no broadcast is delayed, the server's default move is only made when
\* every seat that was asked has answered or let its time run out, in whatever
\* order the others passed and whenever the worker took its callback.
THEOREM WindowsRespectedHolds == ~Delays => (Spec => WindowsRespected)
<1> DEFINE Respects == stage' # stage /\ priority = -1 =>
             \A s \in Seats : /\ scheduled[s] = "None"
                              /\ pending[s] \in Open => s \in late
<1> SUFFICES ASSUME ~Delays PROVE Spec => WindowsRespected
  OBVIOUS
<1>1. ASSUME RespectInv, Next PROVE Respects
  BY <1>1, StageCounts DEF RespectInv, WindowsInv, OptionsInv, CoveredInv
<1>2. RespectInv /\ [Next]_vars => [Respects]_vars
  BY <1>1
<1>3. QED
  BY RespectInit, RespectStep, <1>2, PTL DEF Spec, WindowsRespected

=============================================================================
