------------------------------ MODULE TableRules ------------------------------
(***************************************************************************)
(* What a session promises to the four players of a table: whatever they   *)
(* send, in whatever order, and whichever of them are away, the moves that *)
(* become real are those of one legal game.  Nothing is said here about    *)
(* clocks, claims that are not granted, or connections.                    *)
(*                                                                         *)
(* A seat holds concealed tiles and melds.  Of a meld only its number is   *)
(* kept, and which tile is which is left to the wall.                      *)
(***************************************************************************)
EXTENDS Integers

CONSTANTS
  WallTiles,    \* tiles of a full wall
  BasePoints,   \* base points a winning hand may be worth
  RoundCount,   \* rounds of a game, 0 for an endless one
  Floor         \* a score below it ends the game

VARIABLES
  round,        \* the rounds begun
  last,         \* the last move and who made it
  wall,         \* tiles left in the wall
  concealed,    \* tiles each seat holds beside its melds
  melds,        \* melds of each seat
  points        \* the score of each seat

Seats == 0..3
Right(seat) == (seat + 1) % 4
Kongs == {"MeldedKong", "AddedKong", "ConcealedKong"}
Results == {"DiscardWin", "RobAddedKongWin", "SelfDrawnWin", "DrawnGame"}

Moves(kind, s) == last' = [kind |-> kind, seat |-> s]
\* Seat s has k more concealed tiles and m more melds.
Holds(s, k, m) ==
  /\ concealed' = [concealed EXCEPT ![s] = @ + k]
  /\ melds' = [melds EXCEPT ![s] = @ + m]

Init ==
  /\ round = 0
  /\ last = [kind |-> "None", seat |-> 0]
  /\ wall = 0
  /\ concealed = [s \in Seats |-> 0]
  /\ melds = [s \in Seats |-> 0]
  /\ points = [s \in Seats |-> 0]

-----------------------------------------------------------------------------
(* A round begins and is dealt.                                            *)

\* A round begins when the one before has a result, unless the game is over;
\* the players may have changed places.
Begin ==
  /\ last.kind \in {"None"} \union Results
  /\ RoundCount # 0 => round < RoundCount
  /\ round > 0 => \A s \in Seats : points[s] >= Floor
  /\ Moves("Start", 0)
  /\ round' = round + 1
  /\ wall' = WallTiles
  /\ concealed' = [s \in Seats |-> 0] /\ melds' = [s \in Seats |-> 0]
  /\ \E seating \in [Seats -> Seats] :
       /\ \A s \in Seats : \E t \in Seats : seating[t] = s
       /\ points' = [s \in Seats |-> points[seating[s]]]

\* Three times four tiles in turn, then one, until 52 are dealt.
Deal(s) ==
  LET k == IF wall > WallTiles - 48 THEN 4 ELSE 1 IN
  /\ \/ last.kind = "Start" /\ s = 0
     \/ last.kind = "Predraw" /\ s = Right(last.seat)
  /\ wall > WallTiles - 52
  /\ Moves("Predraw", s)
  /\ wall' = wall - k
  /\ Holds(s, k, 0)
  /\ UNCHANGED <<round, points>>

-----------------------------------------------------------------------------
(* Turns.                                                                  *)

\* Who draws next: the first seat after the deal, the seat to the right of a
\* discard, and the seat that declared a kong.
Due(s) ==
  \/ last.kind = "Predraw" /\ wall = WallTiles - 52 /\ s = 0
  \/ last.kind = "DiscardTile" /\ s = Right(last.seat)
  \/ last.kind \in Kongs /\ s = last.seat

Draw(s) ==
  /\ Due(s) /\ wall > 0
  /\ Moves("DrawTile", s)
  /\ wall' = wall - 1
  /\ Holds(s, 1, 0)
  /\ UNCHANGED <<round, points>>

OnTurn(s) == last.kind \in {"DrawTile", "Chow", "Pung"} /\ s = last.seat

Discard(s) ==
  /\ OnTurn(s)
  /\ Moves("DiscardTile", s)
  /\ Holds(s, -1, 0)
  /\ UNCHANGED <<round, wall, points>>

ConcealKong(s) ==
  /\ OnTurn(s) /\ concealed[s] >= 4
  /\ Moves("ConcealedKong", s)
  /\ Holds(s, -4, 1)
  /\ UNCHANGED <<round, wall, points>>

AddKong(s) ==
  /\ OnTurn(s) /\ melds[s] >= 1 /\ concealed[s] >= 1
  /\ Moves("AddedKong", s)
  /\ Holds(s, -1, 0)
  /\ UNCHANGED <<round, wall, points>>

-----------------------------------------------------------------------------
(* The discard of another seat.                                            *)

\* The k concealed tiles that seat s needs to meld the discard.
Meld(kind, s, k) ==
  /\ last.kind = "DiscardTile" /\ s # last.seat /\ concealed[s] >= k
  /\ Moves(kind, s)
  /\ Holds(s, -k, 1)
  /\ UNCHANGED <<round, wall, points>>

\* Only the seat to the right of the discard may chow it.
Chow(s) == s = Right(last.seat) /\ Meld("Chow", s, 2)
Pung(s) == Meld("Pung", s, 2)
MeldKong(s) == Meld("MeldedKong", s, 3)

-----------------------------------------------------------------------------
(* The end of a round and of the game.                                     *)

\* One player pays for a win on his tile.
WinOn(kind, tile, s, b) ==
  /\ last.kind = tile /\ s # last.seat
  /\ Moves(kind, s)
  /\ points' = [t \in Seats |-> points[t] + (IF t = s THEN 3 * b
                                            ELSE IF t = last.seat THEN -3 * b ELSE 0)]
  /\ UNCHANGED <<round, wall, concealed, melds>>

\* All others pay for a win on a draw.
SelfDrawnWin(s, b) ==
  /\ last = [kind |-> "DrawTile", seat |-> s]
  /\ Moves("SelfDrawnWin", s)
  /\ points' = [t \in Seats |-> points[t] + (IF t = s THEN 3 * b ELSE -b)]
  /\ UNCHANGED <<round, wall, concealed, melds>>

\* Nothing is left for the seat that is to draw.
DrawnGame(s) ==
  /\ Due(s) /\ wall = 0
  /\ Moves("DrawnGame", s)
  /\ UNCHANGED <<round, wall, concealed, melds, points>>

\* The game may be broken off at any moment, once.
End ==
  /\ last.kind # "End"
  /\ Moves("End", 0)
  /\ UNCHANGED <<round, wall, concealed, melds, points>>

Win(s, b) ==
  \/ WinOn("DiscardWin", "DiscardTile", s, b)
  \/ WinOn("RobAddedKongWin", "AddedKong", s, b)
  \/ SelfDrawnWin(s, b)

Turn(s) ==
  \/ Deal(s) \/ Draw(s) \/ DrawnGame(s)
  \/ Discard(s) \/ ConcealKong(s) \/ AddKong(s)
  \/ Chow(s) \/ Pung(s) \/ MeldKong(s)
  \/ \E b \in BasePoints : Win(s, b)

Next == Begin \/ (\E s \in Seats : Turn(s)) \/ End

vars == <<round, last, wall, concealed, melds, points>>

Spec == Init /\ [][Next]_vars

-----------------------------------------------------------------------------
\* Points only change hands.
PointsBalance == points[0] + points[1] + points[2] + points[3] = 0

=============================================================================
