----------------------------- MODULE DuplicateWall -----------------------------
(***************************************************************************)
(* The wall of a duplicate game: class DuplicateWall of                    *)
(* backend/src/game/engine/duplicate_wall.cc.  Its ring of stacks is dealt *)
(* in four parts, one for each seat, so that several tables that play the  *)
(* same wall can be compared seat by seat.  A seat draws from its own part *)
(* and, when that is used up, from the parts of the seats before it.       *)
(*                                                                         *)
(* As in Wall, a tile is named by its place in tiles_.                     *)
(***************************************************************************)
EXTENDS Integers

CONSTANT Quarter     \* the stacks of one part, 17 in the code

ASSUME QuarterAssumption == Quarter \in Nat \ {0}

VARIABLES
  there,     \* the places of tiles_ that are not tile::invalid
  fronts,    \* front_stack_indices_
  size,      \* size_
  drawer,    \* the seat that called draw_front last
  drawn      \* what that draw returned

vars == <<there, fronts, size, drawer, drawn>>

Seats == 0..3
Stacks == 4 * Quarter
Places == 0 .. 2 * Stacks - 1
Invalid == -1
Refused == -2
Upper(i) == 2 * i
Lower(i) == 2 * i + 1
Before(s, k) == (s + 3 * k) % 4

\* Mutation: the index of the last stack instead of the one after it.
EndsAtLast == [s \in Seats |-> IF s = 0 THEN Quarter - 1 ELSE (5 - s) * Quarter - 1]

\* Where the part of each seat begins, and the stack after its last one.
Starts == [s \in Seats |-> IF s = 0 THEN 0 ELSE (4 - s) * Quarter]
Ends == [s \in Seats |-> IF s = 0 THEN Quarter
                         ELSE IF s = 1 THEN 0 ELSE (5 - s) * Quarter]

Init ==
  /\ there = Places /\ fronts = Starts /\ size = 2 * Stacks
  /\ drawer = 0 /\ drawn = Invalid

\* Mutation: size_ is not set again.
PrepareKeepingSize ==
  /\ there' = Places /\ fronts' = Starts /\ size' = size
  /\ drawer' = 0 /\ drawn' = Invalid

\* prepare, at the start of each round.
Prepare ==
  /\ there' = Places /\ fronts' = Starts /\ size' = 2 * Stacks
  /\ drawer' = 0 /\ drawn' = Invalid

\* draw_front takes from the part of seat s itself and calls itself for
\* another seat otherwise.
Serves(s) ==
  /\ fronts[s] # Ends[s]
  /\ Upper(fronts[s]) \in there \/ Lower(fronts[s]) \in there

Take(p) ==
  /\ drawn' = p
  /\ there' = there \ {p}
  /\ size' = size - 1

\* Mutation: the neighbour after the seat is asked before the one before it.
DrawFrontOtherWay(seat) ==
  /\ size # 0
  /\ drawer' = seat
  /\ \E k \in 0 .. 3 :
       LET s == Before(seat, 3 * k)
           i == fronts[s]
       IN  /\ Serves(s)
           /\ \A j \in 0 .. k - 1 : ~Serves(Before(seat, 3 * j))
           /\ \/ Upper(i) \in there /\ Take(Upper(i)) /\ UNCHANGED fronts
              \/ /\ Upper(i) \notin there
                 /\ Take(Lower(i))
                 /\ fronts' = [fronts EXCEPT ![s] = (i + 1) % Stacks]

\* A call that no part serves would never return: it is no step here.
DrawFront(seat) ==
  /\ size # 0
  /\ drawer' = seat
  /\ \E k \in 0 .. 3 :
       LET s == Before(seat, k)
           i == fronts[s]
       IN  /\ Serves(s)
           /\ \A j \in 0 .. k - 1 : ~Serves(Before(seat, j))
           /\ \/ Upper(i) \in there /\ Take(Upper(i)) /\ UNCHANGED fronts
              \/ /\ Upper(i) \notin there
                 /\ Take(Lower(i))
                 /\ fronts' = [fronts EXCEPT ![s] = (i + 1) % Stacks]

RefuseDraw(seat) ==
  /\ size = 0
  /\ drawer' = seat /\ drawn' = Refused
  /\ UNCHANGED <<there, fronts, size>>

Next == Prepare \/ \E seat \in Seats : DrawFront(seat) \/ RefuseDraw(seat)

Spec == Init /\ [][Next]_vars

-----------------------------------------------------------------------------
Supply == INSTANCE TileSupply
            WITH Tiles <- Places, left <- there, NoTile <- Invalid

\* Whoever draws, in whatever order, every tile of the four parts is handed
\* out once and a draw is refused only when all of them are gone.
ImplementsSupply == Supply!Spec

\* draw_front, which calls itself for the seat before when it finds nothing,
\* always comes to an end: while size_ is not zero some part serves.
DrawReturns == size # 0 => \E s \in Seats : Serves(s)

\* The places dealt to seat s, in the order of tiles_.
Part(s) == {p \in Places : Upper(Starts[s]) <= p /\ p < Upper(Starts[s] + Quarter)}

\* What makes tables comparable: as long as a seat's own part has tiles the
\* seat gets the next one of them, whatever the other seats have drawn, and
\* a seat whose part is used up turns to the seats before it in order.
OwnPartFirst ==
  [][there' # there /\ there' \subseteq there =>
       \E k \in 0 .. 3 :
         LET part == Part(Before(drawer', k)) \intersect there
         IN  /\ drawn' \in part /\ \A p \in part : drawn' <= p
             /\ \A j \in 0 .. k - 1 : Part(Before(drawer', j)) \intersect there = {}]_vars

=============================================================================
