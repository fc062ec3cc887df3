--------------------------------- MODULE Wall ---------------------------------
(***************************************************************************)
(* The wall of an ordinary game: class Wall of                             *)
(* backend/src/game/engine/wall.cc.  Its stacks of two tiles form a ring;  *)
(* ordinary draws come from the front, replacements of kongs from the      *)
(* back.                                                                   *)
(*                                                                         *)
(* A tile is named by its place in tiles_, so that the shuffle that put it *)
(* there does not matter.  Place 2i holds the upper tile of stack i, which *)
(* goes first at either end, and place 2i + 1 the lower.                   *)
(***************************************************************************)
EXTENDS Integers

CONSTANT Stacks     \* 68 in the code

ASSUME StacksAssumption == Stacks \in Nat \ {0}

VARIABLES
  there,     \* the places of tiles_ that are not tile::invalid
  front,     \* front_stack_index_
  back,      \* back_stack_index_
  size,      \* size_
  drawn      \* what the last draw returned

vars == <<there, front, back, size, drawn>>

Places == 0 .. 2 * Stacks - 1
Invalid == -1
Refused == -2
Upper(i) == 2 * i
Lower(i) == 2 * i + 1

\* The stacks at which the four dice may break the wall.
Breaks == {((a + b) * 52 + (c + d)) % Stacks : a, b, c, d \in 1..6}

\* A wall that has been prepared.
Init ==
  /\ there = Places
  /\ front \in Breaks
  /\ back = (front + Stacks - 1) % Stacks
  /\ size = 2 * Stacks
  /\ drawn = Invalid

\* prepare, at the start of each round.
Prepare ==
  /\ there' = Places
  /\ front' \in Breaks
  /\ back' = (front' + Stacks - 1) % Stacks
  /\ size' = 2 * Stacks
  /\ drawn' = Invalid

\* Hand out whatever is at place p.
Take(p) ==
  /\ drawn' = IF p \in there THEN p ELSE Invalid
  /\ there' = there \ {p}
  /\ size' = size - 1

DrawFront ==
  /\ size # 0
  /\ \/ Upper(front) \in there /\ Take(Upper(front)) /\ UNCHANGED <<front, back>>
     \/ /\ Upper(front) \notin there
        /\ Take(Lower(front))
        /\ front' = (front + 1) % Stacks
        /\ UNCHANGED back

\* Mutation: the back end forgets that it has taken the upper tile.
DrawBackWhole ==
  /\ size # 0
  /\ Take(Upper(back))
  /\ back' = (back + Stacks - 1) % Stacks
  /\ UNCHANGED front

DrawBack ==
  /\ size # 0
  /\ \/ Upper(back) \in there /\ Take(Upper(back)) /\ UNCHANGED <<front, back>>
     \/ /\ Upper(back) \notin there
        /\ Take(Lower(back))
        /\ back' = (back + Stacks - 1) % Stacks
        /\ UNCHANGED front

\* Either draw from an empty wall is refused.
RefuseDraw ==
  /\ size = 0
  /\ drawn' = Refused
  /\ UNCHANGED <<there, front, back, size>>

Next == Prepare \/ DrawFront \/ DrawBack \/ RefuseDraw

Spec == Init /\ [][Next]_vars

-----------------------------------------------------------------------------
Supply == INSTANCE TileSupply
            WITH Tiles <- Places, left <- there, NoTile <- Invalid

\* Wherever the wall is broken and in whatever order the two ends are drawn
\* from, also when they meet in one stack, every draw hands out a tile that
\* is still there, and only an empty wall refuses.
ImplementsSupply == Supply!Spec

\* size_ is the number of tiles left, the stacks that hold them are a stretch
\* of the ring from front to back, and only its outermost stacks may have
\* lost their upper tile.
Distance(i) == IF i >= front THEN i - front ELSE i - front + Stacks
Stretch ==
  there # {} =>
    \A i \in 0 .. Stacks - 1 :
      /\ Lower(i) \in there <=> Distance(i) <= Distance(back)
      /\ Upper(i) \in there => Distance(i) <= Distance(back)
      /\ 0 < Distance(i) /\ Distance(i) < Distance(back) => Upper(i) \in there

=============================================================================
