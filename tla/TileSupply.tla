------------------------------ MODULE TileSupply ------------------------------
(***************************************************************************)
(* What a wall promises to the session that draws from it: every tile is   *)
(* drawn once, and a draw is refused only when no tile is left.  Which     *)
(* tile comes next is for the wall to decide.                              *)
(***************************************************************************)
CONSTANTS
  Tiles,     \* the tiles of a full wall
  NoTile,    \* nothing was drawn yet
  Refused    \* the answer to a draw from an empty wall

VARIABLES
  left,      \* the tiles not yet drawn
  drawn      \* the answer to the last draw

Init == left = Tiles /\ drawn = NoTile

Draw == drawn' \in left /\ left' = left \ {drawn'}

Refuse == left = {} /\ left' = left /\ drawn' = Refused

Refill == left' = Tiles /\ drawn' = NoTile

Next == Draw \/ Refuse \/ Refill

Spec == Init /\ [][Next]_<<left, drawn>>

=============================================================================
