------------------------------- MODULE MCHub -------------------------------
(* The waiting rooms of Hub and the wall of a duplicate game, for TLC. They   *)
(* share nothing: part says which of the two takes the steps of a behaviour,  *)
(* and the other stays in its initial state.                                  *)
EXTENDS Hub, DuplicateWall, TLC

VARIABLE part

\* Players differ in nothing but their names.
AnyPlayer == Permutations(Players)

RoomsInit == part \in {"hub", "wall"} /\ HubInit /\ Init

RoomsNext ==
    \/ part = "hub" /\ HubNext /\ UNCHANGED <<part, vars>>
    \/ part = "wall" /\ Next /\ UNCHANGED <<part, hubVars>>

RoomsSpec == RoomsInit /\ [][RoomsNext]_<<part, hubVars, vars>>
=============================================================================
