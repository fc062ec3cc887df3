------------------------------ MODULE MCSession ------------------------------
(* Instances of Session for TLC. *)
EXTENDS Session

Swap == [s \in Seats |-> CASE s = 0 -> 1 [] s = 1 -> 0 [] OTHER -> s]
Stay == [s \in Seats |-> s]

MCShuffles == {Swap}
NoFloor == -1000000
SomeFloor == -10
=============================================================================
