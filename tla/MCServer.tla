------------------------------ MODULE MCServer ------------------------------
(* Parts of the server for TLC, side by side: a small hub with its liveness,  *)
(* the wall of an ordinary game, the sockets of players, the hands that       *)
(* spectators ask for, and the statistics. They share nothing here: part says *)
(* which of them takes the steps of a behaviour, and the others stay in one   *)
(* initial state.                                                             *)
EXTENDS Hub, Wall, Sockets, SpectatorHands, Statistics, TLC

VARIABLE part

\* The connections are those of one player and of one spectator.
MCOwner == [s \in Sockets |-> CHOOSE p \in Clients : TRUE]
MCWho == [w \in Watchers |-> CHOOSE s \in Spectators : TRUE]

\* Rounds of a table of four players and of a player with stand-ins: a discard
\* is won; a tile is self-drawn, in a duplicate game with a high number; nobody
\* wins.
Table == [s \in StatSeats |-> s + 1]
WithBots == [s \in StatSeats |-> IF s = 1 THEN 2 ELSE Bot]
Round == [key |-> <<1, 1>>, unranked |-> FALSE, duplicate |-> FALSE, completed |-> TRUE,
          drawn |-> FALSE, players |-> Table, winner |-> 0, from |-> 1, types |-> {}, time |-> 1,
          fan |-> 2, results |-> {{1, 2}}, melds |-> [s \in StatSeats |-> s]]
MCRecords == {
  Round,
  [Round EXCEPT !.key = <<1, 2>>, !.types = {"self_drawn"}, !.winner = 1, !.unranked = TRUE,
                !.duplicate = TRUE, !.players = WithBots, !.results = {{1}, {2, 3}}],
  [Round EXCEPT !.key = <<2, 1>>, !.drawn = TRUE, !.unranked = TRUE, !.time = 2, !.fan = 3]}

AnyFilter == [player |-> Anyone, mode |-> -1, nonstandard |-> FALSE, since |-> 0, until |-> 9,
              minFan |-> 0, maxFan |-> 9, fans |-> {}, notFans |-> {}, players |-> {},
              notPlayers |-> {}, winner |-> Anyone, from |-> Anyone, selfDrawn |-> FALSE,
              notSelfDrawn |-> FALSE, dedupe |-> FALSE]
MCAsked == {[AnyFilter EXCEPT !.since = 1, !.until = 1, !.player = 2],
            [AnyFilter EXCEPT !.dedupe = TRUE, !.fans = {2}]}

\* Fans 0 to 3 stand for 0, 1, 2.3 and 3; the text of a fan loses nothing here.
MCSquares == <<1, 5, 9>> @@ (0 :> 0)
MCWritten == [f \in 0..3 |-> f]
MCSuperior == [f \in 1..3 |-> IF f = 2 THEN {1} ELSE {}]

MCSorts == {<<"fan", "asc">>, <<"time", "asc">>}

-----------------------------------------------------------------------------
ServerInit ==
    /\ part \in {"hub", "wall", "sockets", "hands", "statistics"}
    /\ HubInit /\ Init /\ SocketsInit /\ HandsInit /\ StatsInit
    /\ part # "wall" => front = 0
    /\ part # "hands" => chair = CHOOSE seating \in Seatings : TRUE

ServerNext ==
    \/ part = "hub" /\ HubNext /\ UNCHANGED <<part, vars, socketsVars, handsVars, statsVars>>
    \/ part = "wall" /\ Next /\ UNCHANGED <<part, hubVars, socketsVars, handsVars, statsVars>>
    \/ part = "sockets" /\ SocketsNext /\ UNCHANGED <<part, hubVars, vars, handsVars, statsVars>>
    \/ part = "hands" /\ HandsNext /\ UNCHANGED <<part, hubVars, vars, socketsVars, statsVars>>
    \/ part = "statistics" /\ StatsNext /\ UNCHANGED <<part, hubVars, vars, socketsVars, handsVars>>

\* While another part takes the steps nothing of the hub's fairness is enabled.
ServerSpec ==
    /\ ServerInit
    /\ [][ServerNext]_<<part, hubVars, vars, socketsVars, handsVars, statsVars>>
    /\ HubFairness
=============================================================================
