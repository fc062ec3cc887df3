------------------------------ MODULE Sockets ------------------------------
(* The game sockets of players: GameSocketHub, which lists them, and the      *)
(* handlers of GameWebSocketController for a connection that opens, sends a   *)
(* message or closes. A connection's handlers run one after another on the    *)
(* loop of the connection; those of different connections, also of one        *)
(* player, run beside one another. The mutex of GameSocketHub is held for one *)
(* look at the list or one change of it.                                      *)
(*                                                                            *)
(* Of the hub this module sees where a player is, one step for each call; Hub *)
(* models what the call does. A player calls it by his sockets or by HTTP,    *)
(* which registers no socket. Names begin with the component's, since this    *)
(* module is checked side by side with others. Sockets of the lobby are not   *)
(* told to the hub when they close; those of spectators are in SpectatorHands.*)
EXTENDS FiniteSets

CONSTANTS
    Clients,     \* players
    Sockets,     \* connections, each of which opens and closes once
    Owner,       \* socket -> the player who is authenticated on it
    NoSocket

ASSUME OwnerAssumption == Owner \in [Sockets -> Clients]
ASSUME NoSocketAssumption == NoSocket \notin Sockets

VARIABLES
    at,          \* socket -> how far its handlers have got
    connected,   \* sockets that are connected
    registered,  \* sockets that are registered_with_hub
    entries,     \* GameSocketHub::connections_, game route
    closing,     \* socket -> sockets that it has taken from the list to close
    place,       \* player -> where the hub has him
    evictor,     \* history: socket -> the socket that took it from the list
    relied,      \* history: players one of whose registered sockets closed and
                 \* left the player to another socket, none registered since
    remote,      \* history: players who took a seat over HTTP while they had no
                 \* registered socket, none registered since
    crossed      \* history: sockets that were opened while the hub was about to
                 \* be told that the last socket of their player had closed

socketsVars == <<at, connected, registered, entries, closing, place, evictor, relied, remote, crossed>>

Peers(s) == {t \in Sockets : Owner[t] = Owner[s]} \ {s}

SocketsTypeOK ==
    /\ at \in [Sockets -> {"new", "added", "evicting", "admitted", "open", "gone", "closed"}]
    /\ connected \subseteq Sockets /\ registered \subseteq Sockets /\ entries \subseteq Sockets
    /\ closing \in [Sockets -> SUBSET Sockets]
    /\ place \in [Clients -> {"lobby", "waiting", "playing"}]
    /\ evictor \in [Sockets -> Sockets \cup {NoSocket}]
    /\ relied \subseteq Clients /\ remote \subseteq Clients /\ crossed \subseteq Sockets

SocketsInit ==
    /\ at = [s \in Sockets |-> "new"]
    /\ connected = {} /\ registered = {} /\ entries = {}
    /\ closing = [s \in Sockets |-> {}]
    /\ place = [p \in Clients |-> "lobby"]
    /\ evictor = [s \in Sockets |-> NoSocket]
    /\ relied = {} /\ remote = {} /\ crossed = {}

-----------------------------------------------------------------------------
Goes(s, to) == at' = [at EXCEPT ![s] = to]

\* mark_registered_with_hub: when the socket closes the hub is to be told.
Registers(s) ==
    /\ registered' = registered \cup {s}
    /\ relied' = relied \ {Owner[s]}
    /\ remote' = remote \ {Owner[s]}

\* handleNewConnection: the token is good, the context is set, and the
\* connection is on the list before older ones are taken from it.
Accept(s) ==
    /\ at[s] = "new"
    /\ Goes(s, "added")
    /\ connected' = connected \cup {s}
    /\ entries' = entries \cup {s}
    /\ crossed' = IF \E t \in Peers(s) : at[t] = "gone" /\ t \in registered
                  THEN crossed \cup {s} ELSE crossed
    /\ UNCHANGED <<registered, closing, place, evictor, relied, remote>>

\* EvictPlayerFromRoute takes the player's other connections from the list.
Evict(s) ==
    LET others == entries \intersect Peers(s)
    IN  /\ at[s] = "added"
        /\ Goes(s, "evicting")
        /\ entries' = entries \ others
        /\ closing' = [closing EXCEPT ![s] = others]
        /\ evictor' = [t \in Sockets |-> IF t \in others THEN s ELSE evictor[t]]
        /\ UNCHANGED <<connected, registered, place, relied, remote, crossed>>

\* It closes them one by one after it has released the mutex.
ForceClose(s, t) ==
    /\ at[s] = "evicting" /\ t \in closing[s]
    /\ closing' = [closing EXCEPT ![s] = @ \ {t}]
    /\ connected' = connected \ {t}
    /\ UNCHANGED <<at, registered, entries, place, evictor, relied, remote, crossed>>

Evicted(s) ==
    /\ at[s] = "evicting" /\ closing[s] = {}
    /\ Goes(s, "admitted")
    /\ UNCHANGED <<connected, registered, entries, closing, place, evictor, relied, remote, crossed>>

\* The rest of handleNewConnection. A malformed session id closes the socket;
\* a player in a game is asked to resume, and is not registered by that; a
\* session id in the request is connected to, which may fail; without one a
\* player in a waiting room is sent its snapshot.
Admit(s) ==
    LET p == Owner[s]
    IN  /\ at[s] = "admitted"
        /\ Goes(s, "open")
        /\ \/ connected' = connected \ {s} /\ UNCHANGED <<registered, relied, remote, place>>
           \/ UNCHANGED <<connected, registered, relied, remote, place>>
           \/ /\ place[p] # "playing" /\ place' = [place EXCEPT ![p] = "waiting"]
              /\ Registers(s) /\ UNCHANGED connected
           \/ /\ place[p] = "waiting" /\ Registers(s) /\ UNCHANGED <<connected, place>>
        /\ UNCHANGED <<entries, closing, evictor, crossed>>

\* handleNewMessage: a message that the hub has accepted registers the socket.
\* session.join brings the player into a room, session.leave out of it; both
\* also come over HTTP (HttpJoin, HttpLeave).
Message(s) ==
    LET p == Owner[s]
    IN  /\ at[s] = "open" /\ s \in connected
        /\ Registers(s)
        /\ \/ UNCHANGED place
           \/ place[p] # "playing" /\ place' = [place EXCEPT ![p] = "waiting"]
           \/ place[p] = "waiting" /\ place' = [place EXCEPT ![p] = "lobby"]
        /\ UNCHANGED <<at, connected, entries, closing, evictor, crossed>>

\* The peer goes away, or the network does.
Drops(s) ==
    /\ s \in connected
    /\ connected' = connected \ {s}
    /\ UNCHANGED <<at, registered, entries, closing, place, evictor, relied, remote, crossed>>

\* Mutant: other connections are not asked about.
RemoveAlone(s) ==
    /\ at[s] = "open" /\ s \notin connected
    /\ entries' = entries \ {s}
    /\ Goes(s, "gone")
    /\ UNCHANGED <<connected, registered, closing, place, evictor, relied, remote, crossed>>

\* handleConnectionClosed: RemoveConnection answers whether the list still has
\* a connection of the player.
Remove(s) ==
    LET still == entries \intersect Peers(s) # {}
    IN  /\ at[s] = "open" /\ s \notin connected
        /\ entries' = entries \ {s}
        /\ Goes(s, IF still THEN "closed" ELSE "gone")
        /\ relied' = IF still /\ s \in registered THEN relied \cup {Owner[s]} ELSE relied
        /\ UNCHANGED <<connected, registered, closing, place, evictor, remote, crossed>>

\* Mutant: only a player in a game is reported.
TellHubOfGames(s) ==
    /\ at[s] = "gone"
    /\ Goes(s, "closed")
    /\ UNCHANGED <<connected, registered, entries, closing, place, evictor, relied, remote, crossed>>

\* If not, and if the socket is registered, the hub is told: the player leaves
\* his waiting room. (In a game he only counts as disconnected.)
TellHub(s) ==
    LET p == Owner[s]
    IN  /\ at[s] = "gone"
        /\ Goes(s, "closed")
        /\ place' = IF s \in registered /\ place[p] = "waiting"
                    THEN [place EXCEPT ![p] = "lobby"] ELSE place
        /\ UNCHANGED <<connected, registered, entries, closing, evictor, relied, remote, crossed>>

Attended(p) == \E s \in registered : Owner[s] = p /\ at[s] # "closed"

\* POST /lobby/sessions/{id}/join: ConnectPlayer, as for a socket, but whatever
\* sockets the player has, none is registered by it.
HttpJoin(p) ==
    /\ place[p] # "playing"
    /\ place' = [place EXCEPT ![p] = "waiting"]
    /\ remote' = IF Attended(p) THEN remote ELSE remote \cup {p}
    /\ UNCHANGED <<at, connected, registered, entries, closing, evictor, relied, crossed>>

\* POST /lobby/sessions/{id}/leave: a session.leave that no socket has sent.
HttpLeave(p) ==
    /\ place[p] = "waiting"
    /\ place' = [place EXCEPT ![p] = "lobby"]
    /\ UNCHANGED <<at, connected, registered, entries, closing, evictor, relied, remote, crossed>>

\* The room starts its game, the game is over, or the player, who is nowhere
\* else, has created one to play alone.
PlaceChanges(p) ==
    /\ place' = [place EXCEPT ![p] = IF @ = "playing" THEN "lobby" ELSE "playing"]
    /\ UNCHANGED <<at, connected, registered, entries, closing, evictor, relied, remote, crossed>>

SocketsNext ==
    \/ \E s \in Sockets : \/ Accept(s) \/ Evict(s) \/ Evicted(s) \/ Admit(s)
                          \/ Message(s) \/ Drops(s) \/ Remove(s) \/ TellHub(s)
    \/ \E s, t \in Sockets : ForceClose(s, t)
    \/ \E p \in Clients : HttpJoin(p) \/ HttpLeave(p) \/ PlaceChanges(p)

SocketsSpec == SocketsInit /\ [][SocketsNext]_socketsVars

-----------------------------------------------------------------------------
(* Properties                                                                *)

\* "Register the new connection first so eviction of older game sockets cannot
\* transiently disconnect the player from the hub": the hub is told of the
\* close of an evicted socket only when its evictor is off the list as well;
\* and no close of another socket takes a waiting player out of his room while
\* he has a live registered socket that was opened after that close was over.
EvictionKeepsPlayer ==
    [][\A s \in Sockets :
         /\ at[s] = "open" /\ at'[s] = "gone" /\ evictor[s] # NoSocket =>
              evictor[s] \notin entries
         /\ at[s] = "gone" /\ at'[s] = "closed" /\ place' # place =>
              \A t \in Peers(s) \intersect entries \intersect registered : t \in crossed
      ]_socketsVars

\* A player none of whose sockets is left keeps his seat in a waiting room in two
\* cases only: a registered socket has left him to one that closed without ever
\* being registered, or he took the seat over HTTP with no registered socket
\* to answer for it.
NoSeatWithoutSocket ==
    \A p \in Clients :
      place[p] = "waiting" /\ (\A s \in Sockets : Owner[s] = p => at[s] \in {"new", "closed"})
        => p \in relied \cup remote

=============================================================================
