----------------------------- MODULE ServerProofs -----------------------------
(* Theorems about the parts of the server that players, spectators and        *)
(* readers meet, for every number of them: the game sockets of a player, the  *)
(* hands that spectators ask for, and the results that are kept for readers.  *)
EXTENDS Sockets, SpectatorHands, Statistics, FiniteSetTheorems, TLAPS

-----------------------------------------------------------------------------
(* Sockets                                                                   *)

\* A waiting player has a socket whose close the hub will be told of, unless it
\* has left him to another or he has taken his seat over HTTP.
Seated ==
    \A p \in Clients : place[p] = "waiting" =>
        \/ p \in relied \cup remote
        \/ \E s \in registered : s \in Sockets /\ Owner[s] = p /\ at[s] \in {"open", "gone"}

\* Only a socket that is open or has been can be registered.
Told == \A s \in registered : s \in Sockets /\ at[s] \in {"open", "gone", "closed"}

\* A socket is evicted by another socket of the same player.
Rivals == \A s \in Sockets : evictor[s] # NoSocket => evictor[s] \in Peers(s)

\* Whoever came on the list while the hub was about to be told of a close crossed it.
Crossings ==
    \A s \in Sockets : at[s] = "gone" /\ s \in registered =>
        Peers(s) \intersect entries \subseteq crossed

SocketsInv == SocketsTypeOK /\ Told /\ Seated /\ Rivals /\ Crossings

LEMMA SocketsInitInv == SocketsInit => SocketsInv
BY DEF SocketsInit, SocketsInv, SocketsTypeOK, Told, Seated, Rivals, Crossings

\* The step of one socket.
LEMMA GoesAt ==
    ASSUME SocketsTypeOK, NEW s \in Sockets,
           NEW to \in {"new", "added", "evicting", "admitted", "open", "gone", "closed"},
           Goes(s, to)
    PROVE  /\ \A t \in Sockets : at'[t] = IF t = s THEN to ELSE at[t]
           /\ at' \in [Sockets -> {"new", "added", "evicting", "admitted", "open", "gone", "closed"}]
BY DEF Goes, SocketsTypeOK

LEMMA AcceptInv == ASSUME SocketsInv, NEW s \in Sockets, Accept(s) PROVE SocketsInv'
<1>1. /\ at[s] = "new" /\ \A t \in Sockets : at'[t] = IF t = s THEN "added" ELSE at[t]
      /\ SocketsTypeOK'
  BY GoesAt DEF SocketsInv, Accept, SocketsTypeOK
<1>2. Told' /\ Seated'
  BY <1>1 DEF Accept, SocketsInv, Told, Seated
<1>3. Rivals'
  BY DEF Accept, SocketsInv, Rivals
<1>4. Crossings'
  <2>1. SUFFICES ASSUME NEW t \in Sockets, at'[t] = "gone", t \in registered',
                        NEW u \in Peers(t) \intersect entries'
                 PROVE  u \in crossed'
    BY DEF Crossings, Peers
  <2>2. at[t] = "gone" /\ t \in registered /\ entries' = entries \cup {s}
        /\ crossed \subseteq crossed'
    BY <1>1, <2>1 DEF Accept
  <2>3. CASE u \in entries
    BY <2>1, <2>2, <2>3 DEF SocketsInv, Crossings
  <2>4. CASE u = s
    <3>1. t \in Peers(s)
      BY <2>1, <2>4 DEF Peers
    <3>2. QED
      BY <2>2, <2>4, <3>1 DEF Accept
  <2>5. QED
    BY <2>1, <2>2, <2>3, <2>4
<1>5. QED
  BY <1>1, <1>2, <1>3, <1>4 DEF SocketsInv

LEMMA EvictInv == ASSUME SocketsInv, NEW s \in Sockets, Evict(s) PROVE SocketsInv'
<1> DEFINE others == entries \intersect Peers(s)
<1>1. /\ at[s] = "added" /\ \A t \in Sockets : at'[t] = IF t = s THEN "evicting" ELSE at[t]
      /\ entries' = entries \ others
      /\ evictor' = [t \in Sockets |-> IF t \in others THEN s ELSE evictor[t]]
      /\ UNCHANGED <<place, registered, relied, remote, crossed>>
      /\ SocketsTypeOK'
  BY GoesAt DEF SocketsInv, Evict, SocketsTypeOK
<1>2. Told' /\ Seated'
  BY <1>1 DEF SocketsInv, Told, Seated
<1>3. Rivals'
  <2>1. \A t \in others : s \in Peers(t)
    BY DEF Peers
  <2>2. QED
    BY <1>1, <2>1 DEF SocketsInv, Rivals, Peers
<1>4. Crossings'
  BY <1>1 DEF SocketsInv, Crossings, Peers
<1>5. QED
  BY <1>1, <1>2, <1>3, <1>4 DEF SocketsInv

\* The steps that touch neither the list nor the player.
LEMMA QuietInv ==
    ASSUME SocketsInv, NEW s \in Sockets,
           at' = at \/ (at[s] = "evicting" /\ Goes(s, "admitted")),
           connected' \subseteq connected, closing' \in [Sockets -> SUBSET Sockets],
           UNCHANGED <<registered, entries, place, evictor, relied, remote, crossed>>
    PROVE  SocketsInv'
<1>1. /\ \A t \in Sockets : at'[t] = at[t] \/ (at[t] = "evicting" /\ at'[t] = "admitted")
      /\ SocketsTypeOK'
  BY GoesAt DEF SocketsInv, SocketsTypeOK
<1>2. QED
  BY <1>1 DEF SocketsInv, Told, Seated, Rivals, Crossings, Peers

\* Registering takes the player from those who rely on another socket, but this
\* one then answers for him.
LEMMA RegisterInv ==
    ASSUME SocketsInv, NEW s \in Sockets, Registers(s),
           (at' = at /\ at[s] = "open") \/ (Goes(s, "open") /\ at[s] = "admitted"),
           place' \in [Clients -> {"lobby", "waiting", "playing"}],
           \A p \in Clients : p # Owner[s] => place'[p] = place[p],
           UNCHANGED <<connected, entries, closing, evictor, crossed>>
    PROVE  SocketsInv'
<1>1. /\ at'[s] = "open" /\ at[s] # "gone"
      /\ \A t \in Sockets : t # s => at'[t] = at[t]
      /\ SocketsTypeOK'
  BY GoesAt, OwnerAssumption DEF SocketsInv, SocketsTypeOK, Registers
<1>2. registered' = registered \cup {s} /\ relied' = relied \ {Owner[s]}
      /\ remote' = remote \ {Owner[s]}
  BY DEF Registers
<1>3. Told' /\ Seated'
  BY <1>1, <1>2 DEF SocketsInv, Told, Seated
<1>4. Rivals' /\ Crossings'
  BY <1>1, <1>2 DEF SocketsInv, Rivals, Crossings, Peers
<1>5. QED
  BY <1>1, <1>3, <1>4 DEF SocketsInv

LEMMA AdmitInv == ASSUME SocketsInv, NEW s \in Sockets, Admit(s) PROVE SocketsInv'
<1>1. Owner[s] \in Clients
  BY OwnerAssumption
<1>2. /\ at[s] = "admitted" /\ Goes(s, "open")
      /\ UNCHANGED <<entries, closing, evictor, crossed>>
  BY DEF Admit
<1>3. CASE UNCHANGED <<registered, relied, remote, place>>
  <2>1. \A t \in Sockets : at'[t] = IF t = s THEN "open" ELSE at[t]
    BY <1>2, GoesAt DEF SocketsInv
  <2>2. SocketsTypeOK'
    BY <1>2, <1>3, GoesAt DEF SocketsInv, SocketsTypeOK, Admit
  <2>3. QED
    BY <1>2, <1>3, <2>1, <2>2 DEF SocketsInv, Told, Seated, Rivals, Crossings, Peers
<1>4. CASE Registers(s) /\ connected' = connected /\ (place' = place \/ place' = [place EXCEPT ![Owner[s]] = "waiting"])
  <2>1. place' \in [Clients -> {"lobby", "waiting", "playing"}]
    BY <1>1, <1>4 DEF SocketsInv, SocketsTypeOK
  <2>2. \A p \in Clients : p # Owner[s] => place'[p] = place[p]
    BY <1>1, <1>4 DEF SocketsInv, SocketsTypeOK
  <2>3. QED
    BY <1>2, <1>4, <2>1, <2>2, RegisterInv
<1>5. QED
  BY <1>3, <1>4 DEF Admit

LEMMA MessageInv == ASSUME SocketsInv, NEW s \in Sockets, Message(s) PROVE SocketsInv'
<1>1. Owner[s] \in Clients
  BY OwnerAssumption
<1>2. PICK v \in {"lobby", "waiting", "playing"} :
        place' = place \/ place' = [place EXCEPT ![Owner[s]] = v]
  BY DEF Message
<1>3. /\ place' \in [Clients -> {"lobby", "waiting", "playing"}]
      /\ \A p \in Clients : p # Owner[s] => place'[p] = place[p]
  BY <1>1, <1>2 DEF SocketsInv, SocketsTypeOK
<1>4. QED
  BY <1>3, RegisterInv DEF Message

\* A socket leaves the list: either another of the player's is on it, and he
\* relies on that one, or none is, and nobody has crossed the news yet.
LEMMA RemoveInv == ASSUME SocketsInv, NEW s \in Sockets, Remove(s) PROVE SocketsInv'
<1> DEFINE still == entries \intersect Peers(s) # {}
<1>1. /\ at[s] = "open" /\ entries' = entries \ {s}
      /\ \A t \in Sockets : at'[t] = IF t = s THEN (IF still THEN "closed" ELSE "gone") ELSE at[t]
      /\ UNCHANGED <<place, registered, evictor, remote, crossed>>
  BY GoesAt DEF SocketsInv, Remove
<1>2. relied' = IF still /\ s \in registered THEN relied \cup {Owner[s]} ELSE relied
  BY DEF Remove
<1>3. Told' /\ Seated'
  BY <1>1, <1>2 DEF SocketsInv, Told, Seated
<1>4. Rivals'
  BY <1>1 DEF SocketsInv, Rivals, Peers
<1>5. SocketsTypeOK'
  <2>1. Owner[s] \in Clients
    BY OwnerAssumption
  <2>2. at' \in [Sockets -> {"new", "added", "evicting", "admitted", "open", "gone", "closed"}]
    BY GoesAt DEF SocketsInv, Remove
  <2> HIDE DEF still
  <2>3. UNCHANGED <<connected, closing>>
    BY DEF Remove
  <2>4. QED
    BY <1>1, <1>2, <2>1, <2>2, <2>3 DEF SocketsInv, SocketsTypeOK
<1>6. Crossings'
  <2>1. ~still => Peers(s) \intersect entries' = {}
    BY <1>1
  <2>2. \A t \in Sockets : Peers(t)' = Peers(t)
    BY DEF Peers
  <2> HIDE DEF still
  <2>3. QED
    BY <1>1, <2>1, <2>2 DEF SocketsInv, Crossings
<1>7. QED
  BY <1>1, <1>3, <1>4, <1>5, <1>6 DEF SocketsInv

LEMMA TellHubInv == ASSUME SocketsInv, NEW s \in Sockets, TellHub(s) PROVE SocketsInv'
<1>1. Owner[s] \in Clients
  BY OwnerAssumption
<1>2. /\ at[s] = "gone"
      /\ \A t \in Sockets : at'[t] = IF t = s THEN "closed" ELSE at[t]
      /\ UNCHANGED <<registered, entries, evictor, relied, remote, crossed>>
  BY GoesAt DEF SocketsInv, TellHub
<1>3. \A p \in Clients : place'[p] = IF p = Owner[s] /\ s \in registered /\ place[p] = "waiting"
                                     THEN "lobby" ELSE place[p]
  BY <1>1 DEF SocketsInv, SocketsTypeOK, TellHub
<1>4. SocketsTypeOK'
  BY <1>1, GoesAt DEF SocketsInv, SocketsTypeOK, TellHub
<1>5. Told' /\ Seated'
  BY <1>2, <1>3 DEF SocketsInv, Told, Seated
<1>6. Rivals' /\ Crossings'
  BY <1>2 DEF SocketsInv, Rivals, Crossings, Peers
<1>7. QED
  BY <1>4, <1>5, <1>6 DEF SocketsInv

LEMMA PlaceChangesInv ==
    ASSUME SocketsInv, NEW p \in Clients, PlaceChanges(p) PROVE SocketsInv'
<1>1. /\ UNCHANGED <<at, registered, entries, evictor, relied, remote, crossed>>
      /\ \A q \in Clients : place'[q] = "waiting" => place[q] = "waiting"
      /\ SocketsTypeOK'
  BY DEF SocketsInv, SocketsTypeOK, PlaceChanges
<1>2. QED
  BY <1>1 DEF SocketsInv, SocketsTypeOK, Told, Seated, Rivals, Crossings, Peers

LEMMA HttpJoinInv ==
    ASSUME SocketsInv, NEW p \in Clients, HttpJoin(p) PROVE SocketsInv'
<1>1. /\ UNCHANGED <<at, connected, registered, entries, closing, evictor, relied, crossed>>
      /\ place' = [place EXCEPT ![p] = "waiting"]
      /\ remote' = IF Attended(p) THEN remote ELSE remote \cup {p}
  BY DEF HttpJoin
<1>2. SocketsTypeOK'
  BY <1>1 DEF SocketsInv, SocketsTypeOK
<1>3. Seated'
  <2>1. SUFFICES ASSUME NEW q \in Clients, place'[q] = "waiting", q \notin relied \cup remote'
                 PROVE  \E s \in registered : s \in Sockets /\ Owner[s] = q /\ at[s] \in {"open", "gone"}
    BY <1>1 DEF Seated
  <2>2. CASE q = p
    BY <1>1, <2>1, <2>2 DEF SocketsInv, SocketsTypeOK, Told, Attended
  <2>3. CASE q # p
    BY <1>1, <2>1, <2>3 DEF SocketsInv, SocketsTypeOK, Seated
  <2>4. QED
    BY <2>2, <2>3
<1>4. QED
  BY <1>1, <1>2, <1>3 DEF SocketsInv, Told, Rivals, Crossings, Peers

LEMMA HttpLeaveInv ==
    ASSUME SocketsInv, NEW p \in Clients, HttpLeave(p) PROVE SocketsInv'
<1>1. /\ UNCHANGED <<at, registered, entries, evictor, relied, remote, crossed>>
      /\ \A q \in Clients : place'[q] = "waiting" => place[q] = "waiting"
      /\ SocketsTypeOK'
  BY DEF SocketsInv, SocketsTypeOK, HttpLeave
<1>2. QED
  BY <1>1 DEF SocketsInv, SocketsTypeOK, Told, Seated, Rivals, Crossings, Peers

LEMMA SocketsStep == SocketsInv /\ [SocketsNext]_socketsVars => SocketsInv'
<1>1. ASSUME SocketsInv, UNCHANGED socketsVars PROVE SocketsInv'
  BY <1>1 DEF socketsVars, SocketsInv, SocketsTypeOK, Told, Seated, Rivals, Crossings, Peers
<1>2. ASSUME SocketsInv, NEW s \in Sockets, Evicted(s) \/ Drops(s) PROVE SocketsInv'
  <2>1. closing' \in [Sockets -> SUBSET Sockets] /\ connected' \subseteq connected
    BY <1>2 DEF SocketsInv, SocketsTypeOK, Evicted, Drops
  <2>2. QED
    BY <1>2, <2>1, QuietInv DEF Evicted, Drops
<1>3. ASSUME SocketsInv, NEW s \in Sockets, NEW t \in Sockets, ForceClose(s, t)
      PROVE  SocketsInv'
  <2>1. closing' \in [Sockets -> SUBSET Sockets] /\ connected' \subseteq connected
    BY <1>3 DEF SocketsInv, SocketsTypeOK, ForceClose
  <2>2. QED
    BY <1>3, <2>1, QuietInv DEF ForceClose
<1>4. QED
  BY <1>1, <1>2, <1>3, AcceptInv, EvictInv, AdmitInv, MessageInv, RemoveInv, TellHubInv,
     PlaceChangesInv, HttpJoinInv, HttpLeaveInv DEF SocketsNext

\* Every variable of Sockets has its type.
THEOREM SocketsTypeCorrect == SocketsSpec => []SocketsTypeOK
<1>1. SocketsInv => SocketsTypeOK
  BY DEF SocketsInv
<1>2. QED
  BY SocketsInitInv, SocketsStep, <1>1, PTL DEF SocketsSpec

\* No waiting room keeps a seat for a player none of whose sockets is left, in
\* whatever order connections open, evict each other and close: but for the two
\* cases that the property names.
THEOREM NoSeatWithoutSocketHolds == SocketsSpec => []NoSeatWithoutSocket
<1>1. SocketsInv => NoSeatWithoutSocket
  BY DEF SocketsInv, Seated, NoSeatWithoutSocket
<1>2. QED
  BY SocketsInitInv, SocketsStep, <1>1, PTL DEF SocketsSpec

\* A connection that takes the place of an older one does not bring its player
\* out of his room by that, however late the older one notices.
THEOREM EvictionKeepsPlayerHolds == SocketsSpec => EvictionKeepsPlayer
<1> DEFINE Keeps ==
      \A s \in Sockets :
        /\ at[s] = "open" /\ at'[s] = "gone" /\ evictor[s] # NoSocket => evictor[s] \notin entries
        /\ at[s] = "gone" /\ at'[s] = "closed" /\ place' # place =>
             \A t \in Peers(s) \intersect entries \intersect registered : t \in crossed
<1>1. ASSUME SocketsInv, SocketsNext PROVE Keeps
  <2>1. SUFFICES ASSUME NEW s \in Sockets
                 PROVE  /\ at[s] = "open" /\ at'[s] = "gone" => entries \intersect Peers(s) = {}
                        /\ at[s] = "gone" /\ at'[s] = "closed" /\ place' # place =>
                             s \in registered
    BY <1>1 DEF SocketsInv, Rivals, Crossings
  <2>2. ASSUME NEW t \in Sockets,
               Accept(t) \/ Evict(t) \/ Evicted(t) \/ Admit(t) \/ Message(t) \/ Drops(t)
        PROVE  ~(at[s] = "open" /\ at'[s] = "gone") /\ ~(at[s] = "gone" /\ at'[s] = "closed")
    BY <1>1, <2>2, GoesAt
    DEF SocketsInv, Accept, Evict, Evicted, Admit, Message, Drops
  <2>3. ASSUME NEW t \in Sockets, Remove(t)
        PROVE  /\ at[s] = "open" /\ at'[s] = "gone" => entries \intersect Peers(s) = {}
               /\ place' = place
    BY <1>1, <2>3, GoesAt DEF SocketsInv, Remove
  <2>4. ASSUME NEW t \in Sockets, TellHub(t)
        PROVE  /\ ~(at[s] = "open" /\ at'[s] = "gone")
               /\ at[s] = "gone" /\ at'[s] = "closed" /\ place' # place => s \in registered
    BY <1>1, <2>4, GoesAt DEF SocketsInv, TellHub
  <2>5. ASSUME at' = at
        PROVE  ~(at[s] = "open" /\ at'[s] = "gone") /\ ~(at[s] = "gone" /\ at'[s] = "closed")
    BY <2>5
  <2>6. QED
    BY <1>1, <2>2, <2>3, <2>4, <2>5 DEF SocketsNext, ForceClose, PlaceChanges, HttpJoin, HttpLeave
<1>2. SocketsInv /\ [SocketsNext]_socketsVars => [Keeps]_socketsVars
  BY <1>1
<1>3. QED
  BY SocketsInitInv, SocketsStep, <1>2, PTL DEF SocketsSpec, EvictionKeepsPlayer


-----------------------------------------------------------------------------
(* The hands that spectators ask for                                         *)

\* Every request is in one state: not made yet, waiting, with the player who
\* answers it, answered, or dropped.
RequestsInv ==
    /\ answers \in [Numbers -> Nat] /\ dropped \subseteq Numbers
    /\ \A n \in Numbers :
         /\ n > made => requests[n] = NoRequest
         /\ n > made \/ requests[n] # NoRequest => answers[n] = 0 /\ n \notin dropped
         /\ n \in dropped => answers[n] = 0
         /\ requests[n] # NoRequest => requests[n].by \in Watchers
         /\ n <= made /\ requests[n] = NoRequest /\ n \notin dropped =>
              answers[n] = 1 \/ \E t \in Targets : responding[t].number = n
    /\ \A t \in Targets : responding[t] # NoAnswer =>
         LET a == responding[t]
         IN  /\ a.number \in 1..made /\ a.by \in Watchers
             /\ requests[a.number] = NoRequest /\ a.number \notin dropped
             /\ answers[a.number] = IF a.told THEN 1 ELSE 0
             /\ \A u \in Targets : responding[u].number = a.number => u = t

\* Every approval, stored or about to be, and every hand on its way that is not
\* late has the consent of its player, and his seat.
ConsentInv ==
    /\ \A t, u \in Targets : chair[t] = chair[u] => t = u
    /\ grants \subseteq consent
    /\ \A t \in Targets : responding[t].approved => <<Who[responding[t].by], t>> \in consent
    /\ \A l \in lookups : ~l.late => chair[l.of] = l.seat /\ <<Who[l.by], l.of>> \in consent

HandsInv == HandsTypeOK /\ RequestsInv /\ ConsentInv

Request == [by : Watchers \cup {NoOne}, of : Targets \cup {NoOne}, old : BOOLEAN]
ResponseOf == [number : 0..MaxRequests, by : Watchers \cup {NoOne}, approved : BOOLEAN, told : BOOLEAN]

LEMMA Bounds == MaxRequests \in Nat /\ MaxOutstanding \in Nat /\ NoOne \notin Targets /\ NoOne \notin Watchers
BY RequestsAssumption, TargetsAssumption

LEMMA NothingTyped ==
    /\ NoRequest \in Request /\ NoRequest.by = NoOne /\ NoRequest.of = NoOne /\ NoRequest.old = FALSE
    /\ NoAnswer \in ResponseOf /\ NoAnswer.number = 0 /\ NoAnswer.approved = FALSE
    /\ NoAnswer.told = FALSE
BY Bounds DEF NoRequest, NoAnswer, Request, ResponseOf

\* Taking requests back.
LEMMA ForgetFields ==
    ASSUME NEW numbers
    PROVE  \A n \in Numbers : Forget(numbers)[n] = IF n \in numbers THEN NoRequest ELSE requests[n]
BY DEF Forget

\* No player has more than MaxOutstanding requests, if none is added ...
LEMMA OutstandingShrinks ==
    ASSUME HandsTypeOK, NEW t \in Targets,
           \A n \in Numbers : requests'[n].of = t => requests[n].of = t
    PROVE  Cardinality({n \in Numbers : requests'[n].of = t}) <= MaxOutstanding
<1> DEFINE before == {n \in Numbers : requests[n].of = t}
           after == {n \in Numbers : requests'[n].of = t}
<1>1. IsFiniteSet(before) /\ before \subseteq Numbers
  <2>1. IsFiniteSet(Numbers)
    BY Bounds, FS_Interval DEF Numbers
  <2>2. QED
    BY <2>1, FS_Subset
<1>2. after \subseteq before
  OBVIOUS
<1>3. Cardinality(after) <= Cardinality(before) /\ IsFiniteSet(after)
  BY <1>1, <1>2, FS_Subset
<1>4. Cardinality(before) <= MaxOutstanding
  BY DEF HandsTypeOK
<1>5. Cardinality(before) \in Nat /\ Cardinality(after) \in Nat
  BY <1>1, <1>3, FS_CardinalityType
<1>6. QED
  BY <1>3, <1>4, <1>5, Bounds

\* ... or one is added to fewer.
LEMMA OutstandingGrows ==
    ASSUME HandsTypeOK, NEW t \in Targets, NEW m \in Numbers,
           \A n \in Numbers : n # m => requests'[n] = requests[n],
           requests'[m].of = t => ~(Cardinality({n \in Numbers : requests[n].of = t}) >= MaxOutstanding)
    PROVE  Cardinality({n \in Numbers : requests'[n].of = t}) <= MaxOutstanding
<1> DEFINE before == {n \in Numbers : requests[n].of = t}
           after == {n \in Numbers : requests'[n].of = t}
<1>1. CASE requests'[m].of # t
  BY <1>1, OutstandingShrinks
<1>2. CASE requests'[m].of = t
  <2>1. IsFiniteSet(before)
    <3>1. IsFiniteSet(Numbers)
      BY Bounds, FS_Interval DEF Numbers
    <3>2. QED
      BY <3>1, FS_Subset
  <2>2. after \subseteq before \cup {m}
    OBVIOUS
  <2>3. /\ IsFiniteSet(before \cup {m})
        /\ Cardinality(before \cup {m}) <= Cardinality(before) + 1
        /\ Cardinality(before) \in Nat
    <3>1. Cardinality(before) \in Nat
      BY <2>1, FS_CardinalityType
    <3>2. QED
      BY <2>1, <3>1, FS_AddElement
  <2>4. Cardinality(after) <= Cardinality(before \cup {m}) /\ IsFiniteSet(after)
    BY <2>2, <2>3, FS_Subset
  <2>5. Cardinality(after) \in Nat /\ Cardinality(before \cup {m}) \in Nat
    BY <2>3, <2>4, FS_CardinalityType
  <2>6. ~(Cardinality(before) >= MaxOutstanding)
    BY <1>2
  <2> HIDE DEF before, after
  <2>7. Cardinality(after) <= MaxOutstanding
    BY <2>3, <2>4, <2>5, <2>6, Bounds
  <2>8. QED
    BY <2>7 DEF after
<1>3. QED
  BY <1>1, <1>2


Lookup == [by : Watchers, of : Targets, seat : Chairs, late : BOOLEAN]

\* Looking hands up finds those of players with consent, in their seats.
LEMMA LooksUpFields ==
    ASSUME HandsTypeOK, ConsentInv, NEW w \in Watchers, NEW targets \in SUBSET Targets,
           LooksUp(w, targets)
    PROVE  /\ lookups' \subseteq Lookup
           /\ grants' \subseteq grants
           /\ \A l \in lookups' : ~l.late =>
                chair[l.of] = l.seat /\ <<Who[l.by], l.of>> \in consent
<1>1. ASSUME NEW l \in Found(w, targets)
      PROVE  l \in Lookup /\ chair[l.of] = l.seat /\ <<Who[l.by], l.of>> \in consent
  <2>1. PICK t \in {u \in targets : <<Who[w], u>> \in grants /\ chair[u] # NoOne} :
          l = [by |-> w, of |-> t, seat |-> chair[t], late |-> FALSE]
    BY <1>1 DEF Found
  <2>2. chair[t] \in Chairs /\ t \in Targets
    BY <2>1 DEF HandsTypeOK
  <2>3. <<Who[w], t>> \in consent
    BY <2>1 DEF ConsentInv
  <2>4. QED
    BY <2>1, <2>2, <2>3 DEF Lookup
<1>2. lookups \subseteq Lookup
  BY DEF HandsTypeOK, Lookup
<1>3. lookups' \subseteq lookups \cup Found(w, targets) /\ grants' \subseteq grants
  BY DEF LooksUp, GrantsKept
<1>4. QED
  BY <1>1, <1>2, <1>3 DEF ConsentInv

LEMMA HandsInitInv == HandsInit => HandsInv
<1> SUFFICES ASSUME HandsInit PROVE HandsInv
  OBVIOUS
<1>1. requests \in [Numbers -> Request] /\ responding \in [Targets -> ResponseOf]
  BY NothingTyped DEF HandsInit
<1>2. /\ made \in 0..MaxRequests
      /\ chair \in [Targets -> Chairs \cup {NoOne}]
      /\ \A t, u \in Targets : chair[t] = chair[u] => t = u
  BY Bounds DEF HandsInit, Seatings
<1>3. \A t \in Targets : Cardinality({n \in Numbers : requests[n].of = t}) <= MaxOutstanding
  <2>1. TAKE t \in Targets
  <2>2. {n \in Numbers : requests[n].of = t} = {}
    BY NothingTyped, Bounds DEF HandsInit
  <2>3. QED
    BY <2>2, FS_EmptySet, Bounds
<1>4. HandsTypeOK
  BY <1>1, <1>2, <1>3 DEF HandsInit, HandsTypeOK, Request, ResponseOf
<1>5. RequestsInv
  BY NothingTyped DEF HandsInit, RequestsInv, Numbers
<1>6. ConsentInv
  BY <1>2, NothingTyped DEF HandsInit, ConsentInv
<1>7. QED
  BY <1>4, <1>5, <1>6 DEF HandsInv

-----------------------------------------------------------------------------
\* The requests of a connection are requests.
LEMMA RequestsOfAsked ==
    ASSUME NEW w \in Watchers, NEW n \in RequestsOf(w)
    PROVE  n \in Numbers /\ requests[n] # NoRequest
BY NothingTyped, Bounds DEF RequestsOf

LEMMA AskRequests ==
    ASSUME HandsInv, NEW w \in Watchers, requests' = Forget(RequestsOf(w)),
           dropped' = dropped \cup RequestsOf(w), UNCHANGED <<made, responding, answers>>
    PROVE  /\ RequestsInv' /\ requests' \in [Numbers -> Request]
           /\ \A n \in Numbers : requests'[n] \in {requests[n], NoRequest}
<1>1. \A n \in Numbers : requests'[n] = IF n \in RequestsOf(w) THEN NoRequest ELSE requests[n]
  BY ForgetFields
<1>2. requests' \in [Numbers -> Request]
  BY NothingTyped DEF Forget, HandsInv, HandsTypeOK, Request
<1>3. \A n \in RequestsOf(w) : n \in Numbers /\ requests[n] # NoRequest
  BY RequestsOfAsked
<1>4. made \in Nat
  BY Bounds DEF HandsInv, HandsTypeOK
<1>5. \A n \in Numbers : n \in RequestsOf(w) => n <= made /\ answers[n] = 0 /\ n \notin dropped
  BY <1>3, <1>4, Bounds DEF HandsInv, RequestsInv, Numbers
<1>6. \A t \in Targets : responding[t] # NoAnswer => responding[t].number \in Numbers \ RequestsOf(w)
  BY <1>3, <1>4, Bounds DEF HandsInv, HandsTypeOK, RequestsInv, Numbers
<1>7. answers' \in [Numbers -> Nat] /\ dropped' \subseteq Numbers
  BY <1>3 DEF HandsInv, RequestsInv
<1>8. ASSUME NEW n \in Numbers
      PROVE  /\ n > made' => requests'[n] = NoRequest
             /\ n > made' \/ requests'[n] # NoRequest => answers'[n] = 0 /\ n \notin dropped'
             /\ n \in dropped' => answers'[n] = 0
             /\ requests'[n] # NoRequest => requests'[n].by \in Watchers
             /\ n <= made' /\ requests'[n] = NoRequest /\ n \notin dropped' =>
                  answers'[n] = 1 \/ \E t \in Targets : responding'[t].number = n
  <2>1. CASE n \in RequestsOf(w)
    <3>1. n \in Nat /\ ~(n > made)
      BY <1>4, <1>5, <2>1, Bounds DEF Numbers
    <3>2. QED
      BY <1>1, <1>5, <2>1, <3>1
  <2>2. CASE n \notin RequestsOf(w)
    <3>1. requests'[n] = requests[n] /\ (n \in dropped' <=> n \in dropped)
      BY <1>1, <2>2
    <3>2. QED
      BY <3>1 DEF HandsInv, RequestsInv
  <2>3. QED
    BY <2>1, <2>2
<1>9. ASSUME NEW t \in Targets, responding'[t] # NoAnswer
      PROVE  /\ responding'[t].number \in 1..made' /\ responding'[t].by \in Watchers
             /\ requests'[responding'[t].number] = NoRequest /\ responding'[t].number \notin dropped'
             /\ answers'[responding'[t].number] = IF responding'[t].told THEN 1 ELSE 0
             /\ \A u \in Targets : responding'[u].number = responding'[t].number => u = t
  BY <1>1, <1>6, <1>9 DEF HandsInv, RequestsInv
<1>10. RequestsInv'
  BY <1>7, <1>8, <1>9 DEF RequestsInv
<1>11. QED
  BY <1>1, <1>2, <1>10


LEMMA EnqueueRequests ==
    ASSUME HandsInv, NEW w \in Watchers, Enqueue(w)
    PROVE  /\ RequestsInv' /\ requests' \in [Numbers -> Request] /\ made' \in 0..MaxRequests
           /\ \A t \in Targets :
                Cardinality({n \in Numbers : requests'[n].of = t}) <= MaxOutstanding
<1> DEFINE r == [by |-> w, of |-> asked[w], old |-> FALSE]
           full == Cardinality({n \in Numbers : requests[n].of = asked[w]}) >= MaxOutstanding
<1>0. /\ made \in Nat /\ made <= MaxRequests
      /\ requests \in [Numbers -> Request] /\ asked[w] \in Targets \cup {NoOne}
      /\ UNCHANGED <<responding, answers, dropped>>
  BY Bounds DEF HandsInv, HandsTypeOK, Request, Enqueue, handsHistory
<1>1. CASE full
  <2>1. UNCHANGED <<requests, made>>
    BY <1>1 DEF Enqueue
  <2>2. RequestsInv'
    BY <1>0, <2>1 DEF HandsInv, RequestsInv
  <2>3. QED
    BY <1>0, <2>1, <2>2, OutstandingShrinks DEF HandsInv, HandsTypeOK
<1>2. CASE ~full
  <2>1. /\ made + 1 \in Numbers /\ made' = made + 1
        /\ requests' = [requests EXCEPT ![made + 1] = r]
    BY <1>0, <1>2, Bounds DEF Enqueue, Numbers
  <2>2. r \in Request /\ r # NoRequest /\ r.by \in Watchers /\ r.of = asked[w]
    BY <1>0, Bounds DEF Request, NoRequest
  <2>3. /\ requests' \in [Numbers -> Request]
        /\ \A n \in Numbers : requests'[n] = IF n = made + 1 THEN r ELSE requests[n]
    BY <1>0, <2>1, <2>2
  <2>4. made' \in 0..MaxRequests
    BY <1>0, <2>1, Bounds DEF Numbers
  <2> HIDE DEF full, r
  <2>5. ASSUME NEW n \in Numbers
        PROVE  /\ n > made' => requests'[n] = NoRequest
               /\ n > made' \/ requests'[n] # NoRequest => answers'[n] = 0 /\ n \notin dropped'
               /\ n \in dropped' => answers'[n] = 0
               /\ requests'[n] # NoRequest => requests'[n].by \in Watchers
               /\ n <= made' /\ requests'[n] = NoRequest /\ n \notin dropped' =>
                    answers'[n] = 1 \/ \E t \in Targets : responding'[t].number = n
    <3>1. n \in Nat
      BY Bounds DEF Numbers
    <3>2. CASE n = made + 1
      BY <1>0, <2>1, <2>2, <2>3, <3>1, <3>2 DEF HandsInv, RequestsInv
    <3>3. CASE n # made + 1
      <4>1. requests'[n] = requests[n] /\ (n > made' => n > made) /\ (n <= made' => n <= made)
        BY <1>0, <2>1, <2>3, <3>1, <3>3
      <4>2. QED
        BY <1>0, <4>1 DEF HandsInv, RequestsInv
    <3>4. QED
      BY <3>2, <3>3
  <2>6. ASSUME NEW t \in Targets, responding[t] # NoAnswer
        PROVE  /\ responding[t].number \in 1..made'
               /\ requests'[responding[t].number] = NoRequest
    <3>1. responding[t].number \in 1..made /\ requests[responding[t].number] = NoRequest
      BY <2>6 DEF HandsInv, RequestsInv
    <3>2. responding[t].number \in 1..made' /\ responding[t].number \in Numbers
          /\ responding[t].number # made + 1
      BY <1>0, <2>1, <3>1, Bounds DEF Numbers
    <3>3. QED
      BY <2>3, <3>1, <3>2
  <2>7. RequestsInv'
    BY <1>0, <2>5, <2>6 DEF HandsInv, RequestsInv
  <2>8. \A t \in Targets :
          Cardinality({n \in Numbers : requests'[n].of = t}) <= MaxOutstanding
    <3>1. TAKE t \in Targets
    <3>2. requests'[made + 1].of = asked[w]
      BY <2>1, <2>2, <2>3
    <3>3. requests'[made + 1].of = t =>
            ~(Cardinality({n \in Numbers : requests[n].of = t}) >= MaxOutstanding)
      BY <1>2, <3>2 DEF full
    <3>4. \A n \in Numbers : n # made + 1 => requests'[n] = requests[n]
      BY <2>3
    <3>5. QED
      BY <2>1, <3>3, <3>4, OutstandingGrows DEF HandsInv
  <2>9. QED
    BY <2>3, <2>4, <2>7, <2>8
<1>3. QED
  BY <1>1, <1>2

LEMMA GrowsOldRequests ==
    ASSUME HandsInv, NEW n \in Numbers, GrowsOld(n)
    PROVE  /\ RequestsInv' /\ requests' \in [Numbers -> Request]
           /\ \A m \in Numbers : requests'[m].of = requests[m].of
<1>0. requests \in [Numbers -> Request] /\ UNCHANGED <<made, responding, answers, dropped>>
  BY DEF HandsInv, HandsTypeOK, Request, GrowsOld, handsHistory
<1> DEFINE r == [requests[n] EXCEPT !.old = TRUE]
<1>1. r \in Request /\ r.old = TRUE /\ r.by = requests[n].by /\ r.of = requests[n].of
  BY <1>0 DEF Request
<1>2. requests' = [requests EXCEPT ![n] = r]
  BY <1>0 DEF GrowsOld
<1>3. requests[n] # NoRequest /\ r # NoRequest
  BY <1>1, NothingTyped DEF GrowsOld
<1> HIDE DEF r
<1>4. /\ requests' \in [Numbers -> Request]
      /\ \A m \in Numbers : requests'[m] = IF m = n THEN r ELSE requests[m]
  BY <1>0, <1>1, <1>2
<1>5. \A m \in Numbers : /\ requests'[m] = NoRequest <=> requests[m] = NoRequest
                         /\ requests'[m].by = requests[m].by /\ requests'[m].of = requests[m].of
  BY <1>1, <1>3, <1>4
<1>6. \A t \in Targets : responding[t] # NoAnswer => responding[t].number \in Numbers
  BY Bounds DEF HandsInv, HandsTypeOK, RequestsInv, Numbers
<1>7. RequestsInv'
  BY <1>0, <1>5, <1>6 DEF HandsInv, RequestsInv
<1>8. QED
  BY <1>4, <1>5, <1>7

\* The time-out of a request that is still there.
LEMMA ExpireRequests ==
    ASSUME HandsInv, NEW n \in Numbers, Expire(n)
    PROVE  /\ RequestsInv' /\ requests' \in [Numbers -> Request]
           /\ \A m \in Numbers : requests'[m] \in {requests[m], NoRequest}
<1>0. /\ requests \in [Numbers -> Request] /\ UNCHANGED <<made, responding, dropped>>
      /\ answers' = [answers EXCEPT ![n] = @ + 1] /\ made \in Nat
  BY Bounds DEF HandsInv, HandsTypeOK, Request, Expire
<1>1. \A m \in Numbers : requests'[m] = IF m = n THEN NoRequest ELSE requests[m]
  BY ForgetFields DEF Expire
<1>2. requests' \in [Numbers -> Request]
  BY <1>0, NothingTyped DEF Forget, Expire
<1>3. requests[n] # NoRequest
  BY NothingTyped DEF Expire
<1>4. answers[n] = 0 /\ n \notin dropped /\ n \in Nat /\ ~(n > made)
  BY <1>0, <1>3, Bounds DEF HandsInv, RequestsInv, Numbers
<1>5. /\ answers' \in [Numbers -> Nat]
      /\ \A m \in Numbers : answers'[m] = IF m = n THEN 1 ELSE answers[m]
  BY <1>0, <1>4 DEF HandsInv, RequestsInv
<1>6. \A t \in Targets : responding[t] # NoAnswer =>
        responding[t].number \in Numbers /\ responding[t].number # n
  BY <1>0, <1>3, Bounds DEF HandsInv, HandsTypeOK, RequestsInv, Numbers
<1>7. ASSUME NEW m \in Numbers
      PROVE  /\ m > made' => requests'[m] = NoRequest
             /\ m > made' \/ requests'[m] # NoRequest => answers'[m] = 0 /\ m \notin dropped'
             /\ m \in dropped' => answers'[m] = 0
             /\ requests'[m] # NoRequest => requests'[m].by \in Watchers
             /\ m <= made' /\ requests'[m] = NoRequest /\ m \notin dropped' =>
                  answers'[m] = 1 \/ \E t \in Targets : responding'[t].number = m
  <2>1. CASE m = n
    BY <1>0, <1>1, <1>4, <1>5, <2>1
  <2>2. CASE m # n
    BY <1>0, <1>1, <1>5, <2>2 DEF HandsInv, RequestsInv
  <2>3. QED
    BY <2>1, <2>2
<1>8. \A t \in Targets : responding[t] # NoAnswer =>
        /\ requests'[responding[t].number] = requests[responding[t].number]
        /\ answers'[responding[t].number] = answers[responding[t].number]
  BY <1>1, <1>5, <1>6
<1>9. RequestsInv'
  BY <1>0, <1>5, <1>7, <1>8 DEF HandsInv, RequestsInv
<1>10. QED
  BY <1>1, <1>2, <1>9


\* A player answers: the request is his alone.
LEMMA RespondRequests ==
    ASSUME HandsInv, NEW t \in Targets, NEW n \in Numbers, NEW approved \in BOOLEAN,
           Respond(t, n, approved)
    PROVE  /\ RequestsInv' /\ requests' \in [Numbers -> Request]
           /\ \A m \in Numbers : requests'[m] \in {requests[m], NoRequest}
           /\ responding' \in [Targets -> ResponseOf]
<1> DEFINE good == approved /\ ~requests[n].old
           a == [number |-> n, by |-> requests[n].by, approved |-> good, told |-> FALSE]
<1>0. /\ requests \in [Numbers -> Request] /\ responding \in [Targets -> ResponseOf]
      /\ made \in Nat /\ UNCHANGED <<made, answers, dropped>>
      /\ responding[t] = NoAnswer /\ requests[n] # NoRequest
  BY Bounds DEF HandsInv, HandsTypeOK, Request, ResponseOf, Respond
<1>1. \A m \in Numbers : requests'[m] = IF m = n THEN NoRequest ELSE requests[m]
  BY ForgetFields DEF Respond
<1>2. requests' \in [Numbers -> Request]
  BY <1>0, NothingTyped DEF Forget, Respond
<1>3. /\ requests[n].by \in Watchers /\ requests[n].old \in BOOLEAN
      /\ answers[n] = 0 /\ n \notin dropped /\ n \in 1..made
  BY <1>0, Bounds DEF HandsInv, RequestsInv, Request, Numbers
<1>4. /\ a \in ResponseOf /\ a # NoAnswer /\ a.number = n /\ a.by \in Watchers /\ a.told = FALSE
      /\ responding' = [responding EXCEPT ![t] = a]
  BY <1>0, <1>3, Bounds DEF ResponseOf, NoAnswer, Numbers, Respond
<1> HIDE DEF a
<1>5. /\ responding' \in [Targets -> ResponseOf]
      /\ \A u \in Targets : responding'[u] = IF u = t THEN a ELSE responding[u]
  BY <1>0, <1>4
<1>6. \A u \in Targets : responding[u].number # n
  <2>1. TAKE u \in Targets
  <2>2. CASE responding[u] = NoAnswer
    BY <1>3, <2>2, NothingTyped
  <2>3. CASE responding[u] # NoAnswer
    BY <1>0, <2>3 DEF HandsInv, RequestsInv
  <2>4. QED
    BY <2>2, <2>3
<1>7. ASSUME NEW m \in Numbers
      PROVE  /\ m > made' => requests'[m] = NoRequest
             /\ m > made' \/ requests'[m] # NoRequest => answers'[m] = 0 /\ m \notin dropped'
             /\ m \in dropped' => answers'[m] = 0
             /\ requests'[m] # NoRequest => requests'[m].by \in Watchers
             /\ m <= made' /\ requests'[m] = NoRequest /\ m \notin dropped' =>
                  answers'[m] = 1 \/ \E u \in Targets : responding'[u].number = m
  <2>1. CASE m = n
    <3>1. responding'[t].number = n /\ ~(n > made)
      BY <1>0, <1>3, <1>4, <1>5
    <3>2. QED
      BY <1>0, <1>1, <1>3, <2>1, <3>1
  <2>2. CASE m # n
    <3>1. \A u \in Targets : responding[u].number = m => responding'[u].number = m
      <4>1. m # 0
        BY Bounds DEF Numbers
      <4>2. QED
        BY <1>0, <1>5, <4>1, NothingTyped
    <3>2. QED
      BY <1>0, <1>1, <2>2, <3>1 DEF HandsInv, RequestsInv
  <2>3. QED
    BY <2>1, <2>2
<1>8. ASSUME NEW u \in Targets, responding'[u] # NoAnswer
      PROVE  /\ responding'[u].number \in 1..made' /\ responding'[u].by \in Watchers
             /\ requests'[responding'[u].number] = NoRequest /\ responding'[u].number \notin dropped'
             /\ answers'[responding'[u].number] = IF responding'[u].told THEN 1 ELSE 0
             /\ \A v \in Targets : responding'[v].number = responding'[u].number => v = u
  <2>1. CASE u = t
    BY <1>0, <1>1, <1>3, <1>4, <1>5, <1>6, <2>1
  <2>2. CASE u # t
    <3>1. /\ responding'[u] = responding[u] /\ responding[u] # NoAnswer
          /\ responding[u].number # n
      BY <1>5, <1>6, <1>8, <2>2
    <3>2. responding[u].number \in Numbers
      BY <1>0, <3>1, Bounds DEF HandsInv, HandsTypeOK, RequestsInv, Numbers
    <3>3. requests'[responding[u].number] = requests[responding[u].number]
      BY <1>1, <3>1, <3>2
    <3>4. \A v \in Targets : responding'[v].number = responding[u].number => v = u
      <4>1. TAKE v \in Targets
      <4>2. CASE v = t
        BY <1>4, <1>5, <3>1, <4>2
      <4>3. CASE v # t
        BY <1>5, <3>1, <4>3 DEF HandsInv, RequestsInv
      <4>4. QED
        BY <4>2, <4>3
    <3>5. QED
      BY <1>0, <3>1, <3>3, <3>4 DEF HandsInv, RequestsInv
  <2>3. QED
    BY <2>1, <2>2
<1>9. RequestsInv'
  <2>1. answers' \in [Numbers -> Nat] /\ dropped' \subseteq Numbers
    BY <1>0 DEF HandsInv, RequestsInv
  <2>2. QED
    BY <1>7, <1>8, <2>1 DEF RequestsInv
<1>10. QED
  BY <1>1, <1>2, <1>5, <1>9

\* The result is sent: the request is answered, once.
LEMMA AnswerRequests ==
    ASSUME HandsInv, NEW t \in Targets, Answer(t)
    PROVE  RequestsInv' /\ responding' \in [Targets -> ResponseOf]
<1> DEFINE a == responding[t]
           b == IF a.approved THEN [a EXCEPT !.told = TRUE] ELSE NoAnswer
<1>0. /\ responding \in [Targets -> ResponseOf]
      /\ made \in Nat /\ UNCHANGED <<requests, made, dropped>>
      /\ a # NoAnswer /\ ~a.told
      /\ answers' = [answers EXCEPT ![a.number] = @ + 1]
  BY Bounds DEF HandsInv, HandsTypeOK, ResponseOf, Answer
<1>1. a \in ResponseOf
  BY <1>0
<1>2. /\ a.number \in 1..made /\ a.by \in Watchers /\ requests[a.number] = NoRequest
      /\ a.number \notin dropped /\ answers[a.number] = 0
      /\ \A u \in Targets : responding[u].number = a.number => u = t
  BY <1>0 DEF HandsInv, RequestsInv
<1>3. /\ b \in ResponseOf
      /\ b # NoAnswer => b.number = a.number /\ b.by = a.by /\ b.told = TRUE
      /\ responding' = [responding EXCEPT ![t] = b]
  <2>1. /\ [a EXCEPT !.told = TRUE] \in ResponseOf
        /\ [a EXCEPT !.told = TRUE].number = a.number
        /\ [a EXCEPT !.told = TRUE].by = a.by /\ [a EXCEPT !.told = TRUE].told = TRUE
    BY <1>1 DEF ResponseOf
  <2>2. QED
    BY <2>1, NothingTyped DEF Answer
<1>4. a.number \in Numbers /\ a.number # 0
  BY <1>0, <1>2, Bounds DEF HandsInv, HandsTypeOK, Numbers
<1>5. /\ answers' \in [Numbers -> Nat]
      /\ \A m \in Numbers : answers'[m] = IF m = a.number THEN 1 ELSE answers[m]
  BY <1>0, <1>2, <1>4 DEF HandsInv, RequestsInv
<1> HIDE DEF b
<1>6. /\ responding' \in [Targets -> ResponseOf]
      /\ \A u \in Targets : responding'[u] = IF u = t THEN b ELSE responding[u]
  BY <1>0, <1>3
<1> HIDE DEF a
<1>7. ASSUME NEW m \in Numbers
      PROVE  /\ m > made' => requests'[m] = NoRequest
             /\ m > made' \/ requests'[m] # NoRequest => answers'[m] = 0 /\ m \notin dropped'
             /\ m \in dropped' => answers'[m] = 0
             /\ requests'[m] # NoRequest => requests'[m].by \in Watchers
             /\ m <= made' /\ requests'[m] = NoRequest /\ m \notin dropped' =>
                  answers'[m] = 1 \/ \E u \in Targets : responding'[u].number = m
  <2>1. CASE m = a.number
    <3>1. ~(m > made)
      BY <1>0, <1>2, <2>1
    <3>2. QED
      BY <1>0, <1>2, <1>5, <2>1, <3>1
  <2>2. CASE m # a.number
    <3>1. \A u \in Targets : responding[u].number = m => responding'[u].number = m
      BY <1>6, <2>2 DEF a
    <3>2. QED
      BY <1>0, <1>5, <2>2, <3>1 DEF HandsInv, RequestsInv
  <2>3. QED
    BY <2>1, <2>2
<1>8. ASSUME NEW u \in Targets, responding'[u] # NoAnswer
      PROVE  /\ responding'[u].number \in 1..made' /\ responding'[u].by \in Watchers
             /\ requests'[responding'[u].number] = NoRequest /\ responding'[u].number \notin dropped'
             /\ answers'[responding'[u].number] = IF responding'[u].told THEN 1 ELSE 0
             /\ \A v \in Targets : responding'[v].number = responding'[u].number => v = u
  <2>1. \A v \in Targets : \/ responding'[v] = NoAnswer
                           \/ responding'[v].number = responding[v].number
    BY <1>3, <1>6 DEF a
  <2>2. responding[u] # NoAnswer
    BY <1>0, <1>6, <1>8 DEF a
  <2>3. /\ responding[u].number \in 1..made /\ responding[u].by \in Watchers
        /\ requests[responding[u].number] = NoRequest /\ responding[u].number \notin dropped
        /\ \A v \in Targets : responding[v].number = responding[u].number => v = u
    BY <2>2 DEF HandsInv, RequestsInv
  <2>4. responding'[u].number = responding[u].number /\ responding[u].number # 0
    BY <1>0, <1>8, <2>1, <2>3
  <2>5. \A v \in Targets : responding'[v].number = responding'[u].number => v = u
    BY <2>1, <2>3, <2>4, NothingTyped
  <2>6. CASE u = t
    BY <1>0, <1>2, <1>3, <1>5, <1>4, <1>6, <1>8, <2>3, <2>4, <2>5, <2>6 DEF a
  <2>7. CASE u # t
    <3>1. responding'[u] = responding[u]
      BY <1>6, <2>7
    <3>2. responding[u].number # a.number
      BY <1>2, <2>7 DEF a
    <3>3. responding[u].number \in Numbers
      BY <1>0, <2>3, Bounds DEF HandsInv, HandsTypeOK, Numbers
    <3>4. answers'[responding[u].number] = answers[responding[u].number]
      BY <1>5, <3>2, <3>3
    <3>5. QED
      BY <1>0, <2>2, <2>3, <2>5, <3>1, <3>4 DEF HandsInv, RequestsInv
  <2>8. QED
    BY <2>6, <2>7
<1>9. RequestsInv'
  <2>1. dropped' \subseteq Numbers
    BY <1>0 DEF HandsInv, RequestsInv
  <2>2. QED
    BY <1>5, <1>7, <1>8, <2>1 DEF RequestsInv
<1>10. QED
  BY <1>6, <1>9


\* What keeps RequestsInv when a player is done with an answer that was sent.
LEMMA DoneRequests ==
    ASSUME HandsInv, UNCHANGED <<requests, made, answers, dropped>>,
           \A t \in Targets : \/ responding'[t] = responding[t]
                              \/ responding'[t] = NoAnswer /\ responding[t].told
    PROVE  RequestsInv'
<1>1. \A t \in Targets : responding[t].told => responding[t] # NoAnswer
  BY NothingTyped
<1>2. ASSUME NEW n \in Numbers, NEW t \in Targets, responding[t].number = n
      PROVE  responding'[t].number = n \/ answers[n] = 1
  <2>1. CASE responding'[t] = responding[t]
    BY <1>2, <2>1
  <2>2. CASE responding'[t] = NoAnswer /\ responding[t].told
    BY <1>1, <1>2, <2>2 DEF HandsInv, RequestsInv
  <2>3. QED
    BY <2>1, <2>2
<1>3. ASSUME NEW n \in Numbers
      PROVE  /\ n > made => requests[n] = NoRequest
             /\ n > made \/ requests[n] # NoRequest => answers[n] = 0 /\ n \notin dropped
             /\ n \in dropped => answers[n] = 0
             /\ requests[n] # NoRequest => requests[n].by \in Watchers
             /\ n <= made /\ requests[n] = NoRequest /\ n \notin dropped =>
                  answers[n] = 1 \/ \E t \in Targets : responding'[t].number = n
  BY <1>2 DEF HandsInv, RequestsInv
<1>4. ASSUME NEW t \in Targets, responding'[t] # NoAnswer
      PROVE  /\ responding'[t].number \in 1..made /\ responding'[t].by \in Watchers
             /\ requests[responding'[t].number] = NoRequest
             /\ responding'[t].number \notin dropped
             /\ answers[responding'[t].number] = IF responding'[t].told THEN 1 ELSE 0
             /\ \A u \in Targets : responding'[u].number = responding'[t].number => u = t
  <2>1. responding'[t] = responding[t] /\ responding[t].number # 0
    BY <1>4, Bounds DEF HandsInv, HandsTypeOK, RequestsInv
  <2>2. \A u \in Targets : responding'[u].number = responding'[t].number => u = t
    BY <1>4, <2>1, NothingTyped DEF HandsInv, RequestsInv
  <2>3. QED
    BY <1>4, <2>1, <2>2 DEF HandsInv, RequestsInv
<1>5. answers \in [Numbers -> Nat] /\ dropped \subseteq Numbers
  BY DEF HandsInv, RequestsInv
<1>6. QED
  BY <1>3, <1>4, <1>5 DEF RequestsInv

LEMMA RequestsStep == ASSUME HandsInv, HandsNext PROVE RequestsInv'
<1>1. ASSUME NEW l \in lookups, SendHand(l) PROVE RequestsInv'
  BY <1>1, DoneRequests DEF SendHand
<1>2. ASSUME NEW w \in Watchers, Watch(w) \/ Refresh(w) PROVE RequestsInv'
  BY <1>2, DoneRequests DEF Watch, Refresh, handsHistory
<1>3. ASSUME NEW w \in Watchers, NEW t \in Targets, Ask(w, t) PROVE RequestsInv'
  BY <1>3, AskRequests DEF Ask
<1>4. ASSUME NEW w \in Watchers, Unwatch(w) PROVE RequestsInv'
  BY <1>4, AskRequests DEF Unwatch
<1>5. ASSUME NEW t \in Targets, AnswerWithHand(t) PROVE RequestsInv'
  <2>1. /\ responding[t].told
        /\ \A u \in Targets : responding'[u] = IF u = t THEN NoAnswer ELSE responding[u]
    BY <1>5 DEF AnswerWithHand, HandsInv, HandsTypeOK
  <2>2. QED
    BY <1>5, <2>1, DoneRequests DEF AnswerWithHand, handsHistory
<1>6. ASSUME NEW t \in Targets, NEW s \in Spectators, Revoke(t, s) PROVE RequestsInv'
  BY <1>6, DoneRequests DEF Revoke
<1>7. CASE Shuffle \/ GameGoes
  BY <1>7, DoneRequests DEF Shuffle, GameGoes, handsHistory
<1>8. QED
  BY <1>1, <1>2, <1>3, <1>4, <1>5, <1>6, <1>7, EnqueueRequests, GrowsOldRequests,
     ExpireRequests, RespondRequests, AnswerRequests DEF HandsNext

-----------------------------------------------------------------------------
\* What keeps ConsentInv while approvals and seats stay.
LEMMA ConsentKept ==
    ASSUME HandsInv, consent \subseteq consent', UNCHANGED <<grants, chair>>,
           lookups' \subseteq lookups,
           \A t \in Targets : responding'[t].approved =>
             <<Who[responding'[t].by], t>> \in consent'
    PROVE  ConsentInv'
BY DEF HandsInv, ConsentInv

\* What is late after a revocation, and after a shuffle.
LEMMA RevokedLate ==
    ASSUME HandsTypeOK, NEW t \in Targets, NEW s \in Spectators, Revoke(t, s)
    PROVE  /\ lookups' \subseteq Lookup
           /\ \A k \in lookups' : \E l \in lookups :
                /\ k.by = l.by /\ k.of = l.of /\ k.seat = l.seat
                /\ ~k.late => ~l.late /\ ~(Who[l.by] = s /\ l.of = t)
<1>1. \A l \in lookups : l \in Lookup
  BY DEF HandsTypeOK, Lookup
<1>2. lookups' = {[l EXCEPT !.late = l.late \/ (Who[l.by] = s /\ l.of = t)] : l \in lookups}
  BY DEF Revoke
<1>3. ASSUME NEW k \in lookups'
      PROVE  /\ k \in Lookup
             /\ \E l \in lookups :
                  /\ k.by = l.by /\ k.of = l.of /\ k.seat = l.seat
                  /\ ~k.late => ~l.late /\ ~(Who[l.by] = s /\ l.of = t)
  <2>1. PICK l \in lookups : k = [l EXCEPT !.late = l.late \/ (Who[l.by] = s /\ l.of = t)]
    BY <1>2
  <2>2. l \in Lookup
    BY <1>1
  <2> DEFINE late == l.late \/ (Who[l.by] = s /\ l.of = t)
  <2>3. late \in BOOLEAN
    BY <2>2 DEF Lookup
  <2>4. ~late => ~l.late /\ ~(Who[l.by] = s /\ l.of = t)
    OBVIOUS
  <2>5. k = [l EXCEPT !.late = late]
    BY <2>1
  <2> HIDE DEF late
  <2>6. /\ k \in Lookup /\ k.by = l.by /\ k.of = l.of /\ k.seat = l.seat
        /\ k.late = late
    BY <2>2, <2>3, <2>5 DEF Lookup
  <2>7. QED
    BY <2>4, <2>6
<1>4. QED
  BY <1>3

LEMMA ShuffledLate ==
    ASSUME HandsTypeOK, Shuffle
    PROVE  lookups' \subseteq Lookup /\ \A k \in lookups' : k.late
<1>1. \A l \in lookups : l \in Lookup
  BY DEF HandsTypeOK, Lookup
<1>2. lookups' = {[l EXCEPT !.late = TRUE] : l \in lookups}
  BY DEF Shuffle
<1>3. \A l \in Lookup : [l EXCEPT !.late = TRUE] \in Lookup /\ [l EXCEPT !.late = TRUE].late
  BY DEF Lookup
<1>4. QED
  BY <1>1, <1>2, <1>3

LEMMA ConsentStep == ASSUME HandsInv, HandsNext PROVE ConsentInv'
<1>0. /\ HandsTypeOK /\ ConsentInv
      /\ \A t \in Targets : responding[t].approved => <<Who[responding[t].by], t>> \in consent
  BY DEF HandsInv, ConsentInv
<1>1. ASSUME NEW l \in lookups, SendHand(l) PROVE ConsentInv'
  BY <1>0, <1>1, ConsentKept DEF SendHand
<1>2. ASSUME UNCHANGED <<responding, grants, lookups, chair, consent>> PROVE ConsentInv'
  BY <1>2 DEF HandsInv, ConsentInv
<1>3. ASSUME NEW w \in Watchers, NEW targets \in SUBSET Targets, LooksUp(w, targets),
             UNCHANGED <<chair, consent>>,
             \A t \in Targets : responding'[t].approved => responding'[t] = responding[t]
      PROVE  ConsentInv'
  <2>1. /\ grants' \subseteq grants
        /\ \A l \in lookups' : ~l.late => chair[l.of] = l.seat /\ <<Who[l.by], l.of>> \in consent
    BY <1>0, <1>3, LooksUpFields
  <2>2. QED
    BY <1>3, <2>1 DEF HandsInv, ConsentInv
<1>4. ASSUME NEW w \in Watchers, Watch(w) \/ Refresh(w) PROVE ConsentInv'
  <2>1. \E targets \in SUBSET Targets : LooksUp(w, targets)
    BY <1>4 DEF Watch, Refresh
  <2>2. UNCHANGED <<responding, chair, consent>>
    BY <1>4 DEF Watch, Refresh, handsHistory
  <2>3. QED
    BY <1>3, <2>1, <2>2
<1>5. ASSUME NEW t \in Targets, AnswerWithHand(t) PROVE ConsentInv'
  <2>1. /\ responding[t].told /\ responding[t] # NoAnswer /\ UNCHANGED <<chair, consent>>
        /\ \A u \in Targets : responding'[u] = IF u = t THEN NoAnswer ELSE responding[u]
    BY <1>5, NothingTyped DEF AnswerWithHand, HandsInv, HandsTypeOK, handsHistory
  <2>2. \A u \in Targets : responding'[u].approved => responding'[u] = responding[u]
    BY <2>1, NothingTyped
  <2>3. responding[t].by \in Watchers /\ {t} \in SUBSET Targets
    BY <2>1 DEF HandsInv, RequestsInv
  <2>4. CASE UNCHANGED <<lookups, grants>>
    BY <2>1, <2>2, <2>4 DEF HandsInv, ConsentInv
  <2>5. CASE LooksUp(responding[t].by, {t})
    BY <1>3, <2>1, <2>2, <2>3, <2>5
  <2>6. QED
    BY <1>5, <2>4, <2>5 DEF AnswerWithHand
<1>6. ASSUME NEW t \in Targets, NEW n \in Numbers, NEW approved \in BOOLEAN,
             Respond(t, n, approved)
      PROVE  ConsentInv'
  <2> DEFINE good == approved /\ ~requests[n].old
  <2>1. /\ consent' = IF good THEN consent \cup {<<Who[requests[n].by], t>>} ELSE consent
        /\ \A u \in Targets : u # t => responding'[u] = responding[u]
        /\ responding'[t].by = requests[n].by /\ responding'[t].approved = good
        /\ UNCHANGED <<grants, chair, lookups>>
    BY <1>0, <1>6 DEF Respond, HandsTypeOK
  <2> HIDE DEF good
  <2>2. QED
    BY <1>0, <2>1, ConsentKept
<1>7. ASSUME NEW t \in Targets, Answer(t) PROVE ConsentInv'
  <2>1. /\ UNCHANGED <<consent, chair, lookups>>
        /\ grants' \subseteq grants \cup
             (IF responding[t].approved THEN {<<Who[responding[t].by], t>>} ELSE {})
        /\ \A u \in Targets : u # t => responding'[u] = responding[u]
    BY <1>0, <1>7 DEF Answer, HandsTypeOK
  <2>2. responding'[t].approved => responding[t].approved /\ responding'[t].by = responding[t].by
    <3>1. responding[t] \in ResponseOf
      BY <1>0 DEF HandsTypeOK, ResponseOf
    <3>2. /\ [responding[t] EXCEPT !.told = TRUE].approved = responding[t].approved
          /\ [responding[t] EXCEPT !.told = TRUE].by = responding[t].by
      BY <3>1 DEF ResponseOf
    <3>3. responding'[t] = IF responding[t].approved
                           THEN [responding[t] EXCEPT !.told = TRUE] ELSE NoAnswer
      BY <1>0, <1>7 DEF Answer, HandsTypeOK
    <3>4. QED
      BY <3>2, <3>3, NothingTyped
  <2>3. QED
    BY <1>0, <2>1, <2>2 DEF ConsentInv
<1>8. ASSUME NEW t \in Targets, NEW s \in Spectators, Revoke(t, s) PROVE ConsentInv'
  <2>1. /\ responding[t] = NoAnswer /\ UNCHANGED <<responding, chair>>
        /\ grants' = grants \ {<<s, t>>} /\ consent' = consent \ {<<s, t>>}
    BY <1>8 DEF Revoke
  <2>2. ASSUME NEW k \in lookups', ~k.late
        PROVE  chair[k.of] = k.seat /\ <<Who[k.by], k.of>> \in consent'
    <3>1. \E l \in lookups :
            /\ k.by = l.by /\ k.of = l.of /\ k.seat = l.seat
            /\ ~l.late /\ ~(Who[l.by] = s /\ l.of = t)
      BY <1>8, <2>2, RevokedLate DEF HandsInv
    <3>2. QED
      BY <1>0, <2>1, <3>1 DEF ConsentInv
  <2>3. \A u \in Targets : responding'[u].approved => <<Who[responding'[u].by], u>> \in consent'
    BY <1>0, <2>1, NothingTyped
  <2>4. QED
    BY <1>0, <2>1, <2>2, <2>3 DEF ConsentInv
<1>9. CASE Shuffle
  <2>1. UNCHANGED <<responding, grants, consent>> /\ chair' \in Seatings
    BY <1>9 DEF Shuffle, handsHistory
  <2>2. \A k \in lookups' : k.late
    BY <1>0, <1>9, ShuffledLate
  <2>3. QED
    BY <1>0, <2>1, <2>2 DEF ConsentInv, Seatings
<1>10. ASSUME NEW w \in Watchers, (\E t \in Targets : Ask(w, t)) \/ Enqueue(w) \/ Unwatch(w)
       PROVE  ConsentInv'
  BY <1>2, <1>10 DEF Ask, Enqueue, Unwatch, handsHistory
<1>11. ASSUME NEW n \in Numbers, GrowsOld(n) \/ Expire(n) PROVE ConsentInv'
  BY <1>2, <1>11 DEF GrowsOld, Expire, handsHistory
<1>12. CASE GameGoes
  BY <1>2, <1>12 DEF GameGoes, handsHistory
<1>13. QED
  BY <1>1, <1>4, <1>5, <1>6, <1>7, <1>8, <1>9, <1>10, <1>11, <1>12 DEF HandsNext

-----------------------------------------------------------------------------
\* The requests keep their type ...
LEMMA RequestsTyped ==
    ASSUME HandsTypeOK, HandsNext
    PROVE  /\ requests' \in [Numbers -> Request] /\ made' \in 0..MaxRequests
           /\ \A t \in Targets :
                Cardinality({n \in Numbers : requests'[n].of = t}) <= MaxOutstanding
<1>0. /\ requests \in [Numbers -> Request] /\ made \in 0..MaxRequests
      /\ watching \in [Watchers -> {"new", "open", "asking", "closed"}]
      /\ asked \in [Watchers -> Targets \cup {NoOne}]
  BY DEF HandsTypeOK, Request
<1>1. ASSUME UNCHANGED <<requests, made>>
      PROVE  /\ requests' \in [Numbers -> Request] /\ made' \in 0..MaxRequests
             /\ \A t \in Targets :
                  Cardinality({n \in Numbers : requests'[n].of = t}) <= MaxOutstanding
  BY <1>0, <1>1 DEF HandsTypeOK
<1>2. ASSUME NEW numbers, requests' = Forget(numbers), made' = made
      PROVE  /\ requests' \in [Numbers -> Request] /\ made' \in 0..MaxRequests
             /\ \A t \in Targets :
                  Cardinality({n \in Numbers : requests'[n].of = t}) <= MaxOutstanding
  <2>1. requests' \in [Numbers -> Request]
    BY <1>0, <1>2, NothingTyped DEF Forget
  <2>2. ASSUME NEW t \in Targets, NEW n \in Numbers, requests'[n].of = t
        PROVE  requests[n].of = t
    BY <1>2, <2>2, ForgetFields, NothingTyped, Bounds
  <2>3. QED
    BY <1>0, <1>2, <2>1, <2>2, OutstandingShrinks
<1>3. ASSUME NEW n \in Numbers, GrowsOld(n)
      PROVE  /\ requests' \in [Numbers -> Request] /\ made' \in 0..MaxRequests
             /\ \A t \in Targets :
                  Cardinality({m \in Numbers : requests'[m].of = t}) <= MaxOutstanding
  <2>1. requests' = [requests EXCEPT ![n] = [requests[n] EXCEPT !.old = TRUE]] /\ made' = made
    BY <1>0, <1>3 DEF GrowsOld
  <2>2. /\ [requests[n] EXCEPT !.old = TRUE] \in Request
        /\ [requests[n] EXCEPT !.old = TRUE].of = requests[n].of
    BY <1>0 DEF Request
  <2>3. requests' \in [Numbers -> Request]
    BY <1>0, <2>1, <2>2
  <2>4. \A m \in Numbers : requests'[m].of = requests[m].of
    BY <1>0, <2>1, <2>2
  <2>5. QED
    BY <1>0, <2>1, <2>3, <2>4, OutstandingShrinks
<1>4. ASSUME NEW w \in Watchers, Enqueue(w)
      PROVE  /\ requests' \in [Numbers -> Request] /\ made' \in 0..MaxRequests
             /\ \A t \in Targets :
                  Cardinality({n \in Numbers : requests'[n].of = t}) <= MaxOutstanding
  <2>1. CASE UNCHANGED <<requests, made>>
    BY <1>1, <2>1
  <2>2. CASE /\ ~(Cardinality({n \in Numbers : requests[n].of = asked[w]}) >= MaxOutstanding)
             /\ made < MaxRequests /\ made' = made + 1
             /\ requests' = [requests EXCEPT ![made + 1] =
                               [by |-> w, of |-> asked[w], old |-> FALSE]]
    <3>1. made + 1 \in Numbers /\ made' \in 0..MaxRequests
      BY <1>0, <2>2, Bounds DEF Numbers
    <3>2. [by |-> w, of |-> asked[w], old |-> FALSE] \in Request
      BY <1>0 DEF Request
    <3>3. /\ \A n \in Numbers : n # made + 1 => requests'[n] = requests[n]
          /\ requests'[made + 1].of = asked[w]
          /\ requests' \in [Numbers -> Request]
      BY <1>0, <2>2, <3>1, <3>2
    <3>4. QED
      BY <2>2, <3>1, <3>3, OutstandingGrows
  <2>3. QED
    BY <1>4, <2>1, <2>2 DEF Enqueue
<1>5. ASSUME NEW l \in lookups, SendHand(l) PROVE UNCHANGED <<requests, made>>
  BY <1>5 DEF SendHand
<1>6. ASSUME NEW w \in Watchers, Watch(w) \/ Refresh(w) PROVE UNCHANGED <<requests, made>>
  BY <1>6 DEF Watch, Refresh
<1>7. ASSUME NEW w \in Watchers, Unwatch(w)
      PROVE  requests' = Forget(RequestsOf(w)) /\ made' = made
  BY <1>7 DEF Unwatch
<1>8. ASSUME NEW w \in Watchers, NEW t \in Targets, Ask(w, t)
      PROVE  requests' = Forget(RequestsOf(w)) /\ made' = made
  BY <1>8 DEF Ask
<1>9. ASSUME NEW n \in Numbers, Expire(n) PROVE requests' = Forget({n}) /\ made' = made
  BY <1>9 DEF Expire
<1>10. ASSUME NEW t \in Targets, Answer(t) \/ AnswerWithHand(t) PROVE UNCHANGED <<requests, made>>
  BY <1>10 DEF Answer, AnswerWithHand
<1>11. ASSUME NEW t \in Targets, NEW n \in Numbers, NEW approved \in BOOLEAN,
              Respond(t, n, approved)
       PROVE  requests' = Forget({n}) /\ made' = made
  BY <1>11 DEF Respond
<1>12. ASSUME NEW t \in Targets, NEW s \in Spectators, Revoke(t, s)
       PROVE  UNCHANGED <<requests, made>>
  BY <1>12 DEF Revoke
<1>13. CASE Shuffle \/ GameGoes
  BY <1>1, <1>13 DEF Shuffle, GameGoes
<1>14. QED
  BY <1>1, <1>2, <1>3, <1>4, <1>5, <1>6, <1>7, <1>8, <1>9, <1>10, <1>11, <1>12, <1>13
  DEF HandsNext

\* ... and so does the rest.
RestTyped ==
    /\ watching \in [Watchers -> {"new", "open", "asking", "closed"}]
    /\ asked \in [Watchers -> Targets \cup {NoOne}]
    /\ responding \in [Targets -> ResponseOf]
    /\ grants \subseteq Spectators \X Targets
    /\ lookups \subseteq Lookup
    /\ chair \in [Targets -> Chairs \cup {NoOne}]
    /\ alive \in BOOLEAN

LEMMA HandsTyped == ASSUME HandsInv, HandsNext PROVE RestTyped'
<1>0. HandsTypeOK /\ ConsentInv /\ RestTyped
  BY DEF HandsInv, HandsTypeOK, RestTyped, Lookup, ResponseOf
<1>1. ASSUME NEW w \in Watchers, NEW targets \in SUBSET Targets, LooksUp(w, targets)
      PROVE  lookups' \subseteq Lookup /\ grants' \subseteq Spectators \X Targets
  <2>1. lookups' \subseteq Lookup /\ grants' \subseteq grants
    BY <1>0, <1>1, LooksUpFields
  <2>2. QED
    BY <1>0, <2>1 DEF RestTyped
<1>2. ASSUME NEW l \in lookups, SendHand(l) PROVE RestTyped'
  BY <1>0, <1>2 DEF SendHand, RestTyped
<1>3. ASSUME NEW w \in Watchers, Watch(w) \/ Refresh(w) PROVE RestTyped'
  <2>1. \E targets \in SUBSET Targets : LooksUp(w, targets)
    BY <1>3 DEF Watch, Refresh
  <2>2. lookups' \subseteq Lookup /\ grants' \subseteq Spectators \X Targets
    BY <1>1, <2>1
  <2>3. QED
    BY <1>0, <1>3, <2>2 DEF Watch, Refresh, RestTyped
<1>4. ASSUME NEW w \in Watchers, Enqueue(w) \/ Unwatch(w) \/ (\E t \in Targets : Ask(w, t))
      PROVE  RestTyped'
  BY <1>0, <1>4 DEF Enqueue, Unwatch, Ask, RestTyped
<1>5. ASSUME NEW n \in Numbers, GrowsOld(n) \/ Expire(n) PROVE RestTyped'
  BY <1>0, <1>5 DEF GrowsOld, Expire, RestTyped
<1>6. ASSUME NEW t \in Targets, NEW n \in Numbers, NEW approved \in BOOLEAN,
             Respond(t, n, approved)
      PROVE  RestTyped'
  <2>1. requests[n] \in Request
    BY <1>0 DEF HandsTypeOK, Request
  <2> DEFINE good == approved /\ ~requests[n].old
             now == [number |-> n, by |-> requests[n].by, approved |-> good, told |-> FALSE]
  <2>2. good \in BOOLEAN
    BY <2>1 DEF Request
  <2>3. responding' = [responding EXCEPT ![t] = now]
    BY <1>6 DEF Respond
  <2> HIDE DEF good
  <2>4. now \in ResponseOf
    BY <2>1, <2>2, Bounds DEF ResponseOf, Request, Numbers
  <2> HIDE DEF now
  <2>5. responding' \in [Targets -> ResponseOf]
    BY <1>0, <2>3, <2>4 DEF RestTyped
  <2>6. QED
    BY <1>0, <1>6, <2>5 DEF Respond, RestTyped
<1>7. ASSUME NEW t \in Targets, Answer(t) PROVE RestTyped'
  <2>1. responding[t] \in ResponseOf /\ responding[t].by \in Watchers
    BY <1>0, <1>7 DEF Answer, RestTyped, HandsInv, RequestsInv
  <2>2. grants' \subseteq Spectators \X Targets
    <3>1. Who[responding[t].by] \in Spectators
      BY <2>1, WhoAssumption
    <3>2. QED
      BY <1>0, <1>7, <3>1 DEF Answer, RestTyped
  <2>3. responding' \in [Targets -> ResponseOf]
    <3>1. [responding[t] EXCEPT !.told = TRUE] \in ResponseOf
      BY <2>1 DEF ResponseOf
    <3>2. QED
      BY <1>0, <1>7, <3>1, NothingTyped DEF Answer, RestTyped
  <2>4. QED
    BY <1>0, <1>7, <2>2, <2>3 DEF Answer, RestTyped
<1>8. ASSUME NEW t \in Targets, AnswerWithHand(t) PROVE RestTyped'
  <2>1. responding[t].by \in Watchers
    BY <1>0, <1>8, NothingTyped DEF AnswerWithHand, HandsInv, RequestsInv
  <2>2. responding' \in [Targets -> ResponseOf]
    BY <1>0, <1>8, NothingTyped DEF AnswerWithHand, RestTyped
  <2>3. lookups' \subseteq Lookup /\ grants' \subseteq Spectators \X Targets
    <3>1. CASE UNCHANGED <<lookups, grants>>
      BY <1>0, <3>1 DEF RestTyped
    <3>2. CASE LooksUp(responding[t].by, {t})
      BY <1>1, <2>1, <3>2
    <3>3. QED
      BY <1>8, <3>1, <3>2 DEF AnswerWithHand
  <2>4. QED
    BY <1>0, <1>8, <2>2, <2>3 DEF AnswerWithHand, RestTyped
<1>9. ASSUME NEW t \in Targets, NEW s \in Spectators, Revoke(t, s) PROVE RestTyped'
  <2>1. lookups' \subseteq Lookup
    BY <1>0, <1>9, RevokedLate
  <2>2. QED
    BY <1>0, <1>9, <2>1 DEF Revoke, RestTyped
<1>10. CASE Shuffle
  <2>1. lookups' \subseteq Lookup
    BY <1>0, <1>10, ShuffledLate
  <2>2. QED
    BY <1>0, <1>10, <2>1 DEF Shuffle, Seatings, RestTyped
<1>11. CASE GameGoes
  BY <1>0, <1>11 DEF GameGoes, RestTyped
<1>12. QED
  BY <1>2, <1>3, <1>4, <1>5, <1>6, <1>7, <1>8, <1>9, <1>10, <1>11 DEF HandsNext

LEMMA HandsStep == HandsInv /\ [HandsNext]_handsVars => HandsInv'
<1>1. ASSUME HandsInv, HandsNext PROVE HandsInv'
  <2>1. RestTyped' /\ RequestsInv' /\ ConsentInv'
    BY <1>1, HandsTyped, RequestsStep, ConsentStep
  <2>2. /\ requests' \in [Numbers -> Request] /\ made' \in 0..MaxRequests
        /\ \A t \in Targets :
             Cardinality({n \in Numbers : requests'[n].of = t}) <= MaxOutstanding
    BY <1>1, RequestsTyped DEF HandsInv
  <2>3. QED
    BY <2>1, <2>2 DEF HandsInv, HandsTypeOK, RestTyped, Request, ResponseOf, Lookup
<1>2. ASSUME HandsInv, UNCHANGED handsVars PROVE HandsInv'
  BY <1>2 DEF handsVars, HandsInv, HandsTypeOK, RequestsInv, ConsentInv
<1>3. QED
  BY <1>1, <1>2

\* The state keeps its type; in particular no player has more than
\* MaxOutstanding requests in front of him, as handleSpectatorHandRequest
\* counts them and adds one under one lock.
THEOREM HandsTypeCorrect == HandsSpec => []HandsTypeOK
<1>1. HandsInv => HandsTypeOK
  BY DEF HandsInv
<1>2. QED
  BY <1>1, HandsInitInv, HandsStep, PTL DEF HandsSpec

\* The answer of the player, the timer and the spectator's next request race
\* for a request, and only one of them gets it.
THEOREM RequestsAnsweredOnceHolds == HandsSpec => []RequestsAnsweredOnce
<1>1. HandsInv => RequestsAnsweredOnce
  <2>1. SUFFICES ASSUME HandsInv, NEW n \in 1..made
                 PROVE  /\ answers[n] <= 1
                        /\ n \in dropped => answers[n] = 0
                        /\ requests[n] = NoRequest /\ n \notin dropped =>
                             answers[n] = 1 \/ \E t \in Targets : responding[t].number = n
    BY DEF RequestsAnsweredOnce
  <2>2. n \in Numbers /\ made \in Nat
    BY <2>1, Bounds DEF HandsInv, HandsTypeOK, Numbers
  <2>3. answers[n] <= 1
    <3>1. CASE n \in dropped \/ requests[n] # NoRequest
      BY <2>1, <2>2, <3>1 DEF HandsInv, RequestsInv
    <3>2. CASE \E t \in Targets : responding[t].number = n
      <4>1. PICK t \in Targets : responding[t].number = n
        BY <3>2
      <4>2. responding[t] # NoAnswer
        BY <2>1, <2>2, <4>1, NothingTyped
      <4>3. answers[responding[t].number] = IF responding[t].told THEN 1 ELSE 0
        BY <2>1, <4>2 DEF HandsInv, RequestsInv
      <4>4. QED
        BY <4>1, <4>3
    <3>3. CASE answers[n] = 1
      BY <3>3
    <3>4. QED
      BY <2>1, <2>2, <3>1, <3>2, <3>3 DEF HandsInv, RequestsInv
  <2>4. QED
    BY <2>1, <2>2, <2>3 DEF HandsInv, RequestsInv
<1>2. QED
  BY <1>1, HandsInitInv, HandsStep, PTL DEF HandsSpec

\* A hand that is not late is the hand of the player who consented: no two
\* players share a seat, so the seat that was looked up is still his.
THEOREM HandsByConsentHolds == HandsSpec => HandsByConsent
<1> DEFINE Keeps == shown' # shown /\ ~shown'.late =>
                      shown'.of = shown'.by /\ <<shown'.to, shown'.of>> \in consent
<1>1. ASSUME HandsInv, HandsNext PROVE Keeps
  <2>1. ASSUME NEW l \in lookups, SendHand(l) PROVE Keeps
    <3>1. CASE shown' = shown
      BY <3>1
    <3>2. CASE \E t \in Targets : /\ chair[t] = l.seat
                                  /\ shown' = [to |-> Who[l.by], by |-> l.of, of |-> t,
                                               late |-> l.late]
      <4>1. l.of \in Targets
        BY <1>1, <2>1 DEF HandsInv, HandsTypeOK
      <4>2. PICK t \in Targets : /\ chair[t] = l.seat
                                 /\ shown' = [to |-> Who[l.by], by |-> l.of, of |-> t,
                                              late |-> l.late]
        BY <3>2
      <4>3. /\ shown'.late = l.late /\ shown'.of = t /\ shown'.by = l.of
            /\ shown'.to = Who[l.by]
        BY <4>2
      <4>4. CASE l.late
        BY <4>3, <4>4
      <4>5. CASE ~l.late
        <5>1. chair[l.of] = l.seat /\ <<Who[l.by], l.of>> \in consent
          BY <1>1, <2>1, <4>5 DEF HandsInv, ConsentInv
        <5>2. t = l.of
          BY <1>1, <4>1, <4>2, <5>1 DEF HandsInv, ConsentInv
        <5>3. QED
          BY <4>3, <5>1, <5>2
      <4>6. QED
        BY <4>4, <4>5
    <3>3. QED
      BY <2>1, <3>1, <3>2 DEF SendHand
  <2>2. ASSUME shown' = shown PROVE Keeps
    BY <2>2
  <2> HIDE DEF Keeps
  <2>3. QED
    BY <1>1, <2>1, <2>2
    DEF HandsNext, Watch, Refresh, Enqueue, Unwatch, Ask, GrowsOld, Expire, Answer,
        AnswerWithHand, Respond, Revoke, Shuffle, GameGoes, handsHistory
<1>2. HandsInv /\ [HandsNext]_handsVars => [Keeps]_handsVars
  BY <1>1
<1>3. QED
  BY HandsInitInv, HandsStep, <1>2, PTL DEF HandsSpec, HandsByConsent

-----------------------------------------------------------------------------
(* Statistics: what is served again is what would be answered now            *)

\* What is built or kept has the fields of StatsWsSession.
IsResult(r) ==
    r = [filter |-> r.filter, version |-> r.version, rounds |-> r.rounds,
         data |-> r.data, sorted |-> r.sorted]

IsWanted(w) == w = [filter |-> w.filter, sort |-> w.sort, then |-> w.then]

StatsShape ==
    /\ version \in Nat
    /\ DOMAIN reading = Readers /\ reading = [c \in Readers |-> reading[c]]
    /\ DOMAIN wanted = Readers /\ wanted = [c \in Readers |-> wanted[c]]
    /\ DOMAIN built = Readers /\ built = [c \in Readers |-> built[c]]
    /\ DOMAIN cache = Readers /\ cache = [c \in Readers |-> cache[c]]
    /\ \A c \in Readers : IsResult(built[c]) /\ IsResult(cache[c]) /\ IsWanted(wanted[c])

Questions == Asked \cup {Overall}

\* What a result says while its version is the present one.
Current(result) ==
    /\ result.rounds = ResultFor(result.filter)
    /\ result.data = TotalsOf(result.filter, result.rounds)
    /\ \A s \in result.sorted : s.keys = RecordOrder(rounds, result.rounds, s.by)

\* A handler between its two looks at the version builds for the filter it
\* answers; the version it has read is not ahead, and while it is the present
\* one, what the query returned is still the answer.
Building(c) ==
    /\ wanted[c].sort \in Orders /\ wanted[c].then \in {"idle", "refresh", "sort"}
    /\ reading[c] \in {"version", "query", "compare", "store"} =>
         wanted[c].filter \in Questions
    /\ reading[c] = "sort" => cache[c] # NoResult
    /\ reading[c] \in {"query", "compare", "store"} =>
         /\ built[c].filter = wanted[c].filter
         /\ built[c].version \in Nat /\ built[c].version <= version
         /\ built[c].sorted = {}
    /\ reading[c] \in {"compare", "store"} /\ built[c].version = version =>
         /\ built[c].rounds = ResultFor(built[c].filter)
         /\ reading[c] = "store" \/ built[c].filter # Overall =>
              built[c].data = TotalsOf(built[c].filter, built[c].rounds)

\* A result that is kept answers a question of its reader; its version is not
\* ahead, and while it is the present one, the result is current.
Kept(c) ==
    /\ cache[c].version \in Nat /\ cache[c].version <= version
    /\ \A s \in cache[c].sorted : s.by \in Orders
    /\ cache[c] # NoResult => cache[c].filter \in Questions
    /\ cache[c] # NoResult /\ cache[c].version = version => Current(cache[c])

CacheInv == StatsShape /\ \A c \in Readers : Building(c) /\ Kept(c)

\* What a reader is answered, what it adds up to and how it is ordered depends
\* on the rounds and their index alone.
LEMMA SameRoundsSameAnswer ==
    ASSUME rounds' = rounds, order' = order
    PROVE  /\ \A q : ResultFor(q)' = ResultFor(q)
           /\ \A q, keys : TotalsOf(q, keys)' = TotalsOf(q, keys)
           /\ \A r : Current(r)' <=> Current(r)
<1>1. \A q : ResultFor(q)' = ResultFor(q)
  BY DEF ResultFor
<1>2. \A q, keys : TotalsOf(q, keys)' = TotalsOf(q, keys)
  BY DEF TotalsOf
<1>3. \A r : Current(r)' <=> Current(r)
  BY <1>1, <1>2 DEF Current
<1> QED
  BY <1>1, <1>2, <1>3

\* The step of one reader.
LEMMA StepOf ==
    ASSUME StatsShape, NEW c \in Readers, NEW from, NEW to, Step(c, from, to)
    PROVE  /\ reading[c] = from
           /\ \A d \in Readers : reading'[d] = IF d = c THEN to ELSE reading[d]
           /\ DOMAIN reading' = Readers /\ reading' = [d \in Readers |-> reading'[d]]
BY DEF Step, StatsShape

LEMMA WantsOf ==
    ASSUME StatsShape, NEW c \in Readers, NEW w, Wants(c, w)
    PROVE  /\ \A d \in Readers : wanted'[d] = IF d # c THEN wanted[d]
                                              ELSE IF reading'[c] = "idle" THEN Nothing ELSE w
           /\ DOMAIN wanted' = Readers /\ wanted' = [d \in Readers |-> wanted'[d]]
BY DEF Wants, StatsShape

LEMMA EmptyResult ==
    /\ IsResult(NoResult) /\ NoResult.version = 0 /\ NoResult.sorted = {}
    /\ IsWanted(Nothing) /\ Nothing.sort \in Orders /\ Nothing.then = "idle"
BY DEF IsResult, NoResult, IsWanted, Nothing, Orders

\* Results with one field replaced.
LEMMA ChangedResult ==
    ASSUME NEW r, IsResult(r), NEW e
    PROVE  /\ [r EXCEPT !.filter = e] =
                [filter |-> e, version |-> r.version, rounds |-> r.rounds,
                 data |-> r.data, sorted |-> r.sorted]
           /\ [r EXCEPT !.version = e] =
                [filter |-> r.filter, version |-> e, rounds |-> r.rounds,
                 data |-> r.data, sorted |-> r.sorted]
           /\ [r EXCEPT !.rounds = e] =
                [filter |-> r.filter, version |-> r.version, rounds |-> e,
                 data |-> r.data, sorted |-> r.sorted]
           /\ [r EXCEPT !.data = e] =
                [filter |-> r.filter, version |-> r.version, rounds |-> r.rounds,
                 data |-> e, sorted |-> r.sorted]
           /\ [r EXCEPT !.sorted = e] =
                [filter |-> r.filter, version |-> r.version, rounds |-> r.rounds,
                 data |-> r.data, sorted |-> e]
<1> SUFFICES ASSUME NEW f, NEW v, NEW k, NEW d, NEW s,
                    r = [filter |-> f, version |-> v, rounds |-> k, data |-> d, sorted |-> s]
             PROVE  /\ [r EXCEPT !.filter = e] =
                         [filter |-> e, version |-> v, rounds |-> k, data |-> d, sorted |-> s]
                    /\ [r EXCEPT !.version = e] =
                         [filter |-> f, version |-> e, rounds |-> k, data |-> d, sorted |-> s]
                    /\ [r EXCEPT !.rounds = e] =
                         [filter |-> f, version |-> v, rounds |-> e, data |-> d, sorted |-> s]
                    /\ [r EXCEPT !.data = e] =
                         [filter |-> f, version |-> v, rounds |-> k, data |-> e, sorted |-> s]
                    /\ [r EXCEPT !.sorted = e] =
                         [filter |-> f, version |-> v, rounds |-> k, data |-> d, sorted |-> e]
  BY DEF IsResult
<1>1. [r EXCEPT !.filter = e] =
         [filter |-> e, version |-> v, rounds |-> k, data |-> d, sorted |-> s]
  OBVIOUS
<1>2. [r EXCEPT !.version = e] =
         [filter |-> f, version |-> e, rounds |-> k, data |-> d, sorted |-> s]
  OBVIOUS
<1>3. [r EXCEPT !.rounds = e] =
         [filter |-> f, version |-> v, rounds |-> e, data |-> d, sorted |-> s]
  OBVIOUS
<1>4. [r EXCEPT !.data = e] =
         [filter |-> f, version |-> v, rounds |-> k, data |-> e, sorted |-> s]
  OBVIOUS
<1>5. [r EXCEPT !.sorted = e] =
         [filter |-> f, version |-> v, rounds |-> k, data |-> d, sorted |-> e]
  OBVIOUS
<1> QED
  BY <1>1, <1>2, <1>3, <1>4, <1>5

LEMMA StatsInitInv == StatsInit => CacheInv
BY EmptyResult DEF StatsInit, CacheInv, StatsShape, Building, Kept

LEMMA LoadInv == ASSUME CacheInv, LoadFromDatabase PROVE CacheInv'
BY EmptyResult DEF LoadFromDatabase, CacheInv, StatsShape, Building, Kept

\* A round that is added raises the version, so that nothing is current.
LEMMA UpsertInv == ASSUME CacheInv, NEW record, Upsert(record) PROVE CacheInv'
<1>1. /\ version \in Nat /\ version' = version + 1
      /\ UNCHANGED <<reading, wanted, built, cache>>
  BY DEF CacheInv, StatsShape, Upsert
<1>2. StatsShape'
  BY <1>1 DEF CacheInv, StatsShape
<1>3. ASSUME NEW c \in Readers PROVE Building(c)'
  <2>1. reading[c] \in {"query", "compare", "store"} => built[c].version # version'
    BY <1>1 DEF CacheInv, Building
  <2> QED
    BY <1>1, <2>1 DEF CacheInv, Building
<1>4. ASSUME NEW c \in Readers PROVE Kept(c)'
  BY <1>1 DEF CacheInv, Kept
<1> QED
  BY <1>2, <1>3, <1>4 DEF CacheInv

\* A step of one reader leaves the others, and what they have read, alone.
LEMMA OneReader ==
    ASSUME CacheInv, NEW c \in Readers, UNCHANGED <<rounds, order, version>>, StatsShape',
           \A d \in Readers \ {c} : /\ reading'[d] = reading[d] /\ wanted'[d] = wanted[d]
                                    /\ built'[d] = built[d] /\ cache'[d] = cache[d],
           Building(c)', Kept(c)'
    PROVE  CacheInv'
<1>1. ASSUME NEW d \in Readers PROVE Building(d)' /\ Kept(d)'
  <2>1. CASE d = c
    BY <2>1
  <2>2. CASE d # c
    BY <2>2, SameRoundsSameAnswer DEF CacheInv, Building, Kept
  <2> QED
    BY <2>1, <2>2
<1> QED
  BY <1>1 DEF CacheInv

LEMMA NoFilterIsNoQuestion == NoFilter \notin Questions
BY FiltersAssumption DEF Questions

LEMMA OpenInv == ASSUME CacheInv, NEW c \in Readers, OpenStats(c) PROVE CacheInv'
<1>1. StatsShape /\ UNCHANGED <<rounds, order, version, wanted, built, cache>> /\ Step(c, "closed", "idle")
  BY DEF OpenStats, CacheInv
<1>2. StatsShape'
  BY <1>1, StepOf DEF StatsShape
<1>3. Building(c)' /\ Kept(c)'
  BY <1>1, StepOf, SameRoundsSameAnswer DEF CacheInv, Building, Kept
<1> QED
  BY <1>1, <1>2, <1>3, StepOf, OneReader

LEMMA CloseInv == ASSUME CacheInv, NEW c \in Readers, CloseStats(c) PROVE CacheInv'
<1>1. /\ StatsShape /\ UNCHANGED <<rounds, order, version, wanted, built>> /\ Step(c, "idle", "closed")
      /\ cache' = [cache EXCEPT ![c] = NoResult]
  BY DEF CloseStats, CacheInv
<1>2. StatsShape'
  BY <1>1, StepOf, EmptyResult DEF StatsShape
<1>3. Building(c)' /\ Kept(c)'
  BY <1>1, StepOf, EmptyResult DEF CacheInv, Building, Kept, StatsShape
<1> QED
  BY <1>1, <1>2, <1>3, StepOf, OneReader DEF StatsShape

LEMMA AskStatsInv ==
    ASSUME CacheInv, NEW c \in Readers, NEW q \in Questions, AskStats(c, q)
    PROVE  CacheInv'
<1> DEFINE then == IF q = Overall THEN "idle" ELSE "refresh"
           next == IF Reusable(c, q) THEN then ELSE "version"
           w == [filter |-> q, sort |-> <<"time", "desc">>, then |-> then]
<1>1. /\ StatsShape /\ UNCHANGED <<rounds, order, version, built, cache>>
      /\ Step(c, "idle", next) /\ Wants(c, w)
  BY DEF AskStats, CacheInv
<1>2. IsWanted(w) /\ w.sort \in Orders /\ w.filter = q /\ w.then \in {"idle", "refresh", "sort"}
  BY DEF IsWanted, Orders
<1>3. reading'[c] = next /\ next \in {"idle", "refresh", "version"}
  BY <1>1, StepOf
<1>4. wanted'[c] = Nothing \/ wanted'[c] = w
  BY <1>1, WantsOf
<1>5. reading'[c] = "version" => wanted'[c] = w
  BY <1>1, WantsOf
<1> HIDE DEF then, next, w
<1>6. \A d \in Readers \ {c} : reading'[d] = reading[d] /\ wanted'[d] = wanted[d]
  BY <1>1, StepOf, WantsOf
<1>7. StatsShape'
  BY <1>1, <1>2, <1>4, <1>6, StepOf, WantsOf, EmptyResult DEF StatsShape
<1>8. Building(c)'
  BY <1>1, <1>2, <1>3, <1>4, <1>5, EmptyResult DEF Building
<1>9. Kept(c)'
  BY <1>1, SameRoundsSameAnswer DEF CacheInv, Kept
<1> QED
  BY <1>1, <1>6, <1>7, <1>8, <1>9, OneReader

LEMMA AskRecordsInv ==
    ASSUME CacheInv, NEW c \in Readers, NEW sort \in Sorts, AskRecords(c, sort)
    PROVE  CacheInv'
<1> DEFINE w == [filter |-> NoFilter, sort |-> sort, then |-> "sort"]
<1>1. /\ StatsShape /\ UNCHANGED <<rounds, order, version, built, cache>>
      /\ Step(c, "idle", "refresh") /\ Wants(c, w)
  BY DEF AskRecords, CacheInv
<1>2. IsWanted(w) /\ w.sort \in Orders /\ w.then = "sort"
  BY SortsAssumption DEF IsWanted
<1> HIDE DEF w
<1>3. reading'[c] = "refresh" /\ wanted'[c] = w
  BY <1>1, StepOf, WantsOf
<1>4. \A d \in Readers \ {c} : reading'[d] = reading[d] /\ wanted'[d] = wanted[d]
  BY <1>1, StepOf, WantsOf
<1>5. StatsShape'
  BY <1>1, <1>2, <1>3, <1>4, StepOf, WantsOf DEF StatsShape
<1>6. Building(c)'
  BY <1>2, <1>3 DEF Building
<1>7. Kept(c)'
  BY <1>1, SameRoundsSameAnswer DEF CacheInv, Kept
<1> QED
  BY <1>1, <1>4, <1>5, <1>6, <1>7, OneReader

\* An outdated result is built again for its own filter, one that is there is
\* sorted.
LEMMA RefreshInv == ASSUME CacheInv, NEW c \in Readers, RefreshForRecords(c) PROVE CacheInv'
<1> DEFINE next == IF cache[c] = NoResult THEN "idle"
                   ELSE IF cache[c].version = version THEN "sort" ELSE "version"
           w == [filter |-> cache[c].filter, sort |-> wanted[c].sort, then |-> "sort"]
<1>1. /\ StatsShape /\ UNCHANGED <<rounds, order, version, built, cache>>
      /\ Step(c, "refresh", next) /\ Wants(c, w)
  BY DEF RefreshForRecords, CacheInv
<1>2. IsWanted(w) /\ w.sort \in Orders /\ w.filter = cache[c].filter /\ w.then = "sort"
  BY DEF IsWanted, CacheInv, Building
<1>3. reading'[c] = next /\ next \in {"idle", "sort", "version"}
  BY <1>1, StepOf
<1>4. next # "idle" => cache[c] # NoResult /\ cache[c].filter \in Questions
  BY DEF CacheInv, Kept
<1>5. wanted'[c] = IF next = "idle" THEN Nothing ELSE w
  BY <1>1, <1>3, WantsOf
<1> HIDE DEF next, w
<1>6. \A d \in Readers \ {c} : reading'[d] = reading[d] /\ wanted'[d] = wanted[d]
  BY <1>1, StepOf, WantsOf
<1>7. StatsShape'
  BY <1>1, <1>2, <1>5, <1>6, StepOf, WantsOf, EmptyResult DEF StatsShape
<1>8. Building(c)'
  BY <1>1, <1>2, <1>3, <1>4, <1>5, EmptyResult DEF Building
<1>9. Kept(c)'
  BY <1>1, SameRoundsSameAnswer DEF CacheInv, Kept
<1> QED
  BY <1>1, <1>6, <1>7, <1>8, <1>9, OneReader

LEMMA ReadVersionInv == ASSUME CacheInv, NEW c \in Readers, ReadVersion(c) PROVE CacheInv'
<1> DEFINE b == [NoResult EXCEPT !.filter = wanted[c].filter, !.version = version]
<1>1. /\ StatsShape /\ UNCHANGED <<rounds, order, version, wanted, cache>>
      /\ Step(c, "version", "query") /\ built' = [built EXCEPT ![c] = b]
  BY DEF ReadVersion, CacheInv
<1>2. b = [filter |-> wanted[c].filter, version |-> version, rounds |-> NoResult.rounds,
           data |-> NoResult.data, sorted |-> NoResult.sorted]
  <2> DEFINE x == [NoResult EXCEPT !.filter = wanted[c].filter]
  <2>1. b = [x EXCEPT !.version = version]
    BY Zenon
  <2>2. x = [filter |-> wanted[c].filter, version |-> NoResult.version, rounds |-> NoResult.rounds,
             data |-> NoResult.data, sorted |-> NoResult.sorted]
    BY EmptyResult, ChangedResult
  <2> HIDE DEF b, x
  <2> QED
    BY <2>1, <2>2, ChangedResult DEF IsResult
<1> HIDE DEF b
<1>3. /\ IsResult(b) /\ b.sorted = {}
      /\ b.filter = wanted[c].filter /\ b.version = version
  BY <1>2, EmptyResult DEF IsResult
<1>4. built'[c] = b /\ \A d \in Readers \ {c} : built'[d] = built[d] /\ reading'[d] = reading[d]
  BY <1>1, StepOf DEF StatsShape
<1>5. StatsShape'
  BY <1>1, <1>3, <1>4, StepOf DEF StatsShape
<1>6. Building(c)'
  BY <1>1, <1>3, <1>4, StepOf DEF CacheInv, Building, StatsShape
<1>7. Kept(c)'
  BY <1>1, SameRoundsSameAnswer DEF CacheInv, Kept
<1> QED
  BY <1>1, <1>4, <1>5, <1>6, <1>7, OneReader

\* Whatever happens between the two looks at the version: if the first one was
\* at the present version, the query is the present answer.
LEMMA RunQueryInv == ASSUME CacheInv, NEW c \in Readers, RunQuery(c) PROVE CacheInv'
<1> DEFINE q == wanted[c].filter
           totals == IF q = Overall THEN NoData ELSE TotalsOf(q, ResultFor(q))
           b == [built[c] EXCEPT !.rounds = ResultFor(q), !.data = totals]
<1>1. /\ StatsShape /\ UNCHANGED <<rounds, order, version, wanted, cache>>
      /\ Step(c, "query", "compare") /\ built' = [built EXCEPT ![c] = b]
  BY DEF RunQuery, CacheInv
<1>2. /\ IsResult(b) /\ b.sorted = built[c].sorted /\ b.filter = built[c].filter
      /\ b.version = built[c].version /\ b.rounds = ResultFor(q) /\ b.data = totals
  <2> HIDE DEF totals, q
  <2>1. IsResult(built[c])
    BY <1>1 DEF StatsShape
  <2> DEFINE x == [built[c] EXCEPT !.rounds = ResultFor(q)]
  <2>2. b = [x EXCEPT !.data = totals]
    BY Zenon
  <2>3. x = [filter |-> built[c].filter, version |-> built[c].version, rounds |-> ResultFor(q),
             data |-> built[c].data, sorted |-> built[c].sorted]
    BY <2>1, ChangedResult
  <2> HIDE DEF x
  <2>4. b = [filter |-> built[c].filter, version |-> built[c].version, rounds |-> ResultFor(q),
             data |-> totals, sorted |-> built[c].sorted]
    BY <2>2, <2>3, ChangedResult DEF IsResult
  <2> HIDE DEF b
  <2> QED
    BY <2>4 DEF IsResult
<1>3. q # Overall => totals = TotalsOf(q, ResultFor(q))
  OBVIOUS
<1> HIDE DEF b, totals
<1>4. built'[c] = b /\ \A d \in Readers \ {c} : built'[d] = built[d] /\ reading'[d] = reading[d]
  BY <1>1, StepOf DEF StatsShape
<1>5. StatsShape'
  BY <1>1, <1>2, <1>4, StepOf DEF StatsShape
<1>6. Building(c)'
  BY <1>1, <1>2, <1>3, <1>4, StepOf, SameRoundsSameAnswer DEF CacheInv, Building
<1>7. Kept(c)'
  BY <1>1, SameRoundsSameAnswer DEF CacheInv, Kept
<1> QED
  BY <1>1, <1>4, <1>5, <1>6, <1>7, OneReader

LEMMA CompareInv == ASSUME CacheInv, NEW c \in Readers, Compare(c) PROVE CacheInv'
<1> DEFINE same == built[c].version = version
           total == same /\ wanted[c].filter = Overall
           b == IF total THEN [built[c] EXCEPT !.data = TotalsOf(Overall, built[c].rounds)] ELSE built[c]
<1>1. /\ StatsShape /\ UNCHANGED <<rounds, order, version, wanted, cache>>
      /\ Step(c, "compare", IF same THEN "store" ELSE "version")
      /\ built' = [built EXCEPT ![c] = b]
  BY DEF Compare, CacheInv, StatsShape
<1>2. /\ IsResult(b) /\ b.sorted = built[c].sorted /\ b.filter = built[c].filter
      /\ b.version = built[c].version /\ b.rounds = built[c].rounds
      /\ b.data = IF total THEN TotalsOf(Overall, built[c].rounds) ELSE built[c].data
  BY <1>1 DEF IsResult, StatsShape
<1> HIDE DEF b
<1>3. built'[c] = b /\ \A d \in Readers \ {c} : built'[d] = built[d] /\ reading'[d] = reading[d]
  BY <1>1, StepOf DEF StatsShape
<1>4. StatsShape'
  BY <1>1, <1>2, <1>3, StepOf DEF StatsShape
<1>5. Building(c)'
  BY <1>1, <1>2, <1>3, StepOf, SameRoundsSameAnswer DEF CacheInv, Building
<1>6. Kept(c)'
  BY <1>1, SameRoundsSameAnswer DEF CacheInv, Kept
<1> QED
  BY <1>1, <1>3, <1>4, <1>5, <1>6, OneReader

\* A result may be outdated when it is kept; if it is not, it is the answer.
LEMMA StoreInv == ASSUME CacheInv, NEW c \in Readers, Store(c) PROVE CacheInv'
<1>1. /\ StatsShape /\ UNCHANGED <<rounds, order, version>>
      /\ Step(c, "store", wanted[c].then) /\ Wants(c, wanted[c])
      /\ cache' = [cache EXCEPT ![c] = built[c]] /\ built' = [built EXCEPT ![c] = NoResult]
  BY DEF Store, CacheInv
<1>2. /\ reading[c] = "store" /\ wanted[c].then = reading'[c]
      /\ wanted'[c] = wanted[c] \/ wanted'[c] = Nothing
  BY <1>1, StepOf, WantsOf
<1>3. \A d \in Readers \ {c} : reading'[d] = reading[d] /\ wanted'[d] = wanted[d]
                                /\ built'[d] = built[d] /\ cache'[d] = cache[d]
  <2>1. \A d \in Readers \ {c} : reading'[d] = reading[d] /\ wanted'[d] = wanted[d]
    BY <1>1, StepOf, WantsOf
  <2>2. \A d \in Readers \ {c} : built'[d] = built[d] /\ cache'[d] = cache[d]
    BY <1>1 DEF StatsShape
  <2> QED
    BY <2>1, <2>2
<1>4. cache'[c] = built[c] /\ built'[c] = NoResult
  BY <1>1 DEF StatsShape
<1>5. StatsShape'
  <2>1. \A d \in Readers : IsResult(built'[d]) /\ IsResult(cache'[d]) /\ IsWanted(wanted'[d])
    BY <1>1, <1>2, <1>3, <1>4, EmptyResult DEF StatsShape
  <2>2. /\ DOMAIN reading' = Readers /\ reading' = [d \in Readers |-> reading'[d]]
        /\ DOMAIN wanted' = Readers /\ wanted' = [d \in Readers |-> wanted'[d]]
    BY <1>1, StepOf, WantsOf
  <2>3. /\ version' \in Nat
        /\ DOMAIN built' = Readers /\ built' = [d \in Readers |-> built'[d]]
        /\ DOMAIN cache' = Readers /\ cache' = [d \in Readers |-> cache'[d]]
    BY <1>1 DEF StatsShape
  <2> QED
    BY <2>1, <2>2, <2>3 DEF StatsShape
<1>6. built[c].filter \in Questions /\ built[c] # NoResult
  BY <1>2, NoFilterIsNoQuestion DEF CacheInv, Building, NoResult
<1>7. Building(c)'
  <2>1. wanted'[c].sort \in Orders /\ wanted'[c].then \in {"idle", "refresh", "sort"}
    BY <1>2, EmptyResult DEF CacheInv, Building
  <2>2. reading'[c] \in {"idle", "refresh", "sort"}
    BY <1>2 DEF CacheInv, Building
  <2> QED
    BY <1>4, <1>6, <2>1, <2>2 DEF Building
<1>8. Kept(c)'
  <2>1. built[c].version = version => Current(built[c])
    BY <1>2 DEF CacheInv, Building, Current
  <2> QED
    BY <1>1, <1>2, <1>4, <1>6, <2>1, SameRoundsSameAnswer DEF CacheInv, Building, Kept
<1> QED
  BY <1>1, <1>3, <1>5, <1>7, <1>8, OneReader

\* An order is made of the rounds of the result, which is the present one
\* whenever it matters.
LEMMA SortInv == ASSUME CacheInv, NEW c \in Readers, Sort(c) PROVE CacheInv'
<1> DEFINE addition == [by |-> wanted[c].sort, keys |-> RecordOrder(rounds, cache[c].rounds, wanted[c].sort)]
           kept == IF \E s \in cache[c].sorted : s.by = wanted[c].sort THEN cache[c]
                   ELSE [cache[c] EXCEPT !.sorted = @ \cup {addition}]
<1>1. /\ StatsShape /\ UNCHANGED <<rounds, order, version, built>>
      /\ Step(c, "sort", "idle") /\ Wants(c, wanted[c])
      /\ cache' = [cache EXCEPT ![c] = kept]
  BY DEF Sort, CacheInv, StatsShape
<1>2. /\ IsResult(kept) /\ kept.filter = cache[c].filter /\ kept.version = cache[c].version
      /\ kept.rounds = cache[c].rounds /\ kept.data = cache[c].data
      /\ kept.sorted \subseteq cache[c].sorted \cup {addition}
  <2> HIDE DEF addition
  <2>1. CASE \E s \in cache[c].sorted : s.by = wanted[c].sort
    BY <1>1, <2>1 DEF StatsShape
  <2>2. CASE ~\E s \in cache[c].sorted : s.by = wanted[c].sort
    <3>1. kept = [filter |-> cache[c].filter, version |-> cache[c].version, rounds |-> cache[c].rounds,
                  data |-> cache[c].data, sorted |-> cache[c].sorted \cup {addition}]
      BY <1>1, <2>2, ChangedResult DEF StatsShape
    <3> HIDE DEF kept
    <3> QED
      BY <3>1 DEF IsResult
  <2> QED
    BY <2>1, <2>2
<1>3. addition.by \in Orders /\ addition.keys = RecordOrder(rounds, kept.rounds, addition.by)
  BY <1>2 DEF CacheInv, Building
<1> HIDE DEF addition, kept
<1>4. /\ reading[c] = "sort" /\ reading'[c] = "idle" /\ wanted'[c] = Nothing
      /\ cache'[c] = kept /\ built'[c] = built[c]
      /\ \A d \in Readers \ {c} : reading'[d] = reading[d] /\ wanted'[d] = wanted[d]
                                   /\ built'[d] = built[d] /\ cache'[d] = cache[d]
  BY <1>1, StepOf, WantsOf DEF StatsShape
<1>5. StatsShape'
  BY <1>1, <1>2, <1>4, StepOf, WantsOf, EmptyResult DEF StatsShape
<1>6. Building(c)'
  BY <1>4, EmptyResult DEF Building
<1>7. Kept(c)'
  <2>1. cache[c] # NoResult /\ cache[c].filter \in Questions /\ kept # NoResult
    BY <1>2, <1>4, NoFilterIsNoQuestion DEF CacheInv, Building, Kept, NoResult
  <2>2. cache[c].version = version => Current(kept)
    BY <1>2, <1>3, <2>1 DEF CacheInv, Kept, Current
  <2>3. \A s \in kept.sorted : s.by \in Orders
    BY <1>2, <1>3 DEF CacheInv, Kept
  <2> QED
    BY <1>1, <1>2, <1>4, <2>1, <2>2, <2>3, SameRoundsSameAnswer DEF CacheInv, Kept
<1> QED
  BY <1>1, <1>4, <1>5, <1>6, <1>7, OneReader

LEMMA StatsStepInv == CacheInv /\ [StatsNext]_statsVars => CacheInv'
<1> SUFFICES ASSUME CacheInv, [StatsNext]_statsVars PROVE CacheInv'
  OBVIOUS
<1>1. CASE \E record \in Records : Upsert(record)
  BY <1>1, UpsertInv
<1>2. CASE LoadFromDatabase
  BY <1>2, LoadInv
<1>3. ASSUME NEW c \in Readers,
             \/ OpenStats(c) \/ CloseStats(c)
             \/ \E q \in Asked \cup {Overall} : AskStats(c, q)
             \/ \E sort \in Sorts : AskRecords(c, sort)
             \/ RefreshForRecords(c) \/ ReadVersion(c) \/ RunQuery(c)
             \/ Compare(c) \/ Store(c) \/ Sort(c)
      PROVE  CacheInv'
  BY <1>3, OpenInv, CloseInv, AskStatsInv, AskRecordsInv, RefreshInv, ReadVersionInv,
     RunQueryInv, CompareInv, StoreInv, SortInv DEF Questions
<1>4. CASE UNCHANGED statsVars
  BY <1>4, SameRoundsSameAnswer DEF statsVars, CacheInv, StatsShape, Building, Kept
<1> QED
  BY <1>1, <1>2, <1>3, <1>4 DEF StatsNext

\* If what the service answers now is right, whatever the present rounds are,
\* then so is every cached result that is still used: keeping results adds
\* no error of its own, in any order of additions, restarts and the steps of
\* any number of readers.
LEMMA CacheAsTrue == StatsSpec => [](AnswersTrue => CacheTrue)
<1>1. CacheInv => (AnswersTrue => CacheTrue)
  <2> SUFFICES ASSUME CacheInv, AnswersTrue, NEW c \in Readers,
                      cache[c] # NoResult, cache[c].version = version
               PROVE  LET result == cache[c]
                          found == EntriesOf(rounds, result.rounds)
                      IN  /\ found = Wanted(result.filter)
                          /\ InOrder(result.rounds, <<"time", "desc">>)
                          /\ result.data = Collection(PlayerOf(result.filter), found)
                          /\ \A s \in result.sorted :
                               /\ EntriesOf(rounds, s.keys) = found
                               /\ Len(s.keys) = Len(result.rounds)
                               /\ InOrder(s.keys, s.by)
    BY DEF CacheTrue
  <2>1. cache[c].filter \in Questions /\ Current(cache[c])
    BY DEF CacheInv, Kept
  <2>2. \A s \in cache[c].sorted : s.by \in Orders
    BY DEF CacheInv, Kept
  <2> QED
    BY <2>1, <2>2 DEF AnswersTrue, Questions, Current, TotalsOf
<1> QED
  BY <1>1, StatsInitInv, StatsStepInv, PTL DEF StatsSpec

-----------------------------------------------------------------------------
(* Sums over finite sets, as the totals of a collection are made.            *)

\* Every family of subsets of a finite set has a smallest member: induction
\* over finite sets, as a statement about sets.
LEMMA MinimalSubset ==
    ASSUME NEW S, IsFiniteSet(S), NEW T, T \subseteq SUBSET S, T # {}
    PROVE  \E m \in T : \A t \in T : t \subseteq m => t = m
<1>1. IsWellFoundedOn(StrictSubsetOrdering(S), SUBSET S)
  BY FS_StrictSubsetOrderingWellFounded, FS_FiniteSubsetsOfFinite
<1>2. PICK m \in T : \A t \in T : <<t, m>> \notin StrictSubsetOrdering(S)
  BY <1>1, WFMin, Zenon
<1> QED
  BY <1>2 DEF StrictSubsetOrdering

\* What the folds of the community modules compute: the sum of F over s, one
\* element of s after the other.
First(s) == CHOOSE x \in s : TRUE
Adds(g, S, F) ==
    g = [s \in SUBSET S |-> IF s = {} THEN 0 ELSE F[First(s)] + g[s \ {First(s)}]]

\* Any element may be taken first.
IsSum(g, S, F) ==
    /\ g \in [SUBSET S -> Int] /\ g[{}] = 0
    /\ \A s \in SUBSET S : \A x \in s : g[s] = F[x] + g[s \ {x}]

\* The element that is taken first is one of them.
LEMMA FirstIsIn == ASSUME NEW s, s # {} PROVE First(s) \in s
BY DEF First

\* Of two sums of the same numbers none can differ first.
LEMMA SumsAgree ==
    ASSUME NEW A, NEW B, NEW F, NEW g, NEW h, Adds(g, A, F), Adds(h, B, F),
           IsFiniteSet(A), NEW s \in SUBSET A, s \in SUBSET B
    PROVE  g[s] = h[s]
<1> DEFINE T == {t \in SUBSET A : t \subseteq B /\ g[t] # h[t]}
<1>1. SUFFICES ASSUME T # {} PROVE FALSE
  OBVIOUS
<1>2. PICK m \in T : \A t \in T : t \subseteq m => t = m
  <2> HIDE DEF T
  <2>1. T \subseteq SUBSET A
    BY DEF T
  <2> QED
    BY <1>1, <2>1, MinimalSubset
<1>3. m # {}
  BY <1>2 DEF Adds
<1> DEFINE x == First(m)
<1>4. x \in m
  BY <1>3, FirstIsIn
<1>5. g[m] = F[x] + g[m \ {x}] /\ h[m] = F[x] + h[m \ {x}]
  BY <1>2, <1>3 DEF Adds
<1>6. g[m \ {x}] = h[m \ {x}]
  <2> HIDE DEF x
  <2>1. m \ {x} \notin T
    BY <1>2, <1>4
  <2> QED
    BY <1>2, <2>1
<1> QED
  BY <1>2, <1>5, <1>6

\* Such a sum exists: the folds really compute something.
LEMMA SumExists ==
    ASSUME NEW S, IsFiniteSet(S), NEW F
    PROVE  \E g : Adds(g, S, F)
<1> DEFINE T == {s \in SUBSET S : ~ \E g : Adds(g, s, F)}
           G(s) == CHOOSE g : Adds(g, s, F)
<1>1. SUFFICES ASSUME T # {} PROVE FALSE
  BY DEF T
<1>2. PICK m \in T : \A t \in T : t \subseteq m => t = m
  <2> HIDE DEF T
  <2>1. T \subseteq SUBSET S
    BY DEF T
  <2> QED
    BY <1>1, <2>1, MinimalSubset
<1>3. ASSUME NEW t \in SUBSET m, t # m PROVE Adds(G(t), t, F)
  <2>1. \E g : Adds(g, t, F)
    BY <1>2, <1>3
  <2> QED
    BY <2>1
<1>4. ASSUME NEW t \in SUBSET m, t # m, t # {}
      PROVE  G(t)[t] = F[First(t)] + G(t \ {First(t)})[t \ {First(t)}]
  <2> DEFINE u == t \ {First(t)}
  <2>1. u \in SUBSET m /\ u # m /\ u \in SUBSET t
    BY <1>4
  <2>2. Adds(G(t), t, F) /\ Adds(G(u), u, F)
    BY <1>3, <1>4, <2>1
  <2>3. IsFiniteSet(t)
    BY FS_Subset, <1>2
  <2> HIDE DEF G, u
  <2>4. G(t)[u] = G(u)[u]
    BY <2>1, <2>2, <2>3, SumsAgree
  <2>5. G(t)[t] = F[First(t)] + G(t)[u]
    BY <1>4, <2>2 DEF Adds, u
  <2> QED
    BY <2>4, <2>5 DEF u
<1> DEFINE V(t) == IF t = {} THEN 0 ELSE F[First(t)] + G(t \ {First(t)})[t \ {First(t)}]
           h == [t \in SUBSET m |-> V(t)]
<1>5. ASSUME NEW t \in SUBSET m, t # m PROVE V(t) = G(t)[t]
  <2>1. CASE t = {}
    <3> HIDE DEF G
    <3>1. Adds(G(t), t, F)
      BY <1>3, <1>5
    <3>2. G(t)[t] = 0
      BY <2>1, <3>1 DEF Adds
    <3> QED
      BY <2>1, <3>2
  <2>2. CASE t # {}
    BY <1>4, <1>5, <2>2
  <2> QED
    BY <2>1, <2>2
<1>6. Adds(h, m, F)
  <2>1. ASSUME NEW t \in SUBSET m, t # {}
        PROVE  h[t \ {First(t)}] = G(t \ {First(t)})[t \ {First(t)}]
    <3> DEFINE u == t \ {First(t)}
    <3>1. First(t) \in t
      BY <2>1, FirstIsIn
    <3>2. u \in SUBSET m /\ u # m
      BY <3>1
    <3>3. h[u] = V(u)
      BY <3>2
    <3>4. V(u) = G(u)[u]
      BY <3>2, <1>5
    <3> QED
      BY <3>3, <3>4
  <2> HIDE DEF G
  <2> QED
    BY <2>1 DEF Adds
<1> QED
  BY <1>2, <1>6

\* It is a number, and the order of the elements does not matter.
LEMMA SumByAny ==
    ASSUME NEW S, IsFiniteSet(S), NEW F \in [S -> Int], NEW g, Adds(g, S, F)
    PROVE  IsSum(g, S, F)
<1>0. g[{}] = 0
  BY DEF Adds
<1>1. \A s \in SUBSET S : g[s] \in Int
  <2> DEFINE T == {s \in SUBSET S : g[s] \notin Int}
  <2>1. SUFFICES ASSUME T # {} PROVE FALSE
    OBVIOUS
  <2>2. PICK m \in T : \A t \in T : t \subseteq m => t = m
    <3> HIDE DEF T
    <3>1. T \subseteq SUBSET S
      BY DEF T
    <3> QED
      BY <2>1, <3>1, MinimalSubset
  <2>3. m # {}
    <3>1. g[m] \notin Int
      BY <2>2
    <3> QED
      BY <3>1, <1>0
  <2>4. First(m) \in m
    BY <2>3, FirstIsIn
  <2>5. m \ {First(m)} \notin T
    BY <2>2, <2>4
  <2>6. g[m] = F[First(m)] + g[m \ {First(m)}]
    BY <2>2, <2>3 DEF Adds
  <2> QED
    BY <2>2, <2>4, <2>5, <2>6
<1>2. g \in [SUBSET S -> Int]
  BY <1>1 DEF Adds
<1>3. \A s \in SUBSET S : \A x \in s : g[s] = F[x] + g[s \ {x}]
  <2> DEFINE T == {s \in SUBSET S : \E x \in s : g[s] # F[x] + g[s \ {x}]}
  <2>1. SUFFICES ASSUME T # {} PROVE FALSE
    OBVIOUS
  <2>2. PICK m \in T : \A t \in T : t \subseteq m => t = m
    <3> HIDE DEF T
    <3>1. T \subseteq SUBSET S
      BY DEF T
    <3> QED
      BY <2>1, <3>1, MinimalSubset
  <2>3. PICK x \in m : g[m] # F[x] + g[m \ {x}]
    BY <2>2
  <2> DEFINE y == First(m)
  <2>4. y \in m
    BY <2>3, FirstIsIn
  <2>5. g[m] = F[y] + g[m \ {y}]
    BY <2>2, <2>3 DEF Adds
  <2> HIDE DEF y
  <2>6. x # y
    BY <2>3, <2>5
  <2>7. m \ {y} \notin T /\ m \ {x} \notin T
    BY <2>2, <2>3, <2>4
  <2>8. m \ {y} \in SUBSET S /\ x \in m \ {y} /\ m \ {x} \in SUBSET S /\ y \in m \ {x}
    BY <2>2, <2>3, <2>4, <2>6
  <2> DEFINE u == (m \ {x}) \ {y}
  <2>9. (m \ {y}) \ {x} = u
    OBVIOUS
  <2>10. g[m \ {y}] = F[x] + g[u] /\ g[m \ {x}] = F[y] + g[u]
    BY <2>7, <2>8, <2>9
  <2>11. g[u] \in Int /\ F[x] \in Int /\ F[y] \in Int
    BY <1>1, <2>8, <2>2, <2>3, <2>4
  <2> HIDE DEF u, T
  <2> QED
    BY <2>3, <2>5, <2>10, <2>11
<1> QED
  BY <1>0, <1>2, <1>3 DEF IsSum

\* One element more or less, in the part of a sum that counts.
LEMMA SumStep ==
    ASSUME NEW W, IsFiniteSet(W), NEW F \in [W -> Int], NEW g, Adds(g, W, F)
    PROVE  \A m : \A x \in m :
             /\ g[m \intersect W] = (IF x \in W THEN F[x] ELSE 0) + g[(m \ {x}) \intersect W]
             /\ g[(m \ {x}) \intersect W] \in Int
<1> SUFFICES ASSUME NEW m, NEW x \in m
             PROVE  /\ g[m \intersect W] = (IF x \in W THEN F[x] ELSE 0) + g[(m \ {x}) \intersect W]
                    /\ g[(m \ {x}) \intersect W] \in Int
  OBVIOUS
<1>1. g \in [SUBSET W -> Int] /\ \A s \in SUBSET W : \A y \in s : g[s] = F[y] + g[s \ {y}]
  BY SumByAny DEF IsSum
<1> DEFINE s == m \intersect W
           t == (m \ {x}) \intersect W
<1>2. s \in SUBSET W /\ t \in SUBSET W
  OBVIOUS
<1>3. g[t] \in Int
  <2> HIDE DEF s, t
  <2> QED
    BY <1>1, <1>2
<1>4. CASE x \in W
  <2>1. t = s \ {x} /\ x \in s
    BY <1>4
  <2>2. g[s] = F[x] + g[s \ {x}]
    BY <1>1, <1>2, <2>1, Zenon
  <2> HIDE DEF s, t
  <2>3. g[s] = F[x] + g[t]
    BY <2>1, <2>2
  <2> QED
    BY <1>3, <1>4, <2>3 DEF s, t
<1>5. CASE x \notin W
  <2>1. s = t
    BY <1>5
  <2> HIDE DEF s, t
  <2>2. g[s] = 0 + g[t]
    BY <1>3, <2>1
  <2> QED
    BY <1>3, <1>5, <2>2 DEF s, t
<1> QED
  BY <1>4, <1>5

\* Totals that agree for every element agree for all of them.
LEMMA SumsBalance ==
    ASSUME NEW S, IsFiniteSet(S), NEW W \in SUBSET S, NEW H \in SUBSET S, NEW D \in SUBSET S,
           NEW F \in [S -> Int], NEW f, Adds(f, S, F),
           NEW FW \in [W -> Int], NEW w, Adds(w, W, FW),
           NEW FH \in [H -> Int], NEW h, Adds(h, H, FH),
           NEW FD \in [D -> Int], NEW d, Adds(d, D, FD),
           \A x \in S : 3 * F[x] = 3 * ((IF x \in W THEN FW[x] ELSE 0) - (IF x \in H THEN FH[x] ELSE 0))
                                  - (IF x \in D THEN FD[x] ELSE 0)
    PROVE  3 * f[S] = 3 * (w[W] - h[H]) - d[D]
<1> DEFINE Balanced(s) == 3 * f[s \intersect S] = 3 * (w[s \intersect W] - h[s \intersect H]) - d[s \intersect D]
           T == {s \in SUBSET S : ~Balanced(s)}
<1>1. IsFiniteSet(W) /\ IsFiniteSet(H) /\ IsFiniteSet(D)
  BY FS_Subset
<1>2. Balanced({})
  <2>1. f[{}] = 0 /\ w[{}] = 0 /\ h[{}] = 0 /\ d[{}] = 0
    BY <1>1, SumByAny DEF IsSum
  <2>2. \A s : {} \intersect s = {}
    OBVIOUS
  <2> QED
    BY <2>1, <2>2
<1>3. ASSUME NEW m, NEW x \in m, x \in S, Balanced(m \ {x}) PROVE Balanced(m)
  <2> DEFINE n == m \ {x}
             a == IF x \in W THEN FW[x] ELSE 0
             b == IF x \in H THEN FH[x] ELSE 0
             c == IF x \in D THEN FD[x] ELSE 0
  <2>1. f[m \intersect S] = F[x] + f[n \intersect S] /\ f[n \intersect S] \in Int
    <3>1. \A k : \A y \in k :
            /\ f[k \intersect S] = (IF y \in S THEN F[y] ELSE 0) + f[(k \ {y}) \intersect S]
            /\ f[(k \ {y}) \intersect S] \in Int
      BY <1>1, SumStep, Zenon
    <3> QED
      BY <1>3, <3>1
  <2>2. w[m \intersect W] = a + w[n \intersect W] /\ w[n \intersect W] \in Int
    <3>1. \A k : \A y \in k :
            /\ w[k \intersect W] = (IF y \in W THEN FW[y] ELSE 0) + w[(k \ {y}) \intersect W]
            /\ w[(k \ {y}) \intersect W] \in Int
      BY <1>1, SumStep, Zenon
    <3> QED
      BY <1>3, <3>1
  <2>3. h[m \intersect H] = b + h[n \intersect H] /\ h[n \intersect H] \in Int
    <3>1. \A k : \A y \in k :
            /\ h[k \intersect H] = (IF y \in H THEN FH[y] ELSE 0) + h[(k \ {y}) \intersect H]
            /\ h[(k \ {y}) \intersect H] \in Int
      BY <1>1, SumStep, Zenon
    <3> QED
      BY <1>3, <3>1
  <2>4. d[m \intersect D] = c + d[n \intersect D] /\ d[n \intersect D] \in Int
    <3>1. \A k : \A y \in k :
            /\ d[k \intersect D] = (IF y \in D THEN FD[y] ELSE 0) + d[(k \ {y}) \intersect D]
            /\ d[(k \ {y}) \intersect D] \in Int
      BY <1>1, SumStep, Zenon
    <3> QED
      BY <1>3, <3>1
  <2>5. a \in Int /\ b \in Int /\ c \in Int /\ F[x] \in Int /\ 3 * F[x] = 3 * (a - b) - c
    BY <1>3
  <2>6. 3 * f[n \intersect S] = 3 * (w[n \intersect W] - h[n \intersect H]) - d[n \intersect D]
    BY <1>3
  <2> HIDE DEF n, a, b, c
  <2> QED
    BY <2>1, <2>2, <2>3, <2>4, <2>5, <2>6
<1>4. T = {}
  <2> SUFFICES ASSUME T # {} PROVE FALSE
    OBVIOUS
  <2>1. PICK m \in T : \A t \in T : t \subseteq m => t = m
    <3>1. T \subseteq SUBSET S
      OBVIOUS
    <3> HIDE DEF T
    <3> QED
      BY <3>1, MinimalSubset
  <2> HIDE DEF Balanced
  <2>2. PICK x \in m : TRUE
    BY <2>1, <1>2
  <2>3. m \ {x} \notin T
    BY <2>1, <2>2
  <2> QED
    BY <1>3, <2>1, <2>2, <2>3
<1>5. S \intersect S = S /\ S \intersect W = W /\ S \intersect H = H /\ S \intersect D = D
  OBVIOUS
<1>6. Balanced(S)
  <2> HIDE DEF Balanced
  <2> QED
    BY <1>4
<1> QED
  BY <1>5, <1>6

\* A table has finitely many seats.
LEMMA SeatsFinite == IsFiniteSet(StatSeats)
<1>1. 0 \in Int /\ 3 \in Int
  OBVIOUS
<1> QED
  BY <1>1, FS_Interval DEF StatSeats

\* A sum over the four seats of a table.
LEMMA FourSeats ==
    ASSUME NEW F \in [StatSeats -> Int], NEW g, Adds(g, StatSeats, F)
    PROVE  g[StatSeats] = F[0] + F[1] + F[2] + F[3]
<1>0. IsFiniteSet(StatSeats)
  BY SeatsFinite
<1>1. g[{}] = 0 /\ \A s \in SUBSET StatSeats : \A x \in s : g[s] = F[x] + g[s \ {x}]
  <2>1. IsSum(g, StatSeats, F)
    BY <1>0, SumByAny
  <2> QED
    BY <2>1 DEF IsSum
<1>2. StatSeats = {0, 1, 2, 3} /\ StatSeats \ {0} = {1, 2, 3}
  BY DEF StatSeats
<1>3. {1, 2, 3} \ {1} = {2, 3} /\ {2, 3} \ {2} = {3} /\ {3} \ {3} = {}
  OBVIOUS
<1>4. g[StatSeats] = F[0] + g[{1, 2, 3}]
  BY <1>1, <1>2
<1>5. g[{1, 2, 3}] = F[1] + g[{2, 3}]
  BY <1>1, <1>2, <1>3
<1>6. g[{2, 3}] = F[2] + g[{3}]
  BY <1>1, <1>2, <1>3
<1>7. g[{3}] = F[3] + 0
  BY <1>1, <1>2, <1>3
<1>8. F[0] \in Int /\ F[1] \in Int /\ F[2] \in Int /\ F[3] \in Int
  BY <1>2
<1> QED
  BY <1>4, <1>5, <1>6, <1>7, <1>8

-----------------------------------------------------------------------------
(* Totals                                                                    *)

\* The sums that Collection makes of points and of a player's gains, with the
\* fold of the community module written out.
PtSum(S) ==
    LET it == CHOOSE g : g = [s \in SUBSET S |->
            IF s = {} THEN 0
            ELSE 3 * Squares[(CHOOSE x \in s : TRUE).fan] + g[s \ {CHOOSE x \in s : TRUE}]]
    IN  it[S]
GainSum(S, p) ==
    LET it == CHOOSE g : g = [s \in SUBSET S |->
            IF s = {} THEN 0
            ELSE (IF p = Anyone THEN 0 ELSE PtGain(CHOOSE x \in s : TRUE, p))
                 + g[s \ {CHOOSE x \in s : TRUE}]]
    IN  it[S]

\* The totals of a collection are these sums.
LEMMA CollectionSums ==
    ASSUME NEW p, NEW rs
    PROVE  LET c == Collection(p, rs)
           IN  /\ c.tot_win_pt = PtSum({r \in rs : Won(p, r)})
               /\ c.tot_shoot_pt = PtSum({r \in rs : Shot(p, r)})
               /\ c.tot_selfdrawned_pt = PtSum({r \in rs : WasSelfDrawn(p, r)})
               /\ c.tot_round_pt = GainSum(rs, p)
<1>1. Collection(p, rs).tot_win_pt = PtSum({r \in rs : Won(p, r)})
  BY DEF Collection, Sets!MapThenSumSet, Sets!MapThenFoldSet, PtSum
<1>2. Collection(p, rs).tot_shoot_pt = PtSum({r \in rs : Shot(p, r)})
  BY DEF Collection, Sets!MapThenSumSet, Sets!MapThenFoldSet, PtSum
<1>3. Collection(p, rs).tot_selfdrawned_pt = PtSum({r \in rs : WasSelfDrawn(p, r)})
  BY DEF Collection, Sets!MapThenSumSet, Sets!MapThenFoldSet, PtSum
<1>4. Collection(p, rs).tot_round_pt = GainSum(rs, p)
  BY DEF Collection, Sets!MapThenSumSet, Sets!MapThenFoldSet, GainSum
<1> QED
  BY <1>1, <1>2, <1>3, <1>4

\* What a round gives a player is what add_round puts under won, shot and drawn
\* by another; a third of the latter is his.
LEMMA GainOfRound ==
    ASSUME NEW r, r \in RoundRecord, Sound(r), NEW p \in Nat, p # Bot, HasPlayer(r, p)
    PROVE  LET pt == 3 * Squares[r.fan]
           IN  /\ pt \in Int /\ PtGain(r, p) \in Int
               /\ 3 * PtGain(r, p) = 3 * ((IF Won(p, r) THEN pt ELSE 0) - (IF Shot(p, r) THEN pt ELSE 0))
                                     - (IF WasSelfDrawn(p, r) THEN pt ELSE 0)
<1>1. Squares[r.fan] \in Nat
  BY SquaresAssumption DEF RoundRecord
<1>2. p # Anyone
  BY DEF Anyone
<1>3. PtGain(r, p) \in Int
  BY <1>1 DEF PtGain
<1>4. CASE r.drawn
  BY <1>1, <1>4 DEF PtGain, Won, Shot, WasSelfDrawn
<1>5. CASE ~r.drawn /\ WinnerOf(r) = p
  <2>1. Won(p, r) /\ ~WasSelfDrawn(p, r)
    BY <1>5 DEF Won, WasSelfDrawn
  <2>2. ~Shot(p, r)
    BY <1>5 DEF Shot, WinnerOf, FromOf, PlayerAt, SelfDrawn, Sound
  <2>3. PtGain(r, p) = 3 * Squares[r.fan]
    BY <1>5 DEF PtGain
  <2> QED
    BY <1>1, <2>1, <2>2, <2>3
<1>6. CASE ~r.drawn /\ WinnerOf(r) # p /\ SelfDrawn(r)
  <2>1. ~Won(p, r) /\ ~Shot(p, r) /\ WasSelfDrawn(p, r)
    BY <1>2, <1>6 DEF Won, Shot, WasSelfDrawn
  <2>2. PtGain(r, p) = -Squares[r.fan]
    BY <1>6 DEF PtGain
  <2> QED
    BY <1>1, <2>1, <2>2
<1>7. CASE ~r.drawn /\ WinnerOf(r) # p /\ ~SelfDrawn(r)
  <2>1. ~Won(p, r) /\ ~WasSelfDrawn(p, r) /\ (Shot(p, r) <=> FromOf(r) = p)
    BY <1>2, <1>7 DEF Won, Shot, WasSelfDrawn
  <2>2. PtGain(r, p) = IF FromOf(r) = p THEN -(3 * Squares[r.fan]) ELSE 0
    BY <1>7 DEF PtGain
  <2> QED
    BY <1>1, <2>1, <2>2
<1> QED
  BY <1>1, <1>3, <1>4, <1>5, <1>6, <1>7

\* What the winner gets the others of the table lose.
LEMMA PointsCancel ==
    ASSUME NEW r, r \in RoundRecord, Sound(r), \A s \in StatSeats : r.players[s] # Bot
    PROVE  /\ \A s \in StatSeats : PtGain(r, r.players[s]) \in Int
           /\ PtGain(r, r.players[0]) + PtGain(r, r.players[1])
              + PtGain(r, r.players[2]) + PtGain(r, r.players[3]) = 0
<1> DEFINE n == Squares[r.fan]
           Gain(s) == PtGain(r, r.players[s])
<1>1. n \in Nat
  BY SquaresAssumption DEF RoundRecord
<1>2. \A s \in StatSeats : Gain(s) =
        IF r.drawn THEN 0
        ELSE IF s = r.winner THEN 3 * n
        ELSE IF ~SelfDrawn(r) /\ s = r.from THEN -(3 * n)
        ELSE IF SelfDrawn(r) THEN -n ELSE 0
  <2>1. CASE r.drawn
    BY <2>1 DEF PtGain
  <2>2. CASE ~r.drawn
    <3>1. /\ r.winner \in StatSeats /\ r.from \in StatSeats
          /\ \A s, t \in StatSeats : r.players[s] = r.players[t] <=> s = t
      BY <2>2 DEF Sound
    <3>2. WinnerOf(r) = r.players[r.winner] /\ FromOf(r) = r.players[r.from]
      BY <3>1 DEF WinnerOf, FromOf, PlayerAt
    <3> QED
      BY <2>2, <3>1, <3>2 DEF PtGain
  <2> QED
    BY <2>1, <2>2
<1>3. ~r.drawn => /\ r.winner \in {0, 1, 2, 3} /\ r.from \in {0, 1, 2, 3}
                  /\ r.winner = r.from => SelfDrawn(r)
  BY DEF Sound, SelfDrawn, StatSeats
<1>4. 0 \in StatSeats /\ 1 \in StatSeats /\ 2 \in StatSeats /\ 3 \in StatSeats
  BY DEF StatSeats
<1> HIDE DEF n, Gain
<1>5. Gain(0) + Gain(1) + Gain(2) + Gain(3) = 0 /\ \A s \in StatSeats : Gain(s) \in Int
  <2>1. \A s \in StatSeats : Gain(s) \in Int
    BY <1>1, <1>2
  <2> DEFINE G(s) == IF r.drawn THEN 0
                     ELSE IF s = r.winner THEN 3 * n
                     ELSE IF ~SelfDrawn(r) /\ s = r.from THEN -(3 * n)
                     ELSE IF SelfDrawn(r) THEN -n ELSE 0
  <2>2. Gain(0) = G(0) /\ Gain(1) = G(1) /\ Gain(2) = G(2) /\ Gain(3) = G(3)
    BY <1>2, <1>4
  <2>3. G(0) + G(1) + G(2) + G(3) = 0
    BY <1>1, <1>3
  <2> HIDE DEF G
  <2> QED
    BY <2>1, <2>2, <2>3
<1> QED
  BY <1>5 DEF Gain

\* Every set of numbers has a least one: induction over the numbers.
LEMMA Least == ASSUME NEW T \in SUBSET Nat, T # {} PROVE \E m \in T : \A t \in T : m <= t
<1>1. PICK n \in T : TRUE
  OBVIOUS
<1> DEFINE R == {0..k : k \in {t \in T : t <= n}}
<1>2. IsFiniteSet(0..n)
  <2>1. 0 \in Int /\ n \in Int
    OBVIOUS
  <2> QED
    BY <2>1, FS_Interval
<1>3. R \subseteq SUBSET (0..n) /\ R # {}
  OBVIOUS
<1>4. PICK r \in R : \A q \in R : q \subseteq r => q = r
  <2> DEFINE S == 0..n
  <2>1. IsFiniteSet(S) /\ R \subseteq SUBSET S /\ R # {}
    BY <1>2, <1>3
  <2> HIDE DEF R, S
  <2> QED
    BY <2>1, MinimalSubset
<1>5. PICK m \in T : m <= n /\ r = 0..m
  BY <1>4
<1>6. ASSUME NEW t \in T, t < m PROVE FALSE
  <2>1. 0..t \in R
    BY <1>5, <1>6
  <2>2. 0..t \subseteq r
    BY <1>5, <1>6
  <2> HIDE DEF R
  <2>3. 0..t = 0..m
    BY <1>4, <1>5, <2>1, <2>2
  <2>4. m \in 0..m /\ m \notin 0..t
    BY <1>6
  <2> QED
    BY <2>3, <2>4
<1> QED
  BY <1>6

\* Fans are counted from one.
LEMMA FansNumbered == Cardinality(Fans) \in Nat /\ Fans = 1..Cardinality(Fans)
<1>1. Len(Superior) \in Nat /\ Fans = 1..Len(Superior)
  BY FansAssumption DEF Fans
<1>2. 1 \in Int /\ Len(Superior) \in Int
  BY <1>1
<1>3. Cardinality(1..Len(Superior)) = IF 1 > Len(Superior) THEN 0 ELSE Len(Superior) - 1 + 1
  BY <1>2, FS_Interval
<1> QED
  BY <1>1, <1>3

\* place_entry reaches every part of a code: after fan i it has all those that
\* differ from the code in fans up to i.
LEMMA PlacedAll ==
    ASSUME NEW code
    PROVE  Placed(code) = {code \ T : T \in SUBSET Fans} \ {{}}
<1> DEFINE N == Cardinality(Fans)
           Form(st) == st = [i \in 0..N |->
             IF i = 0 THEN {code} ELSE st[i - 1] \cup {c \ {i} : c \in st[i - 1]}]
           it == CHOOSE st : Form(st)
           Part(i) == {code \ T : T \in SUBSET (1..i)}
           g == [i \in 0..N |-> Part(i)]
<1>1. Placed(code) = it[N] \ {{}}
  BY DEF Placed
<1>2. N \in Nat /\ Fans = 1..N
  BY FansNumbered
<1> HIDE DEF N
<1>3. Part(0) = {code}
  <2>1. SUBSET (1..0) = {{}}
    OBVIOUS
  <2>2. Part(0) = {code \ T : T \in {{}}}
    BY <2>1
  <2>3. code \ {} = code
    OBVIOUS
  <2> QED
    BY <2>2, <2>3
<1>4. ASSUME NEW i \in 1..N PROVE Part(i) = Part(i - 1) \cup {c \ {i} : c \in Part(i - 1)}
  <2>1. ASSUME NEW T \in SUBSET (1..i), i \notin T PROVE code \ T \in Part(i - 1)
    <3>1. T \in SUBSET (1..(i - 1))
      BY <2>1, <1>2
    <3> QED
      BY <3>1
  <2>2. ASSUME NEW T \in SUBSET (1..i), i \in T PROVE code \ T \in {c \ {i} : c \in Part(i - 1)}
    <3> DEFINE U == T \ {i}
    <3>1. U \in SUBSET (1..(i - 1))
      BY <2>2, <1>2
    <3>2. code \ U \in Part(i - 1)
      BY <3>1
    <3>3. code \ T = (code \ U) \ {i}
      BY <2>2
    <3> HIDE DEF U, Part
    <3> QED
      BY <3>2, <3>3
  <2>3. Part(i) \subseteq Part(i - 1) \cup {c \ {i} : c \in Part(i - 1)}
    BY <2>1, <2>2
  <2>4. Part(i - 1) \subseteq Part(i)
    <3>1. SUBSET (1..(i - 1)) \subseteq SUBSET (1..i)
      BY <1>2
    <3> QED
      BY <3>1
  <2>5. ASSUME NEW T \in SUBSET (1..(i - 1)) PROVE (code \ T) \ {i} \in Part(i)
    <3> DEFINE U == T \cup {i}
    <3>1. U \in SUBSET (1..i)
      BY <1>2
    <3>2. (code \ T) \ {i} = code \ U
      OBVIOUS
    <3> QED
      BY <3>1, <3>2
  <2>6. {c \ {i} : c \in Part(i - 1)} \subseteq Part(i)
    BY <2>5
  <2> HIDE DEF Part
  <2> QED
    BY <2>3, <2>4, <2>6
<1> HIDE DEF Part
<1>5. Form(g)
  BY <1>2, <1>3, <1>4
<1>6. Form(it)
  <2> HIDE DEF Form, g
  <2> QED
    BY <1>5
<1>7. \A i \in 0..N : it[i] = Part(i)
  <2> DEFINE T == {i \in 0..N : it[i] # Part(i)}
  <2> SUFFICES ASSUME T # {} PROVE FALSE
    OBVIOUS
  <2>1. PICK m \in T : \A t \in T : m <= t
    <3>1. T \in SUBSET Nat
      BY <1>2
    <3> HIDE DEF T
    <3> QED
      BY <3>1, Least
  <2> HIDE DEF it
  <2>2. it[0] = {code}
    BY <1>2, <1>6
  <2>3. m # 0
    BY <1>3, <2>1, <2>2
  <2>4. m - 1 \in 0..N /\ m - 1 \notin T /\ m \in 1..N
    BY <1>2, <2>1, <2>3
  <2>5. it[m] = it[m - 1] \cup {c \ {m} : c \in it[m - 1]}
    <3>1. m \in 0..N /\ m # 0
      BY <2>1, <2>3
    <3> QED
      BY <1>6, <3>1
  <2>6. it[m - 1] = Part(m - 1)
    BY <2>4
  <2> QED
    BY <1>4, <2>1, <2>4, <2>5, <2>6
<1>8. it[N] = Part(N)
  <2> HIDE DEF it
  <2> QED
    BY <1>2, <1>7
<1> HIDE DEF it
<1> QED
  BY <1>1, <1>2, <1>8 DEF Part

\* Of the fans of a code every part is placed and nothing else.
LEMMA PartsPlaced ==
    ASSUME NEW code \in SUBSET Fans, NEW fans \in (SUBSET Fans) \ {{}}
    PROVE  fans \in Placed(code) <=> fans \subseteq code
<1>1. ASSUME fans \subseteq code PROVE fans \in Placed(code)
  <2> DEFINE T == code \ fans
  <2>1. fans = code \ T /\ T \in SUBSET Fans
    BY <1>1
  <2> HIDE DEF T
  <2>2. fans \in {code \ U : U \in SUBSET Fans} \ {{}}
    <3>1. code \ T \in {code \ U : U \in SUBSET Fans}
      BY <2>1
    <3>2. fans \notin {{}}
      OBVIOUS
    <3> QED
      BY <2>1, <3>1, <3>2
  <2> QED
    BY <2>2, PlacedAll
<1>2. ASSUME fans \in Placed(code) PROVE fans \subseteq code
  BY <1>2, PlacedAll
<1> QED
  BY <1>1, <1>2

\* A round is ranked, unranked or duplicate, as the filters tell these apart.
LEMMA OneMode ==
    ASSUME NEW r \in RoundRecord
    PROVE  Cardinality({mode \in 0..2 : InMode(mode, r)}) = 1
<1> DEFINE mode == IF r.duplicate THEN 2 ELSE IF r.unranked THEN 1 ELSE 0
<1>1. {m \in 0..2 : InMode(m, r)} = {mode}
  BY DEF InMode, RoundRecord
<1> QED
  BY <1>1, FS_Singleton

-----------------------------------------------------------------------------
\* What the service keeps, in memory and in its table, are finitely many sound
\* rounds.
RoundsInv ==
    /\ IsFiniteSet(rows) /\ IsFiniteSet(rounds)
    /\ \A r \in rows \cup rounds : r \in RoundRecord /\ Sound(r)

\* A drawn round stays sound without its winner.
LEMMA ProjectedSound ==
    ASSUME NEW r \in RoundRecord, Sound(r)
    PROVE  Projected(r) \in RoundRecord /\ Sound(Projected(r))
<1> DEFINE a == [r EXCEPT !.winner = -1]
           b == [a EXCEPT !.from = -1]
           c == [b EXCEPT !.types = {}]
           d == [c EXCEPT !.fan = 0]
           e == [d EXCEPT !.results = {}]
<1>1. CASE ~r.drawn
  BY <1>1 DEF Projected
<1>2. CASE r.drawn
  <2>1. Projected(r) = e
    BY <1>2 DEF Projected
  <2>2. a \in RoundRecord /\ a.drawn = r.drawn /\ a.players = r.players
    BY DEF RoundRecord
  <2> HIDE DEF a
  <2>3. b \in RoundRecord /\ b.drawn = r.drawn /\ b.players = r.players
    BY <2>2 DEF RoundRecord
  <2> HIDE DEF b
  <2>4. c \in RoundRecord /\ c.drawn = r.drawn /\ c.players = r.players
    BY <2>3 DEF RoundRecord
  <2> HIDE DEF c
  <2>5. d \in RoundRecord /\ d.drawn = r.drawn /\ d.players = r.players
    BY <2>4, SquaresAssumption DEF RoundRecord
  <2> HIDE DEF d
  <2>6. e \in RoundRecord /\ e.drawn = r.drawn /\ e.players = r.players
    BY <2>5 DEF RoundRecord
  <2> HIDE DEF e
  <2> QED
    BY <1>2, <2>1, <2>6 DEF Sound
<1> QED
  BY <1>1, <1>2

\* A round read back from its row is as sound as it was.
LEMMA ReadBackSound ==
    ASSUME NEW r \in RoundRecord, Sound(r)
    PROVE  ReadBack(r) \in RoundRecord /\ Sound(ReadBack(r))
BY WrittenAssumption DEF ReadBack, RoundRecord, Sound

\* Every step keeps the rounds sound: an upsert replaces one, a restart reads all.
LEMMA RoundsStep == RoundsInv /\ [StatsNext]_statsVars => RoundsInv'
<1> SUFFICES ASSUME RoundsInv, [StatsNext]_statsVars PROVE RoundsInv'
  OBVIOUS
<1>1. ASSUME NEW record \in Records, Upsert(record) PROVE RoundsInv'
  <2> DEFINE r == Projected(record)
             older == {q \in rows : q.key # r.key}
             others == {q \in rounds : q.key # r.key}
  <2>1. r \in RoundRecord /\ Sound(r) /\ ReadBack(r) \in RoundRecord /\ Sound(ReadBack(r))
    BY RecordsAssumption, ProjectedSound, ReadBackSound
  <2>2. rows' = older \cup {ReadBack(r)} /\ rounds' = others \cup {r}
    BY <1>1 DEF Upsert, Persisted
  <2>3. IsFiniteSet(older) /\ IsFiniteSet(others)
    BY FS_Subset DEF RoundsInv
  <2> HIDE DEF r
  <2>4. IsFiniteSet(rows') /\ IsFiniteSet(rounds')
    BY <2>2, <2>3, FS_AddElement
  <2>5. \A q \in rows' \cup rounds' : q \in RoundRecord /\ Sound(q)
    BY <2>1, <2>2 DEF RoundsInv
  <2> QED
    BY <2>4, <2>5 DEF RoundsInv
<1>2. CASE LoadFromDatabase
  BY <1>2 DEF LoadFromDatabase, RoundsInv
<1>3. CASE UNCHANGED <<rows, rounds>>
  BY <1>3 DEF RoundsInv
<1>4. ASSUME NEW c \in Readers,
             \/ OpenStats(c) \/ CloseStats(c)
             \/ \E q \in Asked \cup {Overall} : AskStats(c, q)
             \/ \E sort \in Sorts : AskRecords(c, sort)
             \/ RefreshForRecords(c) \/ ReadVersion(c) \/ RunQuery(c) \/ Compare(c) \/ Store(c) \/ Sort(c)
      PROVE  UNCHANGED <<rows, rounds>>
  BY <1>4 DEF OpenStats, CloseStats, AskStats, AskRecords, RefreshForRecords, ReadVersion, RunQuery,
              Compare, Store, Sort
<1> QED
  BY <1>1, <1>2, <1>3, <1>4 DEF StatsNext, statsVars

\* The sum of points is a sum as above.
LEMMA PtSumAdds ==
    ASSUME NEW S, IsFiniteSet(S)
    PROVE  \E g : Adds(g, S, [r \in S |-> 3 * Squares[r.fan]]) /\ PtSum(S) = g[S]
<1> DEFINE Pt(r) == 3 * Squares[r.fan]
           F == [r \in S |-> Pt(r)]
           Form(g) == g = [s \in SUBSET S |->
             IF s = {} THEN 0 ELSE Pt(CHOOSE x \in s : TRUE) + g[s \ {CHOOSE x \in s : TRUE}]]
           it == CHOOSE g : Form(g)
<1>1. PtSum(S) = it[S]
  BY DEF PtSum
<1>2. \A g : Form(g) <=> Adds(g, S, F)
  <2>1. \A s \in SUBSET S : s # {} => F[First(s)] = Pt(First(s))
    BY FirstIsIn
  <2> HIDE DEF F, Pt
  <2> QED
    BY <2>1 DEF Adds, First
<1>3. \E g : Form(g)
  <2> HIDE DEF Form, F
  <2> QED
    BY <1>2, SumExists
<1>4. Form(it)
  <2> HIDE DEF Form
  <2> QED
    BY <1>3
<1> HIDE DEF it, Form
<1> QED
  BY <1>1, <1>2, <1>4

\* So is the sum of a player's gains.
LEMMA GainSumAdds ==
    ASSUME NEW S, IsFiniteSet(S), NEW p, p # Anyone
    PROVE  \E g : Adds(g, S, [r \in S |-> PtGain(r, p)]) /\ GainSum(S, p) = g[S]
<1> DEFINE Gain(r) == IF p = Anyone THEN 0 ELSE PtGain(r, p)
           F == [r \in S |-> PtGain(r, p)]
           Form(g) == g = [s \in SUBSET S |->
             IF s = {} THEN 0 ELSE Gain(CHOOSE x \in s : TRUE) + g[s \ {CHOOSE x \in s : TRUE}]]
           it == CHOOSE g : Form(g)
<1>1. GainSum(S, p) = it[S]
  BY DEF GainSum
<1>2. \A g : Form(g) <=> Adds(g, S, F)
  <2>1. \A s \in SUBSET S : s # {} => F[First(s)] = Gain(First(s))
    BY FirstIsIn
  <2> HIDE DEF F, Gain
  <2> QED
    BY <2>1 DEF Adds, First
<1>3. \E g : Form(g)
  <2> HIDE DEF Form, F
  <2> QED
    BY <1>2, SumExists
<1>4. Form(it)
  <2> HIDE DEF Form
  <2> QED
    BY <1>3
<1> HIDE DEF it, Form
<1> QED
  BY <1>1, <1>2, <1>4

\* What a player has won and lost, over all his rounds.
LEMMA CollectionBalance ==
    ASSUME NEW rs, IsFiniteSet(rs), NEW p \in Nat, p # Bot,
           \A r \in rs : r \in RoundRecord /\ Sound(r) /\ HasPlayer(r, p)
    PROVE  LET c == Collection(p, rs)
           IN  3 * c.tot_round_pt = 3 * (c.tot_win_pt - c.tot_shoot_pt) - c.tot_selfdrawned_pt
<1> DEFINE W == {r \in rs : Won(p, r)}
           H == {r \in rs : Shot(p, r)}
           D == {r \in rs : WasSelfDrawn(p, r)}
           F == [r \in rs |-> PtGain(r, p)]
           P(S) == [r \in S |-> 3 * Squares[r.fan]]
<1>1. /\ W \in SUBSET rs /\ H \in SUBSET rs /\ D \in SUBSET rs
      /\ IsFiniteSet(W) /\ IsFiniteSet(H) /\ IsFiniteSet(D)
  BY FS_Subset
<1>2. \A r \in rs :
        LET pt == 3 * Squares[r.fan]
        IN  /\ pt \in Int /\ PtGain(r, p) \in Int
            /\ 3 * PtGain(r, p) = 3 * ((IF Won(p, r) THEN pt ELSE 0) - (IF Shot(p, r) THEN pt ELSE 0))
                                  - (IF WasSelfDrawn(p, r) THEN pt ELSE 0)
  BY GainOfRound
<1>3. F \in [rs -> Int] /\ P(W) \in [W -> Int] /\ P(H) \in [H -> Int] /\ P(D) \in [D -> Int]
  BY <1>1, <1>2
<1>4. \A x \in rs : 3 * F[x] = 3 * ((IF x \in W THEN P(W)[x] ELSE 0) - (IF x \in H THEN P(H)[x] ELSE 0))
                             - (IF x \in D THEN P(D)[x] ELSE 0)
  BY <1>2
<1>5. PICK f : Adds(f, rs, F) /\ GainSum(rs, p) = f[rs]
  BY GainSumAdds DEF Anyone
<1>6. PICK w : Adds(w, W, P(W)) /\ PtSum(W) = w[W]
  BY <1>1, PtSumAdds
<1>7. PICK h : Adds(h, H, P(H)) /\ PtSum(H) = h[H]
  BY <1>1, PtSumAdds
<1>8. PICK d : Adds(d, D, P(D)) /\ PtSum(D) = d[D]
  BY <1>1, PtSumAdds
<1>9. LET c == Collection(p, rs)
      IN  c.tot_round_pt = GainSum(rs, p) /\ c.tot_win_pt = PtSum(W)
          /\ c.tot_shoot_pt = PtSum(H) /\ c.tot_selfdrawned_pt = PtSum(D)
  BY CollectionSums
<1> HIDE DEF W, H, D, F, P
<1>10. 3 * f[rs] = 3 * (w[W] - h[H]) - d[D]
  BY <1>1, <1>3, <1>4, <1>5, <1>6, <1>7, <1>8, SumsBalance
<1> QED
  BY <1>5, <1>6, <1>7, <1>8, <1>9, <1>10

\* The gains of the four seats of a table, added up as TotalsAgree does.
SeatSum(r) ==
    LET it == CHOOSE g : g = [s \in SUBSET StatSeats |->
            IF s = {} THEN 0
            ELSE PtGain(r, r.players[CHOOSE x \in s : TRUE]) + g[s \ {CHOOSE x \in s : TRUE}]]
    IN  it[StatSeats]

\* It is a sum as above.
LEMMA SeatSumAdds ==
    ASSUME NEW r
    PROVE  \E g : Adds(g, StatSeats, [s \in StatSeats |-> PtGain(r, r.players[s])]) /\ SeatSum(r) = g[StatSeats]
<1> DEFINE Gain(s) == PtGain(r, r.players[s])
           F == [s \in StatSeats |-> Gain(s)]
           Form(g) == g = [s \in SUBSET StatSeats |->
             IF s = {} THEN 0 ELSE Gain(CHOOSE x \in s : TRUE) + g[s \ {CHOOSE x \in s : TRUE}]]
           it == CHOOSE g : Form(g)
<1>1. SeatSum(r) = it[StatSeats]
  BY DEF SeatSum
<1>2. \A g : Form(g) <=> Adds(g, StatSeats, F)
  <2>1. \A s \in SUBSET StatSeats : s # {} => F[First(s)] = Gain(First(s))
    BY FirstIsIn
  <2> HIDE DEF F, Gain
  <2> QED
    BY <2>1 DEF Adds, First
<1>3. \E g : Form(g)
  <2> HIDE DEF Form, F
  <2> QED
    BY <1>2, SeatsFinite, SumExists
<1>4. Form(it)
  <2> HIDE DEF Form
  <2> QED
    BY <1>3
<1> HIDE DEF it, Form
<1> QED
  BY <1>1, <1>2, <1>4

\* The points of a table of four players cancel.
LEMMA TableBalance ==
    ASSUME NEW r, r \in RoundRecord, Sound(r), \A s \in StatSeats : r.players[s] # Bot
    PROVE  SeatSum(r) = 0
<1> DEFINE Gain(s) == PtGain(r, r.players[s])
           F == [s \in StatSeats |-> Gain(s)]
<1>1. PICK g : Adds(g, StatSeats, F) /\ SeatSum(r) = g[StatSeats]
  BY SeatSumAdds
<1>2. F \in [StatSeats -> Int] /\ F[0] + F[1] + F[2] + F[3] = 0
  <2>1. 0 \in StatSeats /\ 1 \in StatSeats /\ 2 \in StatSeats /\ 3 \in StatSeats
    BY DEF StatSeats
  <2> QED
    BY <2>1, PointsCancel
<1>3. g[StatSeats] = 0
  <2> HIDE DEF F
  <2> QED
    BY <1>1, <1>2, FourSeats
<1> QED
  BY <1>1, <1>3

\* Of finitely many sound rounds the totals agree.
LEMMA TotalsFollow == RoundsInv => TotalsAgree
<1> SUFFICES ASSUME RoundsInv PROVE TotalsAgree
  OBVIOUS
<1>1. ASSUME NEW s \in {r.players : r \in rounds}, NEW n \in StatSeats, s[n] # Bot
      PROVE  LET p == s[n]
                 c == Collection(p, {r \in rounds : HasPlayer(r, p)})
             IN  3 * c.tot_round_pt = 3 * (c.tot_win_pt - c.tot_shoot_pt) - c.tot_selfdrawned_pt
  <2> DEFINE p == s[n]
             rs == {r \in rounds : HasPlayer(r, p)}
  <2>1. p \in Nat
    BY DEF RoundsInv, RoundRecord
  <2>2. IsFiniteSet(rs) /\ \A r \in rs : r \in RoundRecord /\ Sound(r) /\ HasPlayer(r, p)
    BY FS_Subset DEF RoundsInv
  <2> HIDE DEF rs, p
  <2>3. LET c == Collection(p, rs)
        IN  3 * c.tot_round_pt = 3 * (c.tot_win_pt - c.tot_shoot_pt) - c.tot_selfdrawned_pt
    BY <1>1, <2>1, <2>2, CollectionBalance DEF p
  <2> QED
    BY <2>3 DEF rs, p
<1>2. ASSUME NEW r \in rounds, \A s \in StatSeats : r.players[s] # Bot
      PROVE  SeatSum(r) = 0
  BY <1>2, TableBalance DEF RoundsInv
<1>3. \A r \in rounds : Cardinality({mode \in 0..2 : InMode(mode, r)}) = 1
  BY OneMode DEF RoundsInv
<1>4. ASSUME NEW q \in Asked, NEW fans \in (SUBSET Fans) \ {{}}
      PROVE  Occurrences(q, rounds, fans) =
               {r \in rounds : /\ q.player = Anyone \/ Won(q.player, r)
                               /\ \E code \in FanCodes(q, r) : fans \subseteq code}
  <2>1. \A r \in rounds : FanCodes(q, r) \subseteq SUBSET Fans
    BY DEF RoundsInv, RoundRecord, FanCodes, Deduped
  <2>2. \A r \in rounds : (\E code \in FanCodes(q, r) : fans \in Placed(code))
                          <=> \E code \in FanCodes(q, r) : fans \subseteq code
    BY <2>1, PartsPlaced
  <2> QED
    BY <2>2 DEF Occurrences
<1>5. ASSUME NEW r \in rounds, \A s \in StatSeats : r.players[s] # Bot
      PROVE  LET Gain(s) == PtGain(r, r.players[s])
             IN  Sets!MapThenSumSet(Gain, StatSeats) = 0
  <2>1. SeatSum(r) = 0
    BY <1>2, <1>5
  <2> QED
    BY <2>1 DEF SeatSum, Sets!MapThenSumSet, Sets!MapThenFoldSet
<1> QED
  BY <1>1, <1>3, <1>4, <1>5, Zenon DEF TotalsAgree

\* The totals that add_round and place_entry put one beside the other agree,
\* whatever rounds the games hand in, in whatever order, with replacements and
\* restarts: a player's points are what he has won less what he has lost, the
\* points of a table cancel, every round is of one mode, and a combination of
\* fans is counted where some result has all of it.
THEOREM TotalsAgreeHolds == StatsSpec => []TotalsAgree
<1>1. StatsInit => RoundsInv
  BY FS_EmptySet DEF StatsInit, RoundsInv
<1> QED
  BY <1>1, RoundsStep, TotalsFollow, PTL DEF StatsSpec

-----------------------------------------------------------------------------
(* Lists: what the operators on sequences that the statistics are made of do   *)
(* to the members of a sequence and their order.                             *)

\* The members of K stand in s one after the other as R has them.
Lists(s, K, R) ==
    /\ s \in Seq(K) /\ Seqs!ToSet(s) = K
    /\ \A i, j \in DOMAIN s : i < j => <<s[i], s[j]>> \in R

\* R orders S: of two members one is before the other, never both.
Ordering(S, R) ==
    /\ \A x \in S : <<x, x>> \notin R
    /\ \A x, y \in S : x # y => <<x, y>> \in R \/ <<y, x>> \in R
    /\ \A x, y, z \in S : <<x, y>> \in R /\ <<y, z>> \in R => <<x, z>> \in R

\* The place of x in S.
Rank(S, R, x) == Cardinality({y \in S : <<y, x>> \in R}) + 1

\* In an order no two have the same rank, and the ranks are the numbers up to
\* that of the elements.
LEMMA Ranks ==
    ASSUME NEW S, IsFiniteSet(S), NEW R, Ordering(S, R)
    PROVE  /\ Cardinality(S) \in Nat
           /\ \A x \in S : Rank(S, R, x) \in 1..Cardinality(S)
           /\ \A x, y \in S : <<x, y>> \in R => Rank(S, R, x) < Rank(S, R, y)
<1> DEFINE A(x) == {y \in S : <<y, x>> \in R}
<1>1. Cardinality(S) \in Nat
  BY FS_CardinalityType
<1>2. ASSUME NEW x \in S PROVE Cardinality(A(x)) \in Nat /\ Rank(S, R, x) \in 1..Cardinality(S)
  <2> DEFINE T == S \ {x}
  <2>1. IsFiniteSet(T) /\ Cardinality(T) = Cardinality(S) - 1
    BY FS_RemoveElement
  <2>2. A(x) \in SUBSET T
    BY DEF Ordering
  <2> HIDE DEF T, A
  <2>3. IsFiniteSet(A(x)) /\ Cardinality(A(x)) <= Cardinality(T)
    BY <2>1, <2>2, FS_Subset
  <2>4. Cardinality(A(x)) \in Nat
    BY <2>3, FS_CardinalityType
  <2> QED
    BY <1>1, <2>1, <2>3, <2>4 DEF Rank, A
<1>3. ASSUME NEW x \in S, NEW y \in S, <<x, y>> \in R PROVE Rank(S, R, x) < Rank(S, R, y)
  <2>1. IsFiniteSet(A(x)) /\ IsFiniteSet(A(y))
    BY FS_Subset
  <2> DEFINE B == A(x) \cup {x}
  <2>2. B \in SUBSET A(y) /\ x \notin A(x)
    BY <1>3 DEF Ordering
  <2> HIDE DEF A
  <2>3. Cardinality(B) = Cardinality(A(x)) + 1
    BY <2>1, <2>2, FS_AddElement
  <2> HIDE DEF B
  <2>4. Cardinality(B) <= Cardinality(A(y))
    BY <2>1, <2>2, FS_Subset
  <2>5. Cardinality(A(x)) \in Nat /\ Cardinality(A(y)) \in Nat
    BY <1>2
  <2> QED
    BY <2>3, <2>4, <2>5 DEF Rank, A
<1> QED
  BY <1>1, <1>2, <1>3

\* Sorting puts a finite set in order.
LEMMA SortedLists ==
    ASSUME NEW S, IsFiniteSet(S), NEW R, Ordering(S, R)
    PROVE  Lists(Sorted(S, R), S, R)
<1> DEFINE n == Cardinality(S)
           rank == [x \in S |-> Rank(S, R, x)]
           s == Sorted(S, R)
<1>1. /\ n \in Nat
      /\ \A x \in S : Rank(S, R, x) \in 1..n
      /\ \A x, y \in S : <<x, y>> \in R => Rank(S, R, x) < Rank(S, R, y)
  BY Ranks
<1>2. \A x, y \in S : Rank(S, R, x) = Rank(S, R, y) => x = y
  <2> SUFFICES ASSUME NEW x \in S, NEW y \in S, x # y PROVE Rank(S, R, x) # Rank(S, R, y)
    OBVIOUS
  <2>1. Rank(S, R, x) < Rank(S, R, y) \/ Rank(S, R, y) < Rank(S, R, x)
    BY <1>1 DEF Ordering
  <2>2. Rank(S, R, x) \in Int /\ Rank(S, R, y) \in Int
    BY <1>1
  <2> QED
    BY <2>1, <2>2
<1>3. rank \in Surjection(S, 1..n)
  <2>1. rank \in Injection(S, 1..n)
    BY <1>1, <1>2 DEF Injection, IsInjective
  <2>2. IsFiniteSet(1..n) /\ Cardinality(1..n) = n
    <3>1. 1 \in Int /\ n \in Int
      BY <1>1
    <3> HIDE DEF n
    <3>2. IsFiniteSet(1..n) /\ Cardinality(1..n) = IF 1 > n THEN 0 ELSE n - 1 + 1
      BY <3>1, FS_Interval
    <3> QED
      BY <1>1, <3>2
  <2> HIDE DEF rank
  <2>3. Cardinality(S) = Cardinality(1..n)
    BY <2>2
  <2> QED
    BY <2>1, <2>2, <2>3, FS_Injection
<1>4. \A i \in 1..n : \E x \in S : Rank(S, R, x) = i
  <2>1. \A i \in 1..n : \E x \in S : rank[x] = i
    <3> HIDE DEF rank, n
    <3> QED
      BY <1>3 DEF Surjection
  <2> QED
    BY <2>1
<1>5. ASSUME NEW x \in S PROVE Cardinality({y \in S : <<y, x>> \in R}) \in Int
  <2>1. IsFiniteSet({y \in S : <<y, x>> \in R})
    BY FS_Subset
  <2> QED
    BY <2>1, FS_CardinalityType
<1>6. s = [i \in 1..n |-> CHOOSE x \in S : Cardinality({y \in S : <<y, x>> \in R}) = i - 1]
  BY DEF Sorted
<1>7. ASSUME NEW i \in 1..n PROVE s[i] \in S /\ Rank(S, R, s[i]) = i
  <2>1. \E x \in S : Cardinality({y \in S : <<y, x>> \in R}) = i - 1
    <3>1. PICK x \in S : Rank(S, R, x) = i
      BY <1>4
    <3>2. Cardinality({y \in S : <<y, x>> \in R}) = i - 1
      BY <1>1, <1>5, <3>1 DEF Rank
    <3> QED
      BY <3>2
  <2>2. s[i] = CHOOSE x \in S : Cardinality({y \in S : <<y, x>> \in R}) = i - 1
    BY <1>6
  <2> HIDE DEF s, n
  <2>3. s[i] \in S /\ Cardinality({y \in S : <<y, s[i]>> \in R}) = i - 1
    BY <2>1, <2>2
  <2> QED
    BY <1>1, <2>3 DEF Rank
<1> HIDE DEF s, n, rank
<1>8. s \in Seq(S) /\ DOMAIN s = 1..n /\ Len(s) = n
  <2>1. s \in [1..n -> S]
    BY <1>6, <1>7
  <2> QED
    BY <1>1, <2>1
<1>9. Seqs!ToSet(s) = S
  <2>1. \A x \in S : \E i \in 1..n : s[i] = x
    BY <1>1, <1>2, <1>7
  <2> QED
    BY <1>7, <1>8, <2>1 DEF Seqs!ToSet
<1>10. \A i, j \in DOMAIN s : i < j => <<s[i], s[j]>> \in R
  <2> SUFFICES ASSUME NEW i \in 1..n, NEW j \in 1..n, i < j PROVE <<s[i], s[j]>> \in R
    BY <1>8
  <2>1. s[i] \in S /\ s[j] \in S /\ Rank(S, R, s[i]) = i /\ Rank(S, R, s[j]) = j
    BY <1>7
  <2>2. s[i] # s[j] /\ <<s[j], s[i]>> \notin R
    BY <1>1, <2>1
  <2> QED
    BY <2>1, <2>2 DEF Ordering
<1> QED
  BY <1>8, <1>9, <1>10 DEF Lists, s

\* What is listed in a strict order is listed once.
LEMMA ListCounts ==
    ASSUME NEW s, NEW K, NEW R, Lists(s, K, R), \A x \in K : <<x, x>> \notin R
    PROVE  IsFiniteSet(K) /\ Cardinality(K) = Len(s) /\ Len(s) \in Nat
<1> DEFINE n == Len(s)
<1>1. s \in Seq(K) /\ n \in Nat /\ DOMAIN s = 1..n /\ s \in [1..n -> K]
  BY DEF Lists
<1>2. \A i, j \in 1..n : s[i] = s[j] => i = j
  <2> SUFFICES ASSUME NEW i \in 1..n, NEW j \in 1..n, i < j PROVE s[i] # s[j]
    BY <1>1
  <2>1. <<s[i], s[j]>> \in R /\ s[i] \in K
    BY <1>1 DEF Lists
  <2> QED
    BY <2>1
<1>3. \A x \in K : \E i \in 1..n : s[i] = x
  BY <1>1 DEF Lists, Seqs!ToSet
<1> HIDE DEF n
<1>4. s \in Bijection(1..n, K)
  BY <1>1, <1>2, <1>3 DEF Bijection, Injection, IsInjective, Surjection
<1>5. ExistsBijection(1..n, K)
  BY <1>4 DEF ExistsBijection
<1>6. IsFiniteSet(1..n) /\ Cardinality(1..n) = n
  <2>1. 1 \in Int /\ n \in Int
    BY <1>1
  <2>2. IsFiniteSet(1..n) /\ Cardinality(1..n) = IF 1 > n THEN 0 ELSE n - 1 + 1
    BY <2>1, FS_Interval
  <2> QED
    BY <1>1, <2>2
<1> QED
  BY <1>1, <1>5, <1>6, FS_Bijection DEF n

\* Picking keeps the order.
LEMMA PickedLists ==
    ASSUME NEW s, NEW K, NEW R, Lists(s, K, R), NEW chosen
    PROVE  Lists(Picked(s, chosen), K \intersect chosen, R)
<1> DEFINE n == Len(s)
           picks == {i \in DOMAIN s : s[i] \in chosen}
           less == {p \in picks \X picks : p[1] < p[2]}
           places == Sorted(picks, less)
           t == Picked(s, chosen)
<1>1. s \in Seq(K) /\ n \in Nat /\ DOMAIN s = 1..n /\ s \in [1..n -> K]
  BY DEF Lists
<1>2. IsFiniteSet(picks)
  <2>1. 1 \in Int /\ n \in Int
    BY <1>1
  <2>2. IsFiniteSet(1..n)
    BY <2>1, FS_Interval
  <2> QED
    BY <1>1, <2>2, FS_Subset
<1>3. picks \subseteq 1..n
  BY <1>1
<1>4. \A i, j \in picks : <<i, j>> \in less <=> i < j
  OBVIOUS
<1>5. t = [m \in DOMAIN places |-> s[places[m]]]
  BY DEF Picked
<1>6. \A i \in picks : s[i] \in K \intersect chosen
  BY <1>1
<1>7. \A x \in K \intersect chosen : \E i \in picks : s[i] = x
  BY DEF Lists, Seqs!ToSet
<1>8. \A i, j \in picks : i < j => <<s[i], s[j]>> \in R
  BY DEF Lists
<1> HIDE DEF picks, less
<1>9. Ordering(picks, less)
  BY <1>1, <1>3, <1>4 DEF Ordering
<1>10. Lists(places, picks, less)
  BY <1>2, <1>9, SortedLists
<1> HIDE DEF places, t, n
<1>11. /\ places \in Seq(picks) /\ Len(places) \in Nat /\ DOMAIN places = 1..Len(places)
       /\ \A i \in DOMAIN places : places[i] \in picks
       /\ \A i, j \in DOMAIN places : i < j => places[i] < places[j]
       /\ \A x \in picks : \E i \in DOMAIN places : places[i] = x
  <2>1. places \in Seq(picks) /\ Seqs!ToSet(places) = picks
        /\ \A i, j \in DOMAIN places : i < j => <<places[i], places[j]>> \in less
    BY <1>10 DEF Lists
  <2>2. Len(places) \in Nat /\ DOMAIN places = 1..Len(places) /\ \A i \in DOMAIN places : places[i] \in picks
    BY <2>1
  <2>3. \A x \in picks : \E i \in DOMAIN places : places[i] = x
    BY <2>1 DEF Seqs!ToSet
  <2> QED
    BY <1>4, <2>1, <2>2, <2>3
<1>12. DOMAIN t = DOMAIN places /\ \A m \in DOMAIN t : t[m] = s[places[m]]
  BY <1>5
<1>13. t \in Seq(K \intersect chosen)
  <2>1. t \in [1..Len(places) -> K \intersect chosen]
    BY <1>5, <1>6, <1>11
  <2> QED
    BY <1>11, <2>1
<1>14. Seqs!ToSet(t) = K \intersect chosen
  <2>1. \A m \in DOMAIN t : t[m] \in K \intersect chosen
    BY <1>6, <1>11, <1>12
  <2>2. \A x \in K \intersect chosen : \E m \in DOMAIN t : t[m] = x
    BY <1>7, <1>11, <1>12
  <2> QED
    BY <2>1, <2>2 DEF Seqs!ToSet
<1>15. \A i, j \in DOMAIN t : i < j => <<t[i], t[j]>> \in R
  BY <1>8, <1>11, <1>12
<1> QED
  BY <1>13, <1>14, <1>15 DEF Lists, t

\* Turned round, a list is in the order turned round.
LEMMA ReversedLists ==
    ASSUME NEW s, NEW K, NEW R, Lists(s, K, R), NEW Q, \A x, y \in K : <<x, y>> \in R => <<y, x>> \in Q
    PROVE  Lists(Seqs!Reverse(s), K, Q)
<1> DEFINE n == Len(s)
           t == Seqs!Reverse(s)
<1>1. s \in Seq(K) /\ n \in Nat /\ DOMAIN s = 1..n /\ s \in [1..n -> K]
  BY DEF Lists
<1>2. t = [i \in 1..n |-> s[(n - i) + 1]]
  BY DEF Seqs!Reverse
<1> HIDE DEF n, t
<1>3. \A i \in 1..n : (n - i) + 1 \in 1..n /\ (n - ((n - i) + 1)) + 1 = i
  BY <1>1
<1>4. DOMAIN t = 1..n /\ \A i \in 1..n : t[i] = s[(n - i) + 1] /\ t[i] \in K
  BY <1>1, <1>2, <1>3
<1>5. t \in Seq(K)
  <2>1. t \in [1..n -> K]
    BY <1>2, <1>4
  <2> QED
    BY <1>1, <2>1
<1>6. Seqs!ToSet(t) = K
  <2>1. \A x \in K : \E i \in 1..n : s[i] = x
    BY <1>1 DEF Lists, Seqs!ToSet
  <2>2. \A x \in K : \E i \in 1..n : t[i] = x
    <3> SUFFICES ASSUME NEW x \in K PROVE \E i \in 1..n : t[i] = x
      OBVIOUS
    <3>1. PICK i \in 1..n : s[i] = x
      BY <2>1
    <3>2. t[(n - i) + 1] = x /\ (n - i) + 1 \in 1..n
      BY <1>3, <1>4, <3>1
    <3> QED
      BY <3>2
  <2> QED
    BY <1>4, <2>2 DEF Seqs!ToSet
<1>7. ASSUME NEW i \in 1..n, NEW j \in 1..n, i < j PROVE <<t[i], t[j]>> \in Q
  <2> DEFINE a == (n - j) + 1
             b == (n - i) + 1
  <2>1. a \in 1..n /\ b \in 1..n /\ a < b
    BY <1>1, <1>3, <1>7
  <2>2. t[i] = s[b] /\ t[j] = s[a]
    BY <1>4
  <2> HIDE DEF a, b
  <2>3. <<s[a], s[b]>> \in R /\ s[a] \in K /\ s[b] \in K
    BY <1>1, <2>1 DEF Lists
  <2> QED
    BY <2>2, <2>3
<1> QED
  BY <1>4, <1>5, <1>6, <1>7 DEF Lists, t

\* A list behind another, all of whose members come before its own.
LEMMA JoinedLists ==
    ASSUME NEW s, NEW K, NEW t, NEW L, NEW R, Lists(s, K, R), Lists(t, L, R),
           \A x \in K : \A y \in L : <<x, y>> \in R
    PROVE  Lists(s \o t, K \cup L, R)
<1> DEFINE n == Len(s)
           m == Len(t)
           u == s \o t
<1>1. s \in Seq(K) /\ n \in Nat /\ DOMAIN s = 1..n /\ \A i \in 1..n : s[i] \in K
  BY DEF Lists
<1>2. t \in Seq(L) /\ m \in Nat /\ DOMAIN t = 1..m /\ \A i \in 1..m : t[i] \in L
  BY DEF Lists
<1>3. s \in Seq(K \cup L) /\ t \in Seq(K \cup L)
  BY <1>1, <1>2
<1>4. u \in Seq(K \cup L) /\ Len(u) = n + m
  BY <1>3
<1>5. DOMAIN u = 1..(n + m)
  BY <1>4
<1>6. \A i \in 1..(n + m) : u[i] = IF i <= n THEN s[i] ELSE t[i - n]
  BY <1>3
<1> HIDE DEF n, m, u
<1>7. Seqs!ToSet(u) = K \cup L
  <2>1. ASSUME NEW x \in K PROVE \E i \in DOMAIN u : u[i] = x
    <3>1. PICK i \in 1..n : s[i] = x
      BY <1>1 DEF Lists, Seqs!ToSet
    <3>2. i \in DOMAIN u /\ u[i] = x
      BY <1>1, <1>2, <1>5, <1>6, <3>1
    <3> QED
      BY <3>2
  <2>2. ASSUME NEW x \in L PROVE \E i \in DOMAIN u : u[i] = x
    <3>1. PICK i \in 1..m : t[i] = x
      BY <1>2 DEF Lists, Seqs!ToSet
    <3>2. n + i \in DOMAIN u /\ u[n + i] = x
      BY <1>1, <1>2, <1>5, <1>6, <3>1
    <3> QED
      BY <3>2
  <2>3. \A i \in DOMAIN u : u[i] \in K \cup L
    BY <1>1, <1>2, <1>5, <1>6
  <2> QED
    BY <2>1, <2>2, <2>3 DEF Seqs!ToSet
<1>8. ASSUME NEW i \in 1..(n + m), NEW j \in 1..(n + m), i < j PROVE <<u[i], u[j]>> \in R
  <2>1. CASE j <= n
    <3>1. i \in 1..n /\ j \in 1..n /\ u[i] = s[i] /\ u[j] = s[j]
      BY <1>1, <1>2, <1>6, <1>8, <2>1
    <3> QED
      BY <1>1, <1>8, <3>1 DEF Lists
  <2>2. CASE i > n
    <3>1. i - n \in 1..m /\ j - n \in 1..m /\ i - n < j - n /\ u[i] = t[i - n] /\ u[j] = t[j - n]
      BY <1>1, <1>2, <1>6, <1>8, <2>2
    <3> QED
      BY <1>2, <3>1 DEF Lists
  <2>3. CASE i <= n /\ j > n
    <3>1. i \in 1..n /\ j - n \in 1..m /\ u[i] = s[i] /\ u[j] = t[j - n]
      BY <1>1, <1>2, <1>6, <1>8, <2>3
    <3> QED
      BY <1>1, <1>2, <3>1
  <2> QED
    BY <1>1, <1>2, <2>1, <2>2, <2>3
<1> QED
  BY <1>4, <1>5, <1>7, <1>8 DEF Lists, u

\* The lists of a sequence, put one behind the other.
LEMMA FlattenedLists ==
    ASSUME NEW T, NEW b \in Seq(T), NEW Part, NEW R,
           \A i \in 1..Len(b) : Lists(b[i], Part[i], R),
           \A i, j \in 1..Len(b) : i < j => \A x \in Part[i] : \A y \in Part[j] : <<x, y>> \in R
    PROVE  Lists(Seqs!FlattenSeq(b), UNION {Part[i] : i \in 1..Len(b)}, R)
<1> DEFINE n == Len(b)
           Form(g, k) == g = [i \in 1..k |-> IF i = 1 THEN b[i] ELSE g[i - 1] \o b[i]]
           it == CHOOSE g : g = [i \in 1..n |-> IF i = 1 THEN b[i] ELSE g[i - 1] \o b[i]]
           Upto(i) == UNION {Part[j] : j \in 1..i}
           s == Seqs!FlattenSeq(b)
<1>1. n \in Nat
  OBVIOUS
<1>2. CASE n = 0
  <2>1. s = <<>>
    BY <1>2 DEF Seqs!FlattenSeq
  <2>2. Upto(n) = {}
    BY <1>2
  <2>3. Lists(<<>>, {}, R)
    BY DEF Lists, Seqs!ToSet
  <2> QED
    BY <2>1, <2>2, <2>3
<1>3. CASE n # 0
  <2>1. s = it[n]
    BY <1>3 DEF Seqs!FlattenSeq
  <2> HIDE DEF s, n
  <2>2. \E g : Form(g, n)
    <3> DEFINE U == {k \in Nat : ~ \E g : Form(g, k)}
    <3> SUFFICES ASSUME U # {} PROVE FALSE
      BY <1>1
    <3>1. PICK k \in U : \A l \in U : k <= l
      <4>1. U \in SUBSET Nat
        OBVIOUS
      <4> HIDE DEF U
      <4> QED
        BY <4>1, Least
    <3>2. k # 0
      <4>1. Form([i \in {} |-> {}], 0)
        OBVIOUS
      <4> HIDE DEF Form
      <4> QED
        BY <3>1, <4>1
    <3>3. k \in Nat /\ k - 1 \in Nat /\ k - 1 \notin U
      <4>1. k \in Nat
        BY <3>1
      <4> HIDE DEF U
      <4> QED
        BY <3>1, <3>2, <4>1
    <3>4. PICK g : Form(g, k - 1)
      <4> HIDE DEF Form
      <4> QED
        BY <3>3
    <3> DEFINE h == [i \in 1..k |-> IF i = 1 THEN b[i] ELSE g[i - 1] \o b[i]]
    <3>5. \A i \in 1..(k - 1) : h[i] = g[i]
      <4>1. \A i \in 1..(k - 1) : g[i] = IF i = 1 THEN b[i] ELSE g[i - 1] \o b[i]
        BY <3>4
      <4>2. \A i \in 1..(k - 1) : i \in 1..k
        BY <3>3
      <4> HIDE DEF Form
      <4> QED
        BY <4>1, <4>2
    <3>6. \A i \in 1..k : i # 1 => i - 1 \in 1..(k - 1)
      BY <3>3
    <3>7. \A i \in 1..k : h[i] = IF i = 1 THEN b[i] ELSE h[i - 1] \o b[i]
      <4> HIDE DEF Form
      <4> SUFFICES ASSUME NEW i \in 1..k PROVE h[i] = IF i = 1 THEN b[i] ELSE h[i - 1] \o b[i]
        OBVIOUS
      <4>1. h[i] = IF i = 1 THEN b[i] ELSE g[i - 1] \o b[i]
        OBVIOUS
      <4> HIDE DEF h
      <4> QED
        BY <3>5, <3>6, <4>1
    <3>8. h = [i \in 1..k |-> h[i]]
      OBVIOUS
    <3> HIDE DEF h
    <3>9. Form(h, k)
      BY <3>7, <3>8
    <3> HIDE DEF Form
    <3> QED
      BY <3>1, <3>9
  <2>3. Form(it, n)
    BY <2>2
  <2> HIDE DEF it
  <2>4. \A i \in 1..n : it[i] = IF i = 1 THEN b[i] ELSE it[i - 1] \o b[i]
    BY <2>3
  <2> HIDE DEF Form
  <2>5. \A i \in 1..n : Lists(it[i], Upto(i), R)
    <3> DEFINE U == {k \in 1..n : ~ Lists(it[k], Upto(k), R)}
    <3> SUFFICES ASSUME U # {} PROVE FALSE
      OBVIOUS
    <3>1. PICK k \in U : \A l \in U : k <= l
      <4>1. U \in SUBSET Nat
        OBVIOUS
      <4> HIDE DEF U
      <4> QED
        BY <4>1, Least
    <3>2. k \in 1..n /\ Lists(b[k], Part[k], R)
      BY <3>1 DEF n
    <3>3. CASE k = 1
      <4>1. Upto(k) = Part[k]
        <5>1. 1..k = {1}
          BY <3>3
        <5> QED
          BY <3>3, <5>1
      <4>2. it[k] = b[k]
        BY <2>4, <3>2, <3>3
      <4> HIDE DEF Upto
      <4> QED
        BY <3>1, <3>2, <4>1, <4>2
    <3>4. CASE k # 1
      <4>1. k - 1 \in 1..n /\ k - 1 \notin U
        <5>1. k \in Int /\ k - 1 \in 1..n
          BY <1>1, <3>2, <3>4
        <5> HIDE DEF U
        <5> QED
          BY <3>1, <5>1
      <4>2. it[k] = it[k - 1] \o b[k]
        BY <2>4, <3>2, <3>4
      <4>3. Upto(k) = Upto(k - 1) \cup Part[k]
        <5>1. 1..k = (1..(k - 1)) \cup {k}
          BY <3>2
        <5> QED
          BY <5>1
      <4>4. \A x \in Upto(k - 1) : \A y \in Part[k] : <<x, y>> \in R
        <5>1. \A j \in 1..(k - 1) : j \in 1..n /\ j < k
          BY <1>1, <3>2
        <5> QED
          BY <3>2, <5>1 DEF n
      <4>5. Lists(it[k - 1], Upto(k - 1), R)
        BY <4>1
      <4> HIDE DEF Upto
      <4>6. Lists(it[k - 1] \o b[k], Upto(k - 1) \cup Part[k], R)
        BY <3>2, <4>4, <4>5, JoinedLists
      <4> QED
        BY <3>1, <4>2, <4>3, <4>6
    <3> QED
      BY <3>3, <3>4
  <2> HIDE DEF Upto
  <2>6. Lists(it[n], Upto(n), R)
    BY <1>1, <1>3, <2>5
  <2> QED
    BY <2>1, <2>6 DEF Upto, s, n
<1> QED
  BY <1>2, <1>3

\* A part of an interval that goes down to its start is found by its size.
LEMMA Stretch ==
    ASSUME NEW a \in Int, NEW e \in Int, a <= e + 1, NEW T \in SUBSET (a..e),
           \A i \in T : \A j \in a..e : j < i => j \in T
    PROVE  Cardinality(T) \in Nat /\ a + Cardinality(T) - 1 <= e /\ T = a..(a + Cardinality(T) - 1)
<1> DEFINE U == {k \in Nat : a + k \notin T}
<1>1. U # {}
  <2>1. (e + 1) - a \in Nat /\ a + ((e + 1) - a) \notin T
    OBVIOUS
  <2> QED
    BY <2>1
<1>2. PICK k \in U : \A l \in U : k <= l
  <2>1. U \in SUBSET Nat
    OBVIOUS
  <2> HIDE DEF U
  <2> QED
    BY <1>1, <2>1, Least
<1>3. k \in Nat /\ a + k \notin T /\ \A l \in 0..(k - 1) : a + l \in T
  BY <1>2
<1>4. T = a..(a + k - 1)
  <2>1. \A i \in a..(a + k - 1) : i \in T
    <3> SUFFICES ASSUME NEW i \in a..(a + k - 1) PROVE i \in T
      OBVIOUS
    <3>1. i - a \in 0..(k - 1) /\ a + (i - a) = i
      BY <1>3
    <3> QED
      BY <1>3, <3>1
  <2>2. ASSUME NEW i \in T PROVE i \in a..(a + k - 1)
    <3>1. i < a + k
      BY <1>3, <2>2
    <3> QED
      BY <1>3, <3>1
  <2> QED
    BY <2>1, <2>2
<1>5. Cardinality(T) = k
  <2>1. a + k - 1 \in Int
    BY <1>3
  <2>2. Cardinality(a..(a + k - 1)) = IF a > a + k - 1 THEN 0 ELSE (a + k - 1) - a + 1
    BY <2>1, FS_Interval
  <2> QED
    BY <1>3, <1>4, <2>2
<1>6. a + k - 1 <= e
  <2>1. CASE k = 0
    BY <2>1
  <2>2. CASE k # 0
    BY <1>3, <1>4, <2>2
  <2> QED
    BY <2>1, <2>2
<1> QED
  BY <1>3, <1>4, <1>5, <1>6

\* A list is in every order that has its pairs.
LEMMA WeakerLists ==
    ASSUME NEW s, NEW K, NEW R, Lists(s, K, R), NEW Q, \A x, y \in K : <<x, y>> \in R => <<x, y>> \in Q
    PROVE  Lists(s, K, Q)
<1>1. \A i \in DOMAIN s : s[i] \in K
  BY DEF Lists, Seqs!ToSet
<1> QED
  BY <1>1 DEF Lists

\* A stretch of a list.
LEMMA SubSeqLists ==
    ASSUME NEW s, NEW K, NEW R, Lists(s, K, R), NEW a \in Nat \ {0}, NEW e \in Nat, e <= Len(s), a <= e + 1
    PROVE  Lists(SubSeq(s, a, e), {s[i] : i \in a..e}, R)
<1> DEFINE n == Len(s)
           t == SubSeq(s, a, e)
           m == (e - a) + 1
           L == {s[i] : i \in a..e}
<1>1. s \in Seq(K) /\ n \in Nat /\ DOMAIN s = 1..n
  BY DEF Lists
<1>2. m \in Nat
  OBVIOUS
<1>3. t = [i \in 1..m |-> s[(a + i) - 1]]
  BY <1>1
<1> HIDE DEF t
<1>4. \A i \in 1..m : (a + i) - 1 \in a..e /\ (a + i) - 1 \in 1..n
  BY <1>1
<1>5. \A i \in a..e : (i - a) + 1 \in 1..m /\ (a + ((i - a) + 1)) - 1 = i
  OBVIOUS
<1> HIDE DEF m, n
<1>6. DOMAIN t = 1..m /\ \A i \in 1..m : t[i] = s[(a + i) - 1]
  BY <1>3
<1>7. \A i \in 1..m : t[i] \in L
  BY <1>4, <1>6
<1>8. t \in Seq(L)
  <2> HIDE DEF L
  <2>1. t \in [1..m -> L]
    BY <1>3, <1>6, <1>7
  <2> QED
    BY <1>2, <2>1
<1>9. Seqs!ToSet(t) = L
  <2>1. \A x \in L : \E i \in DOMAIN t : t[i] = x
    <3> SUFFICES ASSUME NEW j \in a..e PROVE \E i \in DOMAIN t : t[i] = s[j]
      OBVIOUS
    <3>1. (j - a) + 1 \in DOMAIN t /\ t[(j - a) + 1] = s[j]
      BY <1>5, <1>6
    <3> QED
      BY <3>1
  <2> HIDE DEF L
  <2> QED
    BY <1>6, <1>7, <2>1 DEF Seqs!ToSet
<1>10. \A i, j \in DOMAIN t : i < j => <<t[i], t[j]>> \in R
  <2> SUFFICES ASSUME NEW i \in 1..m, NEW j \in 1..m, i < j PROVE <<t[i], t[j]>> \in R
    BY <1>6
  <2>1. (a + i) - 1 \in DOMAIN s /\ (a + j) - 1 \in DOMAIN s /\ (a + i) - 1 < (a + j) - 1
    BY <1>1, <1>2, <1>4
  <2> QED
    BY <1>6, <2>1 DEF Lists
<1> QED
  BY <1>8, <1>9, <1>10 DEF Lists, t, L

-----------------------------------------------------------------------------
(* Answers                                                                   *)

\* The keys of rounds, of which no two have the same.
KeysOf(rs) == {r.key : r \in rs}
Keyed(rs) == \A r, s \in rs : r.key = s.key => r = s

\* Rounds that the service may keep, and the order of its index.
Storable(rs) == IsFiniteSet(rs) /\ Keyed(rs) /\ rs \subseteq RoundRecord

Newer(rs) == {p \in KeysOf(rs) \X KeysOf(rs) : Before(Entry(rs, p[1]), Entry(rs, p[2]))}

\* A key of the rounds points at one of them.
LEMMA EntryIn ==
    ASSUME NEW rs, NEW k \in KeysOf(rs)
    PROVE  Entry(rs, k) \in rs /\ Entry(rs, k).key = k
BY DEF KeysOf, Entry

\* The key of a round points at that round.
LEMMA EntryOf ==
    ASSUME NEW rs, Keyed(rs), NEW r \in rs
    PROVE  r.key \in KeysOf(rs) /\ Entry(rs, r.key) = r
BY DEF KeysOf, Keyed, Entry

\* rebuild_time_index_locked compares rounds by a strict order, which is total for
\* rounds of different keys and goes back in time.
LEMMA BeforeOrders ==
    /\ \A a \in RoundRecord : ~Before(a, a)
    /\ \A a, b \in RoundRecord : a.key # b.key => Before(a, b) \/ Before(b, a)
    /\ \A a, b, c \in RoundRecord : Before(a, b) /\ Before(b, c) => Before(a, c)
    /\ \A a, b \in RoundRecord : Before(a, b) => ~Before(b, a) /\ a.time >= b.time
<1>1. \A a \in RoundRecord :
        /\ a.time \in Int /\ a.fan \in Int /\ a.key[1] \in Int /\ a.key[2] \in Int
        /\ a.key = <<a.key[1], a.key[2]>>
  BY SquaresAssumption DEF RoundRecord
<1>2. \A a \in RoundRecord : ~Before(a, a)
  BY <1>1 DEF Before
<1>3. \A a, b \in RoundRecord : a.key # b.key => Before(a, b) \/ Before(b, a)
  <2> SUFFICES ASSUME NEW a \in RoundRecord, NEW b \in RoundRecord, a.key # b.key
               PROVE  Before(a, b) \/ Before(b, a)
    OBVIOUS
  <2>1. a.key[1] # b.key[1] \/ a.key[2] # b.key[2]
    BY <1>1
  <2> QED
    BY <1>1, <2>1 DEF Before
<1>4. \A a, b, c \in RoundRecord : Before(a, b) /\ Before(b, c) => Before(a, c)
  BY <1>1 DEF Before
<1>5. \A a, b \in RoundRecord : Before(a, b) => ~Before(b, a) /\ a.time >= b.time
  BY <1>1 DEF Before
<1> QED
  BY <1>2, <1>3, <1>4, <1>5

\* The index that is built of rounds lists their keys, newest first.
LEMMA TimeIndexLists ==
    ASSUME NEW rs, Storable(rs)
    PROVE  Lists(TimeIndex(rs), KeysOf(rs), Newer(rs))
<1> DEFINE before == {p \in rs \X rs : Before(p[1], p[2])}
           s == Sorted(rs, before)
           t == TimeIndex(rs)
<1>1. \A a, b \in rs : <<a, b>> \in before <=> Before(a, b)
  OBVIOUS
<1>2. t = [i \in DOMAIN s |-> s[i].key]
  BY DEF TimeIndex
<1> HIDE DEF before
<1>3. Ordering(rs, before)
  BY <1>1, BeforeOrders DEF Ordering, Storable, Keyed
<1>4. Lists(s, rs, before)
  BY <1>3, SortedLists DEF Storable
<1> HIDE DEF s, t
<1>5. s \in Seq(rs) /\ Len(s) \in Nat /\ DOMAIN s = 1..Len(s) /\ \A i \in DOMAIN s : s[i] \in rs
  BY <1>4 DEF Lists
<1>6. \A i \in DOMAIN s : t[i] \in KeysOf(rs) /\ Entry(rs, t[i]) = s[i]
  BY <1>2, <1>5, EntryOf DEF Storable
<1>7. t \in Seq(KeysOf(rs))
  <2>1. t \in [1..Len(s) -> KeysOf(rs)]
    BY <1>2, <1>5, <1>6
  <2> QED
    BY <1>5, <2>1
<1>8. Seqs!ToSet(t) = KeysOf(rs)
  <2>1. \A k \in KeysOf(rs) : \E i \in DOMAIN s : t[i] = k
    <3> SUFFICES ASSUME NEW r \in rs PROVE \E i \in DOMAIN s : t[i] = r.key
      BY DEF KeysOf
    <3>1. PICK i \in DOMAIN s : s[i] = r
      BY <1>4 DEF Lists, Seqs!ToSet
    <3> QED
      BY <1>2, <3>1
  <2>2. DOMAIN t = DOMAIN s
    BY <1>2
  <2> QED
    BY <1>6, <2>1, <2>2 DEF Seqs!ToSet
<1>9. \A i, j \in DOMAIN t : i < j => <<t[i], t[j]>> \in Newer(rs)
  <2> SUFFICES ASSUME NEW i \in DOMAIN s, NEW j \in DOMAIN s, i < j PROVE <<t[i], t[j]>> \in Newer(rs)
    BY <1>2
  <2>1. Before(s[i], s[j])
    BY <1>1, <1>4, <1>5 DEF Lists
  <2> QED
    BY <1>6, <2>1 DEF Newer
<1> QED
  BY <1>7, <1>8, <1>9 DEF Lists, t

\* The bisections find the stretch between the two times.
LEMMA TimeStretchLists ==
    ASSUME NEW rs, Storable(rs), NEW index, Lists(index, KeysOf(rs), Newer(rs)),
           NEW f, f.since \in Int, f.until \in Int
    PROVE  Lists(TimeStretch(rs, index, f),
                 {k \in KeysOf(rs) : f.since <= Entry(rs, k).time /\ Entry(rs, k).time <= f.until},
                 Newer(rs))
<1> DEFINE n == Len(index)
           Time(i) == Entry(rs, index[i]).time
           early == {i \in DOMAIN index : Time(i) > f.until}
           b == Cardinality(early)
           late == {i \in (b + 1)..n : Time(i) >= f.since}
           c == Cardinality(late)
           between == {k \in KeysOf(rs) : f.since <= Entry(rs, k).time /\ Entry(rs, k).time <= f.until}
<1>1. index \in Seq(KeysOf(rs)) /\ n \in Nat /\ DOMAIN index = 1..n /\ \A i \in 1..n : index[i] \in KeysOf(rs)
  BY DEF Lists
<1>2. \A i \in 1..n : Time(i) \in Int
  BY <1>1, EntryIn DEF Storable, RoundRecord
<1>3. ASSUME NEW i \in 1..n, NEW j \in 1..n, i < j PROVE Time(i) >= Time(j)
  <2>1. Before(Entry(rs, index[i]), Entry(rs, index[j]))
    BY <1>1, <1>3 DEF Lists, Newer
  <2>2. Entry(rs, index[i]) \in RoundRecord /\ Entry(rs, index[j]) \in RoundRecord
    BY <1>1, EntryIn DEF Storable
  <2> QED
    BY <2>1, <2>2, BeforeOrders
<1>4. TimeStretch(rs, index, f) = SubSeq(index, b + 1, b + c)
  BY DEF TimeStretch
<1> HIDE DEF n
<1>5. early = {i \in 1..n : Time(i) > f.until}
  BY <1>1
<1>6. b \in Nat /\ b <= n /\ early = 1..b
  <2>1. early \in SUBSET (1..n)
    BY <1>5
  <2>2. \A i \in early : \A j \in 1..n : j < i => j \in early
    <3> HIDE DEF Time
    <3> SUFFICES ASSUME NEW i \in 1..n, Time(i) > f.until, NEW j \in 1..n, j < i PROVE Time(j) > f.until
      BY <1>5
    <3> QED
      BY <1>2, <1>3
  <2>3. 1 \in Int /\ n \in Int /\ 1 <= n + 1
    BY <1>1
  <2> HIDE DEF early
  <2>4. Cardinality(early) \in Nat /\ 1 + Cardinality(early) - 1 <= n /\ early = 1..(1 + Cardinality(early) - 1)
    BY <2>1, <2>2, <2>3, Stretch
  <2> QED
    BY <1>1, <2>4
<1> HIDE DEF early, b
<1>7. c \in Nat /\ b + c <= n /\ late = (b + 1)..(b + c)
  <2>1. late \in SUBSET ((b + 1)..n)
    OBVIOUS
  <2>2. \A i \in late : \A j \in (b + 1)..n : j < i => j \in late
    <3> HIDE DEF Time
    <3> SUFFICES ASSUME NEW i \in (b + 1)..n, Time(i) >= f.since, NEW j \in (b + 1)..n, j < i
                 PROVE  Time(j) >= f.since
      OBVIOUS
    <3>1. i \in 1..n /\ j \in 1..n
      BY <1>1, <1>6
    <3> QED
      BY <1>2, <1>3, <3>1
  <2>3. b + 1 \in Int /\ n \in Int /\ b + 1 <= n + 1
    BY <1>1, <1>6
  <2> HIDE DEF late
  <2>4. /\ Cardinality(late) \in Nat /\ (b + 1) + Cardinality(late) - 1 <= n
        /\ late = (b + 1)..((b + 1) + Cardinality(late) - 1)
    BY <2>1, <2>2, <2>3, Stretch
  <2>5. (b + 1) + c - 1 = b + c
    BY <1>6, <2>4
  <2> QED
    BY <2>4, <2>5
<1>8. {index[i] : i \in late} = between
  <2>1. ASSUME NEW i \in late PROVE index[i] \in between
    <3>1. i \in 1..n /\ i \notin early /\ Time(i) >= f.since
      BY <1>1, <1>6
    <3>2. ~(Time(i) > f.until) /\ Time(i) \in Int
      BY <1>2, <1>5, <3>1
    <3> QED
      BY <1>1, <3>1, <3>2
  <2>2. ASSUME NEW k \in between PROVE \E i \in late : index[i] = k
    <3>1. PICK i \in 1..n : index[i] = k
      BY <1>1 DEF Lists, Seqs!ToSet
    <3>2. i \notin early
      BY <1>2, <1>5, <3>1
    <3>3. i \in (b + 1)..n /\ Time(i) >= f.since
      BY <1>1, <1>2, <1>6, <3>1, <3>2
    <3> QED
      BY <3>1, <3>3
  <2> HIDE DEF late, between
  <2> QED
    BY <2>1, <2>2
<1> HIDE DEF late, c, between
<1>9. Lists(SubSeq(index, b + 1, b + c), {index[i] : i \in (b + 1)..(b + c)}, Newer(rs))
  <2>1. b + 1 \in Nat \ {0} /\ b + c \in Nat /\ b + c <= Len(index) /\ b + 1 <= (b + c) + 1
    BY <1>6, <1>7 DEF n
  <2> QED
    BY <2>1, SubSeqLists
<1> QED
  BY <1>4, <1>7, <1>8, <1>9 DEF between

\* A query lists the keys of all rounds that match, newest first.
LEMMA QueryLists ==
    ASSUME NEW rs, Storable(rs), NEW index, Lists(index, KeysOf(rs), Newer(rs)),
           NEW f, f.since \in Int, f.until \in Int
    PROVE  Lists(Query(rs, index, f), {k \in KeysOf(rs) : Matches(f, Entry(rs, k))}, Newer(rs))
<1> DEFINE s == TimeStretch(rs, index, f)
           between == {k \in KeysOf(rs) : f.since <= Entry(rs, k).time /\ Entry(rs, k).time <= f.until}
           chosen == {k \in Seqs!ToSet(s) : Matches(f, Entry(rs, k))}
<1>1. Lists(s, between, Newer(rs))
  BY TimeStretchLists
<1>2. Query(rs, index, f) = Picked(s, chosen)
  BY DEF Query
<1>3. Seqs!ToSet(s) = between
  BY <1>1 DEF Lists
<1>4. between \intersect chosen = {k \in KeysOf(rs) : Matches(f, Entry(rs, k))}
  BY <1>3 DEF Matches
<1> HIDE DEF s, between, chosen
<1>5. Lists(Picked(s, chosen), between \intersect chosen, Newer(rs))
  BY <1>1, PickedLists
<1> QED
  BY <1>2, <1>4, <1>5

\* The order that a reader asks for, as InOrder states it.
Ahead(sort, a, b) == IF sort[1] = "fan" /\ a.fan # b.fan THEN a.fan > b.fan ELSE Before(a, b)
By(rs, sort) ==
    {p \in KeysOf(rs) \X KeysOf(rs) :
       p[1] # p[2] /\ (Ahead(sort, Entry(rs, p[1]), Entry(rs, p[2])) <=> sort[2] = "desc")}

\* Two different rounds in the order of the index.
LEMMA NewerPairs ==
    ASSUME NEW rs, Storable(rs), NEW k \in KeysOf(rs), NEW l \in KeysOf(rs), <<k, l>> \in Newer(rs)
    PROVE  /\ k # l /\ Before(Entry(rs, k), Entry(rs, l)) /\ ~Before(Entry(rs, l), Entry(rs, k))
           /\ Entry(rs, k) \in RoundRecord /\ Entry(rs, l) \in RoundRecord
BY BeforeOrders, EntryIn DEF Newer, Storable

\* The buckets of BuildFanSortedStatsRounds, one after the other, list the rounds
\* by fan and then by time.
LEMMA FanSortedLists ==
    ASSUME NEW rs, Storable(rs), NEW keys, NEW L, L \subseteq KeysOf(rs), Lists(keys, L, Newer(rs)),
           NEW sort \in Orders, sort[1] = "fan"
    PROVE  Lists(FanSorted(rs, keys, sort[2] = "desc"), L, By(rs, sort))
<1> DEFINE desc == sort[2] = "desc"
           Fan(k) == Entry(rs, k).fan
           found == {r.fan : r \in EntriesOf(rs, keys)}
           above == {p \in found \X found : IF desc THEN p[1] > p[2] ELSE p[1] < p[2]}
           fans == Sorted(found, above)
           Chosen(fan) == {k \in Seqs!ToSet(keys) : Fan(k) = fan}
           Bucket(fan) == Picked(keys, Chosen(fan))
           b == [i \in DOMAIN fans |-> IF desc THEN Bucket(fans[i]) ELSE Seqs!Reverse(Bucket(fans[i]))]
           Part == [i \in DOMAIN fans |-> L \intersect Chosen(fans[i])]
<1>1. Seqs!ToSet(keys) = L
  BY DEF Lists
<1>2. \A k \in L : Entry(rs, k) \in rs /\ Entry(rs, k) \in RoundRecord /\ Fan(k) \in Int
  BY EntryIn, SquaresAssumption DEF Storable, RoundRecord
<1>3. found = {Fan(k) : k \in L}
  BY <1>1 DEF EntriesOf
<1>4. IsFiniteSet(found)
  <2>1. IsFiniteSet(L)
    <3>1. \A x \in L : <<x, x>> \notin Newer(rs)
      BY NewerPairs
    <3> QED
      BY <3>1, ListCounts
  <2> DEFINE g == [k \in L |-> Fan(k)]
  <2>2. g \in Surjection(L, found)
    BY <1>3 DEF Surjection
  <2> HIDE DEF g, found
  <2> QED
    BY <2>1, <2>2, FS_Surjection
<1>5. FanSorted(rs, keys, desc) = Seqs!FlattenSeq(b)
  BY DEF FanSorted
<1>6. \A x, y \in found : /\ x \in Int /\ y \in Int
                          /\ <<x, y>> \in above <=> IF desc THEN x > y ELSE x < y
  BY <1>2, <1>3
<1> HIDE DEF found, above
<1>7. Ordering(found, above)
  <2> HIDE DEF desc
  <2> QED
    BY <1>6 DEF Ordering
<1>8. Lists(fans, found, above)
  BY <1>4, <1>7, SortedLists
<1> HIDE DEF fans
<1>9. /\ Len(fans) \in Nat /\ DOMAIN fans = 1..Len(fans)
      /\ \A i \in DOMAIN fans : fans[i] \in found
      /\ \A x \in found : \E i \in DOMAIN fans : fans[i] = x
  <2>1. fans \in Seq(found) /\ Seqs!ToSet(fans) = found
    BY <1>8 DEF Lists
  <2>2. \A x \in found : \E i \in DOMAIN fans : fans[i] = x
    BY <2>1 DEF Seqs!ToSet
  <2> QED
    BY <2>1, <2>2
<1>10. \A i \in DOMAIN fans : Part[i] \subseteq L /\ \A k \in Part[i] : Fan(k) = fans[i]
  OBVIOUS
<1>11. \A k \in L : \E i \in DOMAIN fans : k \in Part[i]
  <2> SUFFICES ASSUME NEW k \in L PROVE \E i \in DOMAIN fans : k \in Part[i]
    OBVIOUS
  <2>1. Fan(k) \in found
    BY <1>3
  <2>2. PICK i \in DOMAIN fans : fans[i] = Fan(k)
    BY <1>9, <2>1
  <2>3. k \in Chosen(fans[i])
    BY <1>1, <2>2
  <2> QED
    BY <2>3
<1>12. ASSUME NEW i \in DOMAIN fans PROVE Lists(b[i], Part[i], By(rs, sort))
  <2> DEFINE c == Bucket(fans[i])
  <2>1. Lists(c, Part[i], Newer(rs))
    <3> HIDE DEF Chosen
    <3> QED
      BY PickedLists
  <2>2. ASSUME NEW x \in Part[i], NEW y \in Part[i], <<x, y>> \in Newer(rs)
        PROVE  /\ x \in KeysOf(rs) /\ y \in KeysOf(rs) /\ x # y
               /\ Ahead(sort, Entry(rs, x), Entry(rs, y)) /\ ~Ahead(sort, Entry(rs, y), Entry(rs, x))
    <3>1. x \in L /\ y \in L /\ Fan(x) = Fan(y)
      BY <1>10
    <3> QED
      BY <2>2, <3>1, NewerPairs DEF Ahead
  <2> HIDE DEF c, Bucket, Part
  <2>3. CASE desc
    <3>1. b[i] = c
      BY <2>3 DEF c
    <3>2. \A x, y \in Part[i] : <<x, y>> \in Newer(rs) => <<x, y>> \in By(rs, sort)
      BY <2>2, <2>3 DEF By
    <3> HIDE DEF b
    <3> QED
      BY <2>1, <3>1, <3>2, WeakerLists
  <2>4. CASE ~desc
    <3>1. b[i] = Seqs!Reverse(c)
      BY <2>4 DEF c
    <3>2. \A x, y \in Part[i] : <<x, y>> \in Newer(rs) => <<y, x>> \in By(rs, sort)
      BY <2>2, <2>4 DEF By
    <3> HIDE DEF b
    <3> QED
      BY <2>1, <3>1, <3>2, ReversedLists
  <2> QED
    BY <2>3, <2>4
<1>13. ASSUME NEW i \in DOMAIN fans, NEW j \in DOMAIN fans, i < j, NEW x \in Part[i], NEW y \in Part[j]
       PROVE  <<x, y>> \in By(rs, sort)
  <2>1. x \in L /\ y \in L /\ Fan(x) = fans[i] /\ Fan(y) = fans[j]
    BY <1>10
  <2>2. <<fans[i], fans[j]>> \in above /\ fans[i] \in found /\ fans[j] \in found
    BY <1>8, <1>9, <1>13 DEF Lists
  <2>3. Fan(x) \in Int /\ Fan(y) \in Int /\ IF desc THEN Fan(x) > Fan(y) ELSE Fan(x) < Fan(y)
    BY <1>6, <2>1, <2>2
  <2>4. Fan(x) # Fan(y) /\ x # y /\ (Fan(x) > Fan(y) <=> desc)
    BY <2>3
  <2> QED
    BY <2>1, <2>4 DEF By, Ahead
<1> HIDE DEF Part, Bucket
<1>14. DOMAIN b = DOMAIN fans /\ Len(b) = Len(fans) /\ b \in Seq({b[i] : i \in DOMAIN fans})
  <2>1. b \in [1..Len(fans) -> {b[i] : i \in DOMAIN fans}]
    BY <1>9
  <2> HIDE DEF b
  <2> QED
    BY <1>9, <2>1
<1> HIDE DEF b
<1>15. Lists(Seqs!FlattenSeq(b), UNION {Part[i] : i \in 1..Len(b)}, By(rs, sort))
  <2> DEFINE T == {b[i] : i \in DOMAIN fans}
  <2>1. b \in Seq(T) /\ 1..Len(b) = DOMAIN fans
    BY <1>9, <1>14
  <2> HIDE DEF T
  <2>2. \A i \in 1..Len(b) : Lists(b[i], Part[i], By(rs, sort))
    BY <1>12, <2>1
  <2>3. \A i, j \in 1..Len(b) : i < j => \A x \in Part[i] : \A y \in Part[j] : <<x, y>> \in By(rs, sort)
    BY <1>13, <2>1
  <2> QED
    BY <2>1, <2>2, <2>3, FlattenedLists
<1>16. UNION {Part[i] : i \in 1..Len(b)} = L
  BY <1>9, <1>10, <1>11, <1>14
<1> QED
  BY <1>5, <1>15, <1>16

\* So do all orders that a reader may ask for.
LEMMA RecordOrderLists ==
    ASSUME NEW rs, Storable(rs), NEW keys, NEW L, L \subseteq KeysOf(rs), Lists(keys, L, Newer(rs)),
           NEW sort \in Orders
    PROVE  Lists(RecordOrder(rs, keys, sort), L, By(rs, sort))
<1>1. sort[1] \in {"time", "fan"} /\ sort[2] \in {"asc", "desc"}
  BY DEF Orders
<1>2. CASE sort[1] = "fan"
  <2>1. RecordOrder(rs, keys, sort) = FanSorted(rs, keys, sort[2] = "desc")
    BY <1>2 DEF RecordOrder
  <2> QED
    BY <1>2, <2>1, FanSortedLists
<1>3. CASE sort[1] # "fan"
  <2>1. ASSUME NEW x \in L, NEW y \in L, <<x, y>> \in Newer(rs)
        PROVE  /\ x \in KeysOf(rs) /\ y \in KeysOf(rs) /\ x # y
               /\ Ahead(sort, Entry(rs, x), Entry(rs, y)) /\ ~Ahead(sort, Entry(rs, y), Entry(rs, x))
    BY <1>3, <2>1, NewerPairs DEF Ahead
  <2>2. CASE sort[2] = "desc"
    <3>1. RecordOrder(rs, keys, sort) = keys
      BY <1>3, <2>2 DEF RecordOrder
    <3>2. \A x, y \in L : <<x, y>> \in Newer(rs) => <<x, y>> \in By(rs, sort)
      BY <2>1, <2>2 DEF By
    <3> QED
      BY <3>1, <3>2, WeakerLists
  <2>3. CASE sort[2] # "desc"
    <3>1. RecordOrder(rs, keys, sort) = Seqs!Reverse(keys)
      BY <1>3, <2>3 DEF RecordOrder
    <3>2. \A x, y \in L : <<x, y>> \in Newer(rs) => <<y, x>> \in By(rs, sort)
      BY <2>1, <2>3 DEF By
    <3> QED
      BY <3>1, <3>2, ReversedLists
  <2> QED
    BY <2>2, <2>3
<1> QED
  BY <1>2, <1>3

\* What is listed by an order is in that order, and its entries are those of its keys.
LEMMA ListsInOrder ==
    ASSUME Storable(rounds), NEW s, NEW L, L \subseteq KeysOf(rounds), NEW sort \in Orders,
           Lists(s, L, By(rounds, sort))
    PROVE  /\ InOrder(s, sort) /\ EntriesOf(rounds, s) = {r \in rounds : r.key \in L}
           /\ IsFiniteSet(L) /\ Len(s) = Cardinality(L)
<1>1. \A i, j \in DOMAIN s : i < j => <<s[i], s[j]>> \in By(rounds, sort)
  BY DEF Lists
<1>2. InOrder(s, sort)
  <2>1. \A i, j \in DOMAIN s : i < j =>
          (Ahead(sort, Entry(rounds, s[i]), Entry(rounds, s[j])) <=> sort[2] = "desc")
    BY <1>1 DEF By
  <2> QED
    BY <2>1, Zenon DEF InOrder, Ahead
<1>3. Seqs!ToSet(s) = L
  BY DEF Lists
<1>4. EntriesOf(rounds, s) = {r \in rounds : r.key \in L}
  <2>1. \A k \in L : Entry(rounds, k) \in rounds /\ Entry(rounds, k).key = k
    BY EntryIn
  <2>2. \A r \in rounds : Entry(rounds, r.key) = r
    BY EntryOf DEF Storable
  <2> QED
    BY <1>3, <2>1, <2>2 DEF EntriesOf
<1>5. \A x \in L : <<x, x>> \notin By(rounds, sort)
  BY DEF By
<1>6. IsFiniteSet(L) /\ Cardinality(L) = Len(s)
  BY <1>5, ListCounts
<1> QED
  BY <1>2, <1>4, <1>6

\* The index has every round once, newest first, in memory and in the table.
IndexInv ==
    /\ Keyed(rows) /\ Keyed(rounds)
    /\ Lists(order, KeysOf(rounds), Newer(rounds))

\* At the start there is nothing to list.
LEMMA IndexInit == StatsInit => IndexInv
<1> SUFFICES ASSUME StatsInit PROVE IndexInv
  OBVIOUS
<1>1. rows = {} /\ rounds = {} /\ order = <<>>
  BY DEF StatsInit
<1>2. KeysOf({}) = {}
  BY DEF KeysOf
<1> QED
  BY <1>1, <1>2 DEF IndexInv, Keyed, Lists, Seqs!ToSet

\* Every change of the rounds makes the index anew, and no two get the same key.
LEMMA IndexStep == RoundsInv /\ RoundsInv' /\ IndexInv /\ [StatsNext]_statsVars => IndexInv'
<1> SUFFICES ASSUME RoundsInv, RoundsInv', IndexInv, [StatsNext]_statsVars PROVE IndexInv'
  OBVIOUS
<1>1. ASSUME Keyed(rounds'), order' = TimeIndex(rounds') PROVE Lists(order', KeysOf(rounds'), Newer(rounds'))
  <2>1. Storable(rounds')
    BY <1>1 DEF RoundsInv, Storable
  <2> QED
    BY <1>1, <2>1, TimeIndexLists
<1>2. ASSUME NEW record \in Records, Upsert(record) PROVE IndexInv'
  <2> DEFINE r == Projected(record)
  <2>1. r \in RoundRecord
    BY RecordsAssumption, ProjectedSound
  <2>2. /\ rows' = {q \in rows : q.key # r.key} \cup {ReadBack(r)}
        /\ rounds' = {q \in rounds : q.key # r.key} \cup {r}
        /\ order' = TimeIndex(rounds')
    BY <1>2 DEF Upsert, Persisted
  <2> HIDE DEF r
  <2>3. ReadBack(r).key = r.key
    BY <2>1 DEF ReadBack, RoundRecord
  <2>4. Keyed(rows') /\ Keyed(rounds')
    BY <2>2, <2>3 DEF IndexInv, Keyed
  <2> QED
    BY <1>1, <2>2, <2>4 DEF IndexInv
<1>3. CASE LoadFromDatabase
  <2>1. rows' = rows /\ rounds' = rows /\ order' = TimeIndex(rounds')
    BY <1>3 DEF LoadFromDatabase
  <2>2. Keyed(rows') /\ Keyed(rounds')
    BY <2>1 DEF IndexInv
  <2> QED
    BY <1>1, <2>1, <2>2 DEF IndexInv
<1>4. CASE UNCHANGED <<rows, rounds, order>>
  BY <1>4 DEF IndexInv
<1>5. ASSUME NEW c \in Readers,
             \/ OpenStats(c) \/ CloseStats(c)
             \/ \E q \in Asked \cup {Overall} : AskStats(c, q)
             \/ \E sort \in Sorts : AskRecords(c, sort)
             \/ RefreshForRecords(c) \/ ReadVersion(c) \/ RunQuery(c) \/ Compare(c) \/ Store(c) \/ Sort(c)
      PROVE  UNCHANGED <<rows, rounds, order>>
  BY <1>5 DEF OpenStats, CloseStats, AskStats, AskRecords, RefreshForRecords, ReadVersion, RunQuery,
              Compare, Store, Sort
<1> QED
  BY <1>2, <1>3, <1>4, <1>5 DEF StatsNext, statsVars

\* With such an index the answers are true.
LEMMA AnswersFollow == RoundsInv /\ IndexInv => AnswersTrue
<1> SUFFICES ASSUME RoundsInv, IndexInv, NEW q \in Asked \cup {Overall}
             PROVE  LET keys == ResultFor(q)
                    IN  /\ EntriesOf(rounds, keys) = Wanted(q)
                        /\ InOrder(keys, <<"time", "desc">>)
                        /\ \A sort \in Orders :
                             LET sorted == RecordOrder(rounds, keys, sort)
                             IN  /\ EntriesOf(rounds, sorted) = Wanted(q) /\ Len(sorted) = Len(keys)
                                 /\ InOrder(sorted, sort)
  BY DEF AnswersTrue
<1> DEFINE keys == ResultFor(q)
           L == {k \in KeysOf(rounds) : q # Overall => Matches(FilterOf(q), Entry(rounds, k))}
           newest == <<"time", "desc">>
<1>1. Storable(rounds)
  BY DEF RoundsInv, IndexInv, Storable
<1>2. Lists(keys, L, Newer(rounds))
  <2>1. CASE q = Overall
    <3>1. keys = order /\ L = KeysOf(rounds)
      BY <2>1 DEF ResultFor
    <3> HIDE DEF keys, L
    <3> QED
      BY <3>1 DEF IndexInv
  <2>2. CASE q # Overall
    <3>1. q \in Filter
      BY <2>2, FiltersAssumption
    <3>2. FilterOf(q).since \in Int /\ FilterOf(q).until \in Int
      BY <3>1 DEF FilterOf, Filter
    <3>3. keys = Query(rounds, order, FilterOf(q))
      BY <2>2 DEF ResultFor
    <3>4. L = {k \in KeysOf(rounds) : Matches(FilterOf(q), Entry(rounds, k))}
      BY <2>2
    <3> HIDE DEF keys, L
    <3>5. Lists(order, KeysOf(rounds), Newer(rounds))
      BY DEF IndexInv
    <3> QED
      BY <1>1, <3>2, <3>3, <3>4, <3>5, QueryLists
  <2> QED
    BY <2>1, <2>2
<1>3. L \subseteq KeysOf(rounds)
  OBVIOUS
<1>4. {r \in rounds : r.key \in L} = Wanted(q)
  <2>1. \A r \in rounds : r.key \in KeysOf(rounds) /\ Entry(rounds, r.key) = r
    BY <1>1, EntryOf DEF Storable
  <2> QED
    BY <2>1 DEF Wanted
<1> HIDE DEF keys, L
<1>5. newest \in Orders /\ newest[1] = "time" /\ newest[2] = "desc"
  BY DEF Orders
<1> HIDE DEF newest
<1>6. ASSUME NEW sort \in Orders
      PROVE  /\ EntriesOf(rounds, RecordOrder(rounds, keys, sort)) = Wanted(q)
             /\ InOrder(RecordOrder(rounds, keys, sort), sort)
             /\ Len(RecordOrder(rounds, keys, sort)) = Cardinality(L)
  <2> DEFINE s == RecordOrder(rounds, keys, sort)
  <2>1. Lists(s, L, By(rounds, sort))
    BY <1>1, <1>2, <1>3, RecordOrderLists
  <2> HIDE DEF s
  <2>2. InOrder(s, sort) /\ EntriesOf(rounds, s) = {r \in rounds : r.key \in L} /\ Len(s) = Cardinality(L)
    BY <1>1, <1>3, <2>1, ListsInOrder
  <2> QED
    BY <1>4, <2>2 DEF s
<1>7. RecordOrder(rounds, keys, newest) = keys
  BY <1>5 DEF RecordOrder
<1> QED
  BY <1>5, <1>6, <1>7 DEF newest, keys

\* A query has exactly the rounds that match, newest first, although it looks only
\* at the stretch between two bisections, and each of the four orders made of it has the
\* same rounds as it should; for any rounds, filters, additions and restarts.
THEOREM AnswersTrueHolds == StatsSpec => []AnswersTrue
<1>1. StatsInit => RoundsInv /\ IndexInv
  BY IndexInit, FS_EmptySet DEF StatsInit, RoundsInv
<1>2. RoundsInv /\ IndexInv /\ [StatsNext]_statsVars => RoundsInv' /\ IndexInv'
  BY RoundsStep, IndexStep
<1> QED
  BY <1>1, <1>2, AnswersFollow, PTL DEF StatsSpec

\* A handler is somewhere on its way, and the version stays within its bound.
HandlersInv ==
    /\ version \in 0..MaxVersion
    /\ reading \in [Readers -> {"closed", "idle", "version", "query", "compare", "store",
                                "refresh", "sort"}]

\* Each handler goes on to a place of its own.
LEMMA HandlersStep == CacheInv /\ HandlersInv /\ [StatsNext]_statsVars => HandlersInv'
<1> SUFFICES ASSUME CacheInv, HandlersInv, [StatsNext]_statsVars PROVE HandlersInv'
  OBVIOUS
<1>1. ASSUME NEW record \in Records, Upsert(record) PROVE HandlersInv'
  BY <1>1, MaxVersionAssumption DEF Upsert, HandlersInv
<1>2. CASE LoadFromDatabase
  BY <1>2, MaxVersionAssumption DEF LoadFromDatabase, HandlersInv
<1>3. ASSUME NEW c \in Readers,
             \/ OpenStats(c) \/ CloseStats(c)
             \/ \E q \in Asked \cup {Overall} : AskStats(c, q)
             \/ \E sort \in Sorts : AskRecords(c, sort)
             \/ RefreshForRecords(c) \/ ReadVersion(c) \/ RunQuery(c)
             \/ Compare(c) \/ Store(c) \/ Sort(c)
      PROVE  HandlersInv'
  <2>1. wanted[c].then \in {"idle", "refresh", "sort"}
    BY DEF CacheInv, Building
  <2>2. version' = version /\ \E from : \E to \in {"closed", "idle", "version", "query", "compare", "store",
                                                   "refresh", "sort"} : Step(c, from, to)
    BY <1>3, <2>1, Zenon DEF OpenStats, CloseStats, AskStats, AskRecords, RefreshForRecords, ReadVersion,
                      RunQuery, Compare, Store, Sort
  <2> QED
    BY <2>2 DEF HandlersInv, Step
<1>4. CASE UNCHANGED statsVars
  BY <1>4 DEF statsVars, HandlersInv
<1> QED
  BY <1>1, <1>2, <1>3, <1>4 DEF StatsNext

\* The service and its readers keep their shapes: rows and rounds have keys of their
\* own, the index has those of all rounds, and a handler is somewhere on its way.
THEOREM StatsTypeCorrect == StatsSpec => []StatsTypeOK
<1>1. StatsInit => RoundsInv /\ IndexInv /\ CacheInv /\ HandlersInv
  <2>1. StatsInit => HandlersInv
    BY MaxVersionAssumption DEF StatsInit, HandlersInv
  <2> QED
    BY <2>1, StatsInitInv, IndexInit, FS_EmptySet DEF StatsInit, RoundsInv
<1>2. RoundsInv /\ IndexInv /\ CacheInv /\ HandlersInv /\ [StatsNext]_statsVars
        => RoundsInv' /\ IndexInv' /\ CacheInv' /\ HandlersInv'
  BY RoundsStep, IndexStep, StatsStepInv, HandlersStep
<1>3. RoundsInv /\ IndexInv /\ CacheInv /\ HandlersInv => StatsTypeOK
  BY DEF IndexInv, Keyed, Lists, KeysOf, CacheInv, Building, HandlersInv, StatsTypeOK
<1> QED
  BY <1>1, <1>2, <1>3, PTL DEF StatsSpec

\* A cached result that is still used is what the table would answer now, and every
\* order kept with it is right: for any number of readers, rounds, additions
\* and restarts, in any order of their steps.
THEOREM CacheTrueHolds == StatsSpec => []CacheTrue
BY CacheAsTrue, AnswersTrueHolds, PTL

=============================================================================
