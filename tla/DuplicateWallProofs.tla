-------------------------- MODULE DuplicateWallProofs --------------------------
(***************************************************************************)
(* The wall of a duplicate game serves every seat from its own part first  *)
(* and hands out every tile once, for every size of the parts.             *)
(***************************************************************************)
EXTENDS DuplicateWall, FiniteSetTheorems, TLAPS

USE QuarterAssumption

-----------------------------------------------------------------------------
(* The layout of the ring.                                                 *)

Zone(s) == Starts[s] .. Starts[s] + Quarter - 1

LEMMA Layout ==
  /\ Starts[0] = 0 /\ Starts[1] = 3 * Quarter
  /\ Starts[2] = 2 * Quarter /\ Starts[3] = Quarter
  /\ Ends[0] = Quarter /\ Ends[1] = 0
  /\ Ends[2] = 3 * Quarter /\ Ends[3] = 2 * Quarter
BY DEF Starts, Ends, Seats

LEMMA ZonesOnRing ==
  \A s \in Seats : /\ Starts[s] \in Zone(s)
                   /\ Zone(s) \subseteq 0 .. Stacks - 1
                   /\ Ends[s] \notin Zone(s)
BY Layout DEF Zone, Seats, Stacks

LEMMA ZonesDisjoint ==
  ASSUME NEW s \in Seats, NEW t \in Seats, NEW i \in Zone(s), i \in Zone(t)
  PROVE  s = t
BY Layout DEF Zone, Seats

\* The index that leaves its part becomes the end index of that part.
LEMMA Advance ==
  ASSUME NEW s \in Seats, NEW i \in Zone(s)
  PROVE  (i + 1) % Stacks = IF i + 1 \in Zone(s) THEN i + 1 ELSE Ends[s]
<1> DEFINE n == Stacks
<1>1. n \in Nat \ {0} /\ i \in 0 .. n - 1
  BY ZonesOnRing DEF Stacks
<1>2. (i + 1) % n = IF i + 1 = n THEN 0 ELSE i + 1
  <2> HIDE DEF n
  <2> QED BY <1>1, Z3
<1>3. QED
  BY <1>2, Layout DEF Zone, Seats, Stacks

LEMMA PlaceOfZone ==
  /\ \A s \in Seats : \A i \in Zone(s) : Upper(i) \in Places /\ Lower(i) \in Places
  /\ \A p \in Places : \E s \in Seats : \E i \in Zone(s) : p = Upper(i) \/ p = Lower(i)
<1>1. \A s \in Seats : \A i \in Zone(s) : Upper(i) \in Places /\ Lower(i) \in Places
  BY Layout DEF Zone, Seats, Stacks, Upper, Lower, Places
<1>2. ASSUME NEW p \in Places
      PROVE  \E s \in Seats : \E i \in Zone(s) : p = Upper(i) \/ p = Lower(i)
  <2>1. PICK i \in 0 .. Stacks - 1 : p = 2 * i \/ p = 2 * i + 1
    <3>1. p \div 2 \in 0 .. Stacks - 1 /\ (p = 2 * (p \div 2) \/ p = 2 * (p \div 2) + 1)
      BY DEF Places, Stacks
    <3>2. QED
      BY <3>1
  <2>2. i \in Zone(0) \/ i \in Zone(1) \/ i \in Zone(2) \/ i \in Zone(3)
    BY Layout DEF Zone, Stacks
  <2>3. QED
    BY <2>1, <2>2 DEF Upper, Lower, Seats
<1>3. QED
  BY <1>1, <1>2

\* The places of one stack belong to that stack only.
LEMMA PlacesDiffer ==
  ASSUME NEW s \in Seats, NEW t \in Seats, NEW i \in Zone(s), NEW j \in Zone(t)
  PROVE  /\ Upper(i) # Lower(j)
         /\ Upper(i) = Upper(j) => s = t /\ i = j
         /\ Lower(i) = Lower(j) => s = t /\ i = j
<1>1. i \in Int /\ j \in Int
  BY Layout DEF Zone, Seats
<1>2. Upper(i) # Lower(j) /\ (Upper(i) = Upper(j) => i = j) /\ (Lower(i) = Lower(j) => i = j)
  BY <1>1 DEF Upper, Lower
<1>3. QED
  BY <1>2, ZonesDisjoint

\* The part of a seat holds the places of its zone.
LEMMA PartIsZone ==
  ASSUME NEW s \in Seats, NEW p \in Places
  PROVE  p \in Part(s) <=> \E i \in Zone(s) : p = Upper(i) \/ p = Lower(i)
<1>1. p \in 0 .. 8 * Quarter - 1
  BY DEF Places, Stacks
<1>2. Starts[s] \in Nat
  BY Layout DEF Seats
<1>3. ASSUME p \in Part(s) PROVE \E i \in Zone(s) : p = Upper(i) \/ p = Lower(i)
  <2>1. p \div 2 \in Zone(s) /\ (p = 2 * (p \div 2) \/ p = 2 * (p \div 2) + 1)
    BY <1>1, <1>2, <1>3 DEF Part, Zone, Upper
  <2>2. QED
    BY <2>1 DEF Upper, Lower
<1>4. ASSUME NEW i \in Zone(s), p = Upper(i) \/ p = Lower(i) PROVE p \in Part(s)
  BY <1>1, <1>2, <1>4 DEF Part, Zone, Upper, Lower
<1>5. QED
  BY <1>3, <1>4

-----------------------------------------------------------------------------
(* The inductive invariant: each part is used up from its first stack on.  *)

Counted == IsFiniteSet(there) /\ size = Cardinality(there)

Lasts(s) == fronts[s] # Ends[s]

PartUsedInOrder(s) ==
  /\ Lasts(s) => fronts[s] \in Zone(s)
  /\ \A i \in Zone(s) :
       /\ Lower(i) \in there <=> Lasts(s) /\ i >= fronts[s]
       /\ Upper(i) \in there => Lasts(s) /\ i >= fronts[s]
       /\ Lasts(s) /\ i > fronts[s] => Upper(i) \in there

PartsInv ==
  /\ there \subseteq Places /\ Counted
  /\ DOMAIN fronts = Seats
  /\ \A s \in Seats : PartUsedInOrder(s)

LEMMA FullCounted == IsFiniteSet(Places) /\ Cardinality(Places) = 2 * Stacks
<1>1. 0 \in Int /\ 2 * Stacks - 1 \in Int /\ 2 * Stacks \in Nat
  BY DEF Stacks
<1>2. QED
  BY <1>1, FS_Interval DEF Places

Prepared == there = Places /\ fronts = Starts /\ size = 2 * Stacks

LEMMA FullInv == Prepared => PartsInv
<1> SUFFICES ASSUME Prepared PROVE PartsInv
  OBVIOUS
<1>1. Counted
  BY FullCounted DEF Prepared, Counted
<1>2. DOMAIN fronts = Seats
  BY DEF Prepared, Starts
<1>3. ASSUME NEW s \in Seats PROVE PartUsedInOrder(s)
  <2>1. Lasts(s) /\ fronts[s] \in Zone(s)
    BY ZonesOnRing DEF Prepared, Lasts
  <2>2. \A i \in Zone(s) : i >= fronts[s]
    BY Layout DEF Prepared, Zone, Seats
  <2>3. QED
    BY <2>1, <2>2, PlaceOfZone DEF Prepared, PartUsedInOrder
<1>4. QED
  BY <1>1, <1>2, <1>3 DEF Prepared, PartsInv

\* A part serves exactly as long as it has a tile.
LEMMA ServesIsLasts ==
  ASSUME PartsInv, NEW s \in Seats
  PROVE  /\ Serves(s) <=> Lasts(s)
         /\ Lasts(s) => fronts[s] \in Zone(s) /\ Lower(fronts[s]) \in there
         /\ ~Lasts(s) => Part(s) \intersect there = {}
<1>1. PartUsedInOrder(s)
  BY DEF PartsInv
<1>2. ASSUME Lasts(s) PROVE fronts[s] \in Zone(s) /\ Lower(fronts[s]) \in there
  <2>1. fronts[s] \in Zone(s)
    BY <1>1, <1>2 DEF PartUsedInOrder
  <2>2. fronts[s] >= fronts[s]
    BY <2>1, Layout DEF Zone, Seats
  <2>3. QED
    BY <1>1, <1>2, <2>1, <2>2 DEF PartUsedInOrder
<1>3. Serves(s) <=> Lasts(s)
  BY <1>2 DEF Serves, Lasts
<1>4. ASSUME ~Lasts(s) PROVE Part(s) \intersect there = {}
  <2> SUFFICES ASSUME NEW p \in Part(s), p \in there PROVE FALSE
    OBVIOUS
  <2>1. p \in Places
    BY DEF Part
  <2>2. PICK i \in Zone(s) : p = Upper(i) \/ p = Lower(i)
    BY <2>1, PartIsZone
  <2>3. QED
    BY <1>1, <1>4, <2>2 DEF PartUsedInOrder
<1>5. QED
  BY <1>2, <1>3, <1>4

\* The recursion of draw_front ends.
LEMMA InvReturns == PartsInv => DrawReturns
<1> SUFFICES ASSUME PartsInv, size # 0 PROVE \E s \in Seats : Serves(s)
  BY DEF DrawReturns
<1>1. there # {}
  BY FS_EmptySet DEF PartsInv, Counted
<1>2. PICK p \in there : p \in Places
  BY <1>1 DEF PartsInv
<1>3. PICK s \in Seats : \E i \in Zone(s) : p = Upper(i) \/ p = Lower(i)
  BY <1>2, PlaceOfZone
<1>4. Lasts(s)
  BY <1>2, <1>3 DEF PartsInv, PartUsedInOrder
<1>5. QED
  BY <1>4, ServesIsLasts

-----------------------------------------------------------------------------
(* A draw.                                                                 *)

\* What a draw does: seat s is the first, from the caller on, whose part
\* lasts, and the next tile of that part is taken.
Served(seat, k, s, p) ==
  /\ s = Before(seat, k) /\ s \in Seats /\ Lasts(s)
  /\ \A j \in 0 .. k - 1 : Before(seat, j) \in Seats /\ ~Lasts(Before(seat, j))
  /\ p \in there /\ Take(p)
  /\ \/ p = Upper(fronts[s]) /\ fronts' = fronts
     \/ /\ p = Lower(fronts[s]) /\ Upper(fronts[s]) \notin there
        /\ fronts' = [fronts EXCEPT ![s] = (fronts[s] + 1) % Stacks]

LEMMA BeforeIsSeat ==
  ASSUME NEW seat \in Seats, NEW k \in 0 .. 3 PROVE Before(seat, k) \in Seats
BY DEF Before, Seats

LEMMA DrawServes ==
  ASSUME PartsInv, NEW seat \in Seats, DrawFront(seat)
  PROVE  \E k \in 0 .. 3 : \E s, p : Served(seat, k, s, p)
<1>1. PICK k \in 0 .. 3 :
        /\ Serves(Before(seat, k))
        /\ \A j \in 0 .. k - 1 : ~Serves(Before(seat, j))
        /\ \/ /\ Upper(fronts[Before(seat, k)]) \in there
              /\ Take(Upper(fronts[Before(seat, k)]))
              /\ UNCHANGED fronts
           \/ /\ Upper(fronts[Before(seat, k)]) \notin there
              /\ Take(Lower(fronts[Before(seat, k)]))
              /\ fronts' = [fronts EXCEPT ![Before(seat, k)] =
                              (fronts[Before(seat, k)] + 1) % Stacks]
  BY DEF DrawFront
<1> DEFINE s == Before(seat, k)
<1>2. s \in Seats
  BY BeforeIsSeat
<1>3. Lasts(s) /\ Lower(fronts[s]) \in there
  BY <1>1, <1>2, ServesIsLasts
<1>4. ASSUME NEW j \in 0 .. k - 1
      PROVE  Before(seat, j) \in Seats /\ ~Lasts(Before(seat, j))
  <2>1. j \in 0 .. 3
    OBVIOUS
  <2>2. Before(seat, j) \in Seats
    BY <2>1, BeforeIsSeat
  <2>3. QED
    BY <1>1, <2>2, ServesIsLasts
<1>5. CASE Upper(fronts[s]) \in there
  <2>1. Served(seat, k, s, Upper(fronts[s]))
    BY <1>1, <1>2, <1>3, <1>4, <1>5 DEF Served
  <2>2. QED
    BY <2>1
<1>6. CASE Upper(fronts[s]) \notin there
  <2>1. Served(seat, k, s, Lower(fronts[s]))
    BY <1>1, <1>2, <1>3, <1>4, <1>6 DEF Served
  <2>2. QED
    BY <2>1
<1>7. QED
  BY <1>5, <1>6

LEMMA ServedInv ==
  ASSUME PartsInv, NEW seat \in Seats, NEW k \in 0 .. 3, NEW s, NEW p,
         Served(seat, k, s, p)
  PROVE  PartsInv'
<1> DEFINE i == fronts[s]
<1>1. s \in Seats /\ Lasts(s) /\ i \in Zone(s) /\ p \in there
  BY ServesIsLasts DEF Served
<1>2. there' = there \ {p} /\ size' = size - 1
  BY DEF Served, Take
<1>3. Counted'
  <2>1. IsFiniteSet(there \ {p}) /\ Cardinality(there \ {p}) = Cardinality(there) - 1
    BY <1>1, FS_RemoveElement DEF PartsInv, Counted
  <2>2. QED
    BY <1>2, <2>1 DEF PartsInv, Counted
<1>4. DOMAIN fronts' = Seats /\ \A t \in Seats \ {s} : fronts'[t] = fronts[t]
  BY DEF PartsInv, Served
<1>5. ASSUME NEW t \in Seats \ {s} PROVE PartUsedInOrder(t)'
  <2>1. PartUsedInOrder(t)
    BY DEF PartsInv
  <2>2. fronts'[t] = fronts[t]
    BY <1>4
  <2>3. p = Upper(i) \/ p = Lower(i)
    BY DEF Served
  <2>4. \A j \in Zone(t) : Upper(j) # p /\ Lower(j) # p
    BY <1>1, <2>3, PlacesDiffer
  <2>5. QED
    BY <1>2, <2>1, <2>2, <2>4 DEF PartUsedInOrder, Lasts
<1>6. PartUsedInOrder(s)'
  <2>1. PartUsedInOrder(s)
    BY <1>1 DEF PartsInv
  <2>2. Zone(s) \subseteq Int
    BY <1>1, ZonesOnRing
  <2>3. CASE p = Upper(i) /\ fronts' = fronts
    <3>1. \A j \in Zone(s) : Lower(j) # p /\ (j # i => Upper(j) # p)
      BY <1>1, <2>3, PlacesDiffer
    <3>2. QED
      BY <1>1, <1>2, <2>1, <2>2, <2>3, <3>1 DEF PartUsedInOrder, Lasts
  <2>4. CASE /\ p = Lower(i) /\ Upper(i) \notin there
             /\ fronts' = [fronts EXCEPT ![s] = (i + 1) % Stacks]
    <3>1. \A j \in Zone(s) : Upper(j) # p /\ (j # i => Lower(j) # p)
      BY <1>1, <2>4, PlacesDiffer
    <3>2. fronts'[s] = IF i + 1 \in Zone(s) THEN i + 1 ELSE Ends[s]
      BY <1>1, <2>4, Advance DEF PartsInv
    <3>3. CASE i + 1 \in Zone(s)
      <4>1. fronts'[s] = i + 1 /\ fronts'[s] # Ends[s]
        BY <1>1, <3>2, <3>3, ZonesOnRing
      <4>2. QED
        BY <1>1, <1>2, <2>1, <2>2, <2>4, <3>1, <3>3, <4>1 DEF PartUsedInOrder, Lasts
    <3>4. CASE i + 1 \notin Zone(s)
      <4>1. fronts'[s] = Ends[s]
        BY <3>2, <3>4
      <4>2. \A j \in Zone(s) : j <= i
        BY <1>1, <3>4, Layout DEF Zone, Seats
      <4>3. \A j \in Zone(s) : Upper(j) \notin there' /\ Lower(j) \notin there'
        BY <1>1, <1>2, <2>1, <2>2, <2>4, <3>1, <4>2 DEF PartUsedInOrder
      <4>4. QED
        BY <4>1, <4>3 DEF PartUsedInOrder, Lasts
    <3>5. QED
      BY <3>3, <3>4
  <2>5. QED
    BY <2>3, <2>4 DEF Served
<1>7. QED
  BY <1>2, <1>3, <1>4, <1>5, <1>6 DEF PartsInv

LEMMA FirstOfPart ==
  ASSUME PartsInv, NEW seat \in Seats, NEW k \in 0 .. 3, NEW s, NEW p,
         Served(seat, k, s, p)
  PROVE  /\ p \in Part(s) /\ \A q \in Part(s) \intersect there : p <= q
         /\ \A j \in 0 .. k - 1 : Part(Before(seat, j)) \intersect there = {}
<1> DEFINE i == fronts[s]
<1>1. s \in Seats /\ Lasts(s) /\ i \in Zone(s) /\ p \in there /\ p \in Places
  BY ServesIsLasts DEF Served, PartsInv
<1>2. p = Upper(i) \/ (p = Lower(i) /\ Upper(i) \notin there)
  BY DEF Served
<1>3. p \in Part(s)
  BY <1>1, <1>2, PartIsZone
<1>4. ASSUME NEW q \in Part(s) \intersect there PROVE p <= q
  <2>1. q \in Places
    BY DEF Part
  <2>2. PICK j \in Zone(s) : q = Upper(j) \/ q = Lower(j)
    BY <1>1, <2>1, PartIsZone
  <2>3. j >= i
    BY <1>1, <2>2 DEF PartsInv, PartUsedInOrder
  <2>4. i \in Int /\ j \in Int
    BY <1>1, ZonesOnRing
  <2>5. QED
    BY <1>2, <2>2, <2>3, <2>4 DEF Upper, Lower
<1>5. \A j \in 0 .. k - 1 : Part(Before(seat, j)) \intersect there = {}
  BY ServesIsLasts DEF Served
<1>6. QED
  BY <1>3, <1>4, <1>5

-----------------------------------------------------------------------------
(* The theorems.                                                           *)

OwnFirst ==
  there' # there /\ there' \subseteq there =>
    \E k \in 0 .. 3 :
      LET part == Part(Before(drawer', k)) \intersect there
      IN  /\ drawn' \in part /\ \A p \in part : drawn' <= p
          /\ \A j \in 0 .. k - 1 : Part(Before(drawer', j)) \intersect there = {}

LEMMA InvOfInit == Init => PartsInv /\ Supply!Init
BY FullInv DEF Init, Prepared, Supply!Init

LEMMA InvOfNext ==
  PartsInv /\ [Next]_vars => PartsInv' /\ [Supply!Next]_<<there, drawn>> /\ OwnFirst
<1> SUFFICES ASSUME PartsInv, [Next]_vars
             PROVE  PartsInv' /\ [Supply!Next]_<<there, drawn>> /\ OwnFirst
  OBVIOUS
<1>1. CASE Prepare
  <2>1. PartsInv'
    <3>1. Prepared'
      BY <1>1 DEF Prepare, Prepared
    <3>2. QED
      BY <3>1, FullInv, PTL
  <2>2. Supply!Refill
    BY <1>1 DEF Prepare, Supply!Refill
  <2>3. OwnFirst
    BY <1>1 DEF Prepare, PartsInv, OwnFirst
  <2>4. QED
    BY <2>1, <2>2, <2>3 DEF Supply!Next
<1>2. ASSUME NEW seat \in Seats, DrawFront(seat)
      PROVE  PartsInv' /\ [Supply!Next]_<<there, drawn>> /\ OwnFirst
  <2>1. PICK k \in 0 .. 3 : \E s, p : Served(seat, k, s, p)
    BY <1>2, DrawServes
  <2>2. PICK s, p : Served(seat, k, s, p)
    BY <2>1
  <2>3. p \in there /\ there' = there \ {p} /\ drawn' = p /\ drawer' = seat
        /\ s = Before(seat, k)
    BY <1>2, <2>2 DEF Served, Take, DrawFront
  <2>4. Supply!Draw
    BY <2>3 DEF Supply!Draw
  <2>5. OwnFirst
    BY <2>2, <2>3, FirstOfPart DEF OwnFirst
  <2>6. PartsInv'
    BY <2>2, ServedInv
  <2>7. QED
    BY <2>4, <2>5, <2>6 DEF Supply!Next
<1>3. ASSUME NEW seat \in Seats, RefuseDraw(seat)
      PROVE  PartsInv' /\ [Supply!Next]_<<there, drawn>> /\ OwnFirst
  <2>1. there = {}
    BY <1>3, FS_EmptySet DEF RefuseDraw, PartsInv, Counted
  <2>2. Supply!Refuse
    BY <1>3, <2>1 DEF RefuseDraw, Supply!Refuse
  <2>3. PartsInv' /\ OwnFirst
    BY <1>3 DEF RefuseDraw, PartsInv, Counted, PartUsedInOrder, Lasts, OwnFirst
  <2>4. QED
    BY <2>2, <2>3 DEF Supply!Next
<1>4. CASE UNCHANGED vars
  BY <1>4 DEF vars, PartsInv, Counted, PartUsedInOrder, Lasts, OwnFirst
<1>5. QED
  BY <1>1, <1>2, <1>3, <1>4 DEF Next

\* draw_front never calls itself for ever: while a tile is left some part
\* serves the caller.
THEOREM DrawReturnsHolds == Spec => []DrawReturns
BY InvOfInit, InvOfNext, InvReturns, PTL DEF Spec

\* The wall keeps the promise of TileSupply, in whatever order the seats draw.
THEOREM DuplicateWallRefinesSupply == Spec => ImplementsSupply
<1>1. Spec => Supply!Init /\ [][Supply!Next]_<<there, drawn>>
  BY InvOfInit, InvOfNext, PTL DEF Spec
<1>2. QED
  BY <1>1 DEF ImplementsSupply, Supply!Spec

\* Each seat gets the tiles of its own part in their order as long as there
\* are any, whatever the other seats draw.
THEOREM OwnPartFirstHolds == Spec => OwnPartFirst
<1>1. PartsInv /\ [Next]_vars => [OwnFirst]_vars
  BY InvOfNext
<1>2. Spec => [][OwnFirst]_vars
  BY InvOfInit, InvOfNext, <1>1, PTL DEF Spec
<1>3. QED
  BY <1>2 DEF OwnPartFirst, OwnFirst

=============================================================================
