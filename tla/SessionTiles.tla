------------------------------ MODULE SessionTiles ------------------------------
(***************************************************************************)
(* Theorems about the tiles of a round, for every value of the constants:  *)
(* every hand has its number of tiles whenever somebody may act on it, and *)
(* no tile of the wall is lost or played twice.  The invariant TileInv     *)
(* says, for each phase of a round and of its deal, what the seats hold.   *)
(*                                                                         *)
(* With it a session is shown to play the game of TableRules: TurnInv says *)
(* that the transition to come may follow the one before.                  *)
(***************************************************************************)
EXTENDS SessionProofs

-----------------------------------------------------------------------------
(* The tiles of a round.                                                   *)

\* What the first n steps of the deal have given to seat s: four tiles three
\* times round the table, and one more.
DealtTo(n, s) ==
  IF n <= 12 THEN 4 * ((n + 3 - s) \div 4) ELSE IF n - 12 > s THEN 13 ELSE 12
DealtUpTo(n) == \A s \in Seats : tiles[s] = [NoTiles EXCEPT !.hand = DealtTo(n, s)]

Counts == [hand : Nat, drawn : 0..1, chows : Nat, pungs : Nat, kongs : Nat, pile : Nat]
Conserved ==
  wall + Held(tiles[0]) + Held(tiles[1]) + Held(tiles[2]) + Held(tiles[3]) = WallTiles

\* The hands while nobody is on turn, and with the player on turn.
Waiting(s) == tiles[s].drawn = 0 /\ tiles[s].hand + 3 * Melds(tiles[s]) = 13
TookDraw(s) == tiles[s].drawn = 1 /\ tiles[s].hand + 3 * Melds(tiles[s]) = 13
TookMeld(s) == tiles[s].drawn = 0 /\ tiles[s].hand + 3 * Melds(tiles[s]) = 14

Passive == {"DiscardTile", "MeldedKong", "AddedKong", "ConcealedKong",
            "DiscardWin", "RobAddedKongWin", "DrawnGame"}

\* The hands after the last transition.
ShapeInv ==
  /\ last.kind \in Passive => \A s \in Seats : Waiting(s)
  /\ last.kind \in {"DrawTile", "SelfDrawnWin"} =>
       \A s \in Seats : IF s = last.seat THEN TookDraw(s) ELSE Waiting(s)
  /\ last.kind \in {"Chow", "Pung"} =>
       \A s \in Seats : IF s = last.seat THEN TookMeld(s) ELSE Waiting(s)
  /\ last.kind = "DiscardTile" => tiles[last.seat].pile >= 1

\* A declaration or a reaction that the server offers can be made with the hand.
DeclareFits(s) ==
  /\ "ConcealedHand" \in declare => tiles[s].hand >= 4
  /\ "ConcealedDraw" \in declare => tiles[s].drawn = 1 /\ tiles[s].hand >= 3
  /\ "AddedHand" \in declare => tiles[s].pungs >= 1 /\ tiles[s].hand >= 1
  /\ "AddedDraw" \in declare => tiles[s].drawn = 1 /\ tiles[s].pungs >= 1
ReactionFits(kind, s) ==
  IF kind = "MeldedKong" THEN tiles[s].hand >= 3 ELSE tiles[s].hand >= 2
OfferInv ==
  /\ \A s \in Seats : AfterDraw(s) \/ AfterMeld(s) => DeclareFits(s)
  /\ last.kind = "DiscardTile" =>
       \A s \in Seats : \A k \in avail[s] \intersect {"Chow", "Pung", "MeldedKong"} :
         ReactionFits(k, s)

\* The transition to come can be made with the hands as they are.
ComingInv ==
  LET s == next.seat IN
  /\ round = 0 => next.kind \in {"None", "Start", "End"}
  /\ next.kind = "Predraw" => /\ s = next.n % 4 /\ DealtUpTo(next.n)
                              /\ last.kind \in {"Start", "Predraw"}
  /\ next.kind = "DrawTile" => \A t \in Seats : Waiting(t)
  /\ next.kind \in {"DiscardTile", "AddedKong", "ConcealedKong"} =>
       AfterDraw(s) \/ AfterMeld(s)
  /\ next.kind = "SelfDrawnWin" => AfterDraw(s)
  /\ next.kind = "DiscardTile" =>
       IF next.drawn THEN tiles[s].drawn = 1 ELSE tiles[s].hand > 0
  /\ next.kind = "AddedKong" =>
       /\ tiles[s].pungs >= 1
       /\ IF next.drawn THEN tiles[s].drawn = 1 ELSE tiles[s].hand > 0
  /\ next.kind = "ConcealedKong" =>
       IF next.drawn THEN tiles[s].drawn = 1 /\ tiles[s].hand >= 3 ELSE tiles[s].hand >= 4
  /\ next.kind \in {"Chow", "Pung", "MeldedKong"} =>
       AfterDiscard(s) /\ ReactionFits(next.kind, s)
  /\ next.kind = "DiscardWin" => AfterDiscard(s)
  /\ next.kind = "RobAddedKongWin" => AfterAddedKong(s)

TileInv ==
  /\ TypeOK
  /\ tiles \in [Seats -> Counts] /\ wall \in Nat
  /\ round > 0 => Conserved
  /\ round = 0 => last.kind \in {"None", "End"}
  /\ ShapeInv /\ OfferInv /\ ComingInv

-----------------------------------------------------------------------------
\* What the operators of a round do to a hand, field by field.
LEMMA DropFields ==
  ASSUME NEW t \in Tiles, NEW drawn \in BOOLEAN, NEW r, r = DropDiscard(t, drawn)
  PROVE  /\ r.hand = IF drawn THEN t.hand ELSE t.hand - 1 + t.drawn
         /\ r.drawn = 0 /\ r.pile = t.pile + 1
         /\ r.chows = t.chows /\ r.pungs = t.pungs /\ r.kongs = t.kongs
<1> DEFINE u == IF drawn THEN t ELSE [t EXCEPT !.hand = t.hand - 1 + t.drawn]
           v == [u EXCEPT !.drawn = 0]
<1>1. /\ u.hand = IF drawn THEN t.hand ELSE t.hand - 1 + t.drawn
      /\ u.pile = t.pile /\ u.chows = t.chows /\ u.pungs = t.pungs /\ u.kongs = t.kongs
      /\ u \in Tiles
  BY DEF Tiles
<1>2. r = [v EXCEPT !.pile = t.pile + 1]
  BY DEF DropDiscard, Tiles
<1> HIDE DEF u
<1>3. /\ v.hand = u.hand /\ v.drawn = 0 /\ v.pile = u.pile
      /\ v.chows = u.chows /\ v.pungs = u.pungs /\ v.kongs = u.kongs
      /\ v \in Tiles
  BY <1>1 DEF Tiles
<1> HIDE DEF v
<1>4. QED
  BY <1>1, <1>2, <1>3 DEF Tiles

LEMMA LoseFields ==
  ASSUME NEW t \in Tiles, NEW r, r = LoseDiscard(t)
  PROVE  /\ r.pile = t.pile - 1 /\ r.hand = t.hand /\ r.drawn = t.drawn
         /\ r.chows = t.chows /\ r.pungs = t.pungs /\ r.kongs = t.kongs
BY DEF LoseDiscard, Tiles

LEMMA MeldFields ==
  ASSUME NEW t \in Tiles, NEW kind \in {"Chow", "Pung", "MeldedKong"}, NEW r,
         r = TakeMeld(t, kind)
  PROVE  /\ r.hand = t.hand - (IF kind = "MeldedKong" THEN 3 ELSE 2)
         /\ r.chows = t.chows + (IF kind = "Chow" THEN 1 ELSE 0)
         /\ r.pungs = t.pungs + (IF kind = "Pung" THEN 1 ELSE 0)
         /\ r.kongs = t.kongs + (IF kind = "MeldedKong" THEN 1 ELSE 0)
         /\ r.drawn = t.drawn /\ r.pile = t.pile
<1> DEFINE u == [t EXCEPT !.hand = t.hand - (IF kind = "MeldedKong" THEN 3 ELSE 2)]
<1>1. /\ u.hand = t.hand - (IF kind = "MeldedKong" THEN 3 ELSE 2)
      /\ u.drawn = t.drawn /\ u.pile = t.pile
      /\ u.chows = t.chows /\ u.pungs = t.pungs /\ u.kongs = t.kongs
      /\ u \in Tiles
  BY DEF Tiles
<1>2. r = IF kind = "Chow" THEN [u EXCEPT !.chows = t.chows + 1]
          ELSE IF kind = "Pung" THEN [u EXCEPT !.pungs = t.pungs + 1]
          ELSE [u EXCEPT !.kongs = t.kongs + 1]
  BY DEF TakeMeld, Tiles
<1> HIDE DEF u
<1>3. QED
  BY <1>1, <1>2 DEF Tiles

LEMMA AddFields ==
  ASSUME NEW t \in Tiles, NEW drawn \in BOOLEAN, NEW r, r = AddKong(t, drawn)
  PROVE  /\ r.hand = IF drawn THEN t.hand ELSE t.hand + t.drawn - 1
         /\ r.drawn = 0 /\ r.pungs = t.pungs - 1 /\ r.kongs = t.kongs + 1
         /\ r.chows = t.chows /\ r.pile = t.pile
<1> DEFINE u == [t EXCEPT !.hand = IF drawn THEN t.hand ELSE t.hand + t.drawn - 1]
           v == [u EXCEPT !.drawn = 0]
           w == [v EXCEPT !.pungs = t.pungs - 1]
<1>1. /\ u.hand = IF drawn THEN t.hand ELSE t.hand + t.drawn - 1
      /\ u.pile = t.pile /\ u.chows = t.chows /\ u.pungs = t.pungs /\ u.kongs = t.kongs
      /\ u \in Tiles
  BY DEF Tiles
<1>2. r = [w EXCEPT !.kongs = t.kongs + 1]
  BY DEF AddKong, Tiles
<1> HIDE DEF u
<1>3. /\ v.hand = u.hand /\ v.drawn = 0 /\ v.pile = u.pile
      /\ v.chows = u.chows /\ v.pungs = u.pungs /\ v.kongs = u.kongs
      /\ v \in Tiles
  BY <1>1 DEF Tiles
<1> HIDE DEF v
<1>4. /\ w.hand = v.hand /\ w.drawn = 0 /\ w.pile = v.pile
      /\ w.chows = v.chows /\ w.pungs = t.pungs - 1 /\ w.kongs = v.kongs
      /\ w \in Tiles
  BY <1>3 DEF Tiles
<1> HIDE DEF w
<1>5. QED
  BY <1>1, <1>2, <1>3, <1>4 DEF Tiles

LEMMA ConcealFields ==
  ASSUME NEW t \in Tiles, NEW drawn \in BOOLEAN, NEW r, r = ConcealKong(t, drawn)
  PROVE  /\ r.hand = IF drawn THEN t.hand - 3 ELSE t.hand + t.drawn - 4
         /\ r.drawn = 0 /\ r.kongs = t.kongs + 1
         /\ r.chows = t.chows /\ r.pungs = t.pungs /\ r.pile = t.pile
<1> DEFINE u == [t EXCEPT !.hand = IF drawn THEN t.hand - 3 ELSE t.hand + t.drawn - 4]
           v == [u EXCEPT !.drawn = 0]
<1>1. /\ u.hand = IF drawn THEN t.hand - 3 ELSE t.hand + t.drawn - 4
      /\ u.pile = t.pile /\ u.chows = t.chows /\ u.pungs = t.pungs /\ u.kongs = t.kongs
      /\ u \in Tiles
  BY DEF Tiles
<1>2. r = [v EXCEPT !.kongs = t.kongs + 1]
  BY DEF ConcealKong, Tiles
<1> HIDE DEF u
<1>3. /\ v.hand = u.hand /\ v.drawn = 0 /\ v.pile = u.pile
      /\ v.chows = u.chows /\ v.pungs = u.pungs /\ v.kongs = u.kongs
      /\ v \in Tiles
  BY <1>1 DEF Tiles
<1> HIDE DEF v
<1>4. QED
  BY <1>1, <1>2, <1>3 DEF Tiles

\* A hand of the right type is counted once its fields are natural numbers.
LEMMA CountsTyped ==
  ASSUME NEW t \in Tiles, t.hand >= 0, t.chows >= 0, t.pungs >= 0, t.kongs >= 0, t.pile >= 0
  PROVE  t \in Counts
BY DEF Tiles, Counts

LEMMA CountsAreTiles == Counts \subseteq Tiles
BY DEF Tiles, Counts

LEMMA HeldTyped == ASSUME NEW t \in Counts PROVE Held(t) \in Nat /\ Melds(t) \in Nat
BY DEF Held, Melds, Counts

\* A tile that moves within one hand, or from the wall to it, is not lost.
LEMMA ConservedOne ==
  ASSUME tiles \in [Seats -> Counts], wall \in Int, wall' \in Int, Conserved,
         NEW s \in Seats, NEW t \in Counts, tiles' = [tiles EXCEPT ![s] = t],
         wall' + Held(t) = wall + Held(tiles[s])
  PROVE  Conserved'
<1>1. \A i \in Seats : Held(tiles[i]) \in Nat
  BY HeldTyped
<1>2. Held(t) \in Nat
  BY HeldTyped
<1>3. \A i \in Seats : Held(tiles'[i]) = IF i = s THEN Held(t) ELSE Held(tiles[i])
  OBVIOUS
<1>4. Conserved' <=> wall' + Held(tiles'[0]) + Held(tiles'[1]) + Held(tiles'[2])
                       + Held(tiles'[3]) = WallTiles
  BY DEF Conserved, Held
<1>5. QED
  BY <1>1, <1>2, <1>3, <1>4, WallAssumption DEF Conserved, Seats

\* Nor is one that moves from one hand to another.
LEMMA ConservedTwo ==
  ASSUME tiles \in [Seats -> Counts], wall \in Int, wall' = wall, Conserved,
         NEW s \in Seats, NEW r \in Seats, s # r, tiles' \in [Seats -> Counts],
         \A i \in Seats \ {s, r} : tiles'[i] = tiles[i],
         Held(tiles'[s]) + Held(tiles'[r]) = Held(tiles[s]) + Held(tiles[r])
  PROVE  Conserved'
<1>1. \A i \in Seats : Held(tiles[i]) \in Nat /\ Held(tiles'[i]) \in Nat
  BY HeldTyped
<1>2. \A i \in Seats \ {s, r} : Held(tiles'[i]) = Held(tiles[i])
  OBVIOUS
<1>3. Conserved' <=> wall + Held(tiles'[0]) + Held(tiles'[1]) + Held(tiles'[2])
                       + Held(tiles'[3]) = WallTiles
  BY DEF Conserved, Held
<1>4. QED
  BY <1>1, <1>2, <1>3, WallAssumption DEF Conserved, Seats

-----------------------------------------------------------------------------
\* Steps that move no tile.
LEMMA TileKept ==
  ASSUME TileInv, TypeOK', UNCHANGED <<tiles, wall, declare, round>>, ComingInv',
         last' = last \/ last'.kind = "End",
         \A s \in Seats : avail'[s] \subseteq avail[s]
  PROVE  TileInv'
<1>1. ShapeInv'
  BY DEF TileInv, ShapeInv, Waiting, TookDraw, TookMeld, Passive, Melds
<1>2. OfferInv'
  BY DEF TileInv, OfferInv, DeclareFits, ReactionFits, AfterDraw, AfterMeld
<1>3. QED
  BY <1>1, <1>2 DEF TileInv, Conserved, Held

LEMMA ComingKept ==
  ASSUME TileInv, UNCHANGED <<tiles, round>>,
         (next' = next /\ last' = last) \/ next'.kind \in {"None", "Start", "End"}
  PROVE  ComingInv'
BY DEF TileInv, ComingInv, DealtUpTo, Waiting, Melds, AfterDraw, AfterMeld, AfterDiscard,
   AfterAddedKong, ReactionFits

\* Any other transition: what is to show of it.
LEMMA TileExecutes ==
  ASSUME TypeOK', tiles' \in [Seats -> Counts], wall' \in Nat,
         round' > 0, Conserved', ShapeInv', OfferInv', ComingInv'
  PROVE  TileInv'
BY DEF TileInv, TypeOK, ControlOK

LEMMA DeliverLast ==
  ASSUME NEW e, NEW options, NEW people, Deliver(e, options, people)
  PROVE  last'.kind = e.kind /\ last'.seat = e.seat
BY DEF Deliver

LEMMA ReactOffers ==
  ASSUME NEW e, NEW people, NEW ts, React(e, people, ts)
  PROVE  /\ last'.kind = e.kind /\ last'.seat = e.seat
         /\ \A s \in Seats : avail'[s] \in ReactionSets(s, e, people, ts)
<1>1. PICK a \in ReactionSets(0, e, people, ts), b \in ReactionSets(1, e, people, ts),
           c \in ReactionSets(2, e, people, ts), d \in ReactionSets(3, e, people, ts) :
        LET options == [s \in Seats |-> <<a, b, c, d>>[s + 1]]
        IN  avail' = options /\ Deliver(e, options, people)
  BY DEF React
<1>2. \A s \in Seats : avail'[s] \in ReactionSets(s, e, people, ts)
  BY <1>1 DEF Seats
<1>3. QED
  BY <1>1, <1>2, DeliverLast

LEMMA PredrawFields ==
  ASSUME NEW s, NEW n, NEW e, e = PredrawBy(s, n)
  PROVE  e.kind = "Predraw" /\ e.seat = s /\ e.n = n
BY DEF PredrawBy, Ev

LEMMA DrawFields ==
  ASSUME NEW s, NEW b \in BOOLEAN, NEW e, e = DrawBy(s, b)
  PROVE  e.kind = "DrawTile" /\ e.seat = s
BY DEF DrawBy, Ev

LEMMA ForcedFields ==
  ASSUME NEW s, NEW b \in BOOLEAN, NEW e, e = ForcedDiscard(s, b)
  PROVE  e.kind = "DiscardTile" /\ e.seat = s /\ e.drawn = b
<1> DEFINE f == [Ev("DiscardTile", s) EXCEPT !.forced = TRUE]
<1>1. f.kind = "DiscardTile" /\ f.seat = s /\ "drawn" \in DOMAIN f
  BY DEF Ev
<1>2. e = [f EXCEPT !.drawn = b]
  BY DEF ForcedDiscard
<1> HIDE DEF f
<1>3. QED
  BY <1>1, <1>2

\* A hand of the deal.
LEMMA DealtHand ==
  ASSUME NEW x \in Nat, NEW t, t = [NoTiles EXCEPT !.hand = x]
  PROVE  /\ t \in Counts /\ Held(t) = x /\ t.hand = x /\ t.drawn = 0 /\ Melds(t) = 0
BY DEF NoTiles, Counts, Held, Melds

LEMMA TileInit == Init => TileInv
<1> SUFFICES ASSUME Init PROVE TileInv
  OBVIOUS
<1>1. next.kind = "Start" /\ last.kind = "None" /\ round = 0
  BY DEF Init, Ev
<1>2. tiles \in [Seats -> Counts] /\ wall \in Nat
  BY DEF Init, NoTiles, Counts
<1>3. QED
  BY <1>1, <1>2, TypeInit DEF TileInv, ShapeInv, OfferInv, ComingInv, Passive, AfterDraw, AfterMeld

LEMMA TileStart == ASSUME TileInv, TypeOK', ExecuteStart PROVE TileInv'
<1>1. round \in Nat /\ round' = round + 1
  BY DEF ExecuteStart, TileInv, TypeOK, ControlOK
<1>2. tiles' = [s \in Seats |-> NoTiles] /\ wall' = WallTiles /\ declare' = {} /\ avail' = Empty
  BY DEF ExecuteStart
<1>3. next'.kind = "Predraw" /\ next'.seat = 0 /\ next'.n = 0
  BY PredrawFields DEF ExecuteStart
<1>4. last'.kind = "Start"
  BY DeliverLast DEF ExecuteStart, Ev
<1>5. tiles' \in [Seats -> Counts]
  BY <1>2 DEF NoTiles, Counts
<1>6. Conserved'
  BY <1>2, WallAssumption DEF Conserved, Held, NoTiles, Seats
<1>7. DealtUpTo(0)'
  BY <1>2 DEF DealtUpTo, DealtTo, NoTiles, Seats
<1>8. ShapeInv' /\ OfferInv'
  BY <1>4 DEF ShapeInv, OfferInv, Passive, AfterDraw, AfterMeld
<1>9. ComingInv'
  BY <1>1, <1>3, <1>4, <1>7 DEF ComingInv
<1>10. QED
  BY <1>1, <1>2, <1>5, <1>6, <1>8, <1>9, WallAssumption, TileExecutes

LEMMA TilePredraw == ASSUME TileInv, TypeOK', ExecutePredraw PROVE TileInv'
<1>0. PICK s \in Seats : s = next.seat
  BY TypeReads DEF TileInv
<1> DEFINE n == next.n
           k == IF n >= 12 THEN 1 ELSE 4
           t == [tiles[s] EXCEPT !.hand = @ + k]
<1>1. next.kind = "Predraw" /\ s \in Seats /\ n \in 0..15 /\ round \in Nat /\ round > 0 /\ s = n % 4
      /\ \A i \in Seats : tiles[i] = [NoTiles EXCEPT !.hand = DealtTo(n, i)]
  BY <1>0, TypeReads DEF ExecutePredraw, Executes, TileInv, ComingInv, DealtUpTo, Event
<1>2. /\ tiles' = [tiles EXCEPT ![s] = t] /\ wall' = wall - k
      /\ next' = IF n < 15 THEN PredrawBy(Right(s), n + 1) ELSE DrawBy(0, FALSE)
      /\ UNCHANGED <<round, declare, avail>>
  BY <1>0 DEF ExecutePredraw
<1>3. last'.kind = "Predraw"
  BY <1>0, <1>1, DeliverLast DEF ExecutePredraw
<1>4. \A i \in Seats : DealtTo(n + 1, i) = DealtTo(n, i) + (IF i = s THEN k ELSE 0)
  BY <1>1 DEF DealtTo, Seats
<1>5. \A i \in Seats : DealtTo(n, i) \in 0..13 /\ DealtTo(16, i) = 13
  BY <1>1 DEF DealtTo, Seats
<1>6. \A i \in Seats : tiles'[i] = [NoTiles EXCEPT !.hand = DealtTo(n + 1, i)]
  <2>1. tiles \in [Seats -> Counts]
    BY DEF TileInv
  <2>2. \A i \in Seats \ {s} : tiles'[i] = tiles[i]
    BY <1>2, <2>1
  <2>3. tiles'[s] = t
    BY <1>1, <1>2, <2>1
  <2>4. tiles[s] = [NoTiles EXCEPT !.hand = DealtTo(n, s)] /\ tiles[s].hand = DealtTo(n, s)
    BY <1>1 DEF NoTiles
  <2>5. t = [NoTiles EXCEPT !.hand = DealtTo(n, s) + k]
    BY <2>4 DEF NoTiles
  <2>6. tiles'[s] = [NoTiles EXCEPT !.hand = DealtTo(n + 1, s)]
    BY <1>1, <1>4, <2>3, <2>5
  <2>7. \A i \in Seats \ {s} : DealtTo(n + 1, i) = DealtTo(n, i)
    BY <1>4, <1>5
  <2>8. QED
    BY <1>1, <2>2, <2>6, <2>7
<1> HIDE DEF t
<1>7. tiles' \in [Seats -> Counts]
  <2>1. \A i \in Seats : DealtTo(n + 1, i) \in Nat
    BY <1>4, <1>5
  <2>2. \A i \in Seats : tiles'[i] \in Counts
    BY <1>6, <2>1, DealtHand
  <2>3. QED
    BY <1>2, <2>2 DEF TileInv
<1>8. Held(tiles[s]) = DealtTo(n, s) /\ Held(tiles'[s]) = DealtTo(n, s) + k
  <2>1. tiles[s] = [NoTiles EXCEPT !.hand = DealtTo(n, s)]
    BY <1>1
  <2>2. tiles'[s] = [NoTiles EXCEPT !.hand = DealtTo(n, s) + k]
    BY <1>1, <1>4, <1>6
  <2>3. DealtTo(n, s) \in Int /\ k \in Int
    BY <1>1, <1>5
  <2>4. Held(tiles[s]) = DealtTo(n, s)
    BY <2>1, <2>3 DEF Held, NoTiles
  <2>5. QED
    BY <2>2, <2>3, <2>4 DEF Held, NoTiles
<1>9. Conserved'
  <2>1. Conserved /\ wall \in Nat /\ tiles \in [Seats -> Counts]
    BY <1>1 DEF TileInv
  <2>2. tiles' = [tiles EXCEPT ![s] = t] /\ tiles'[s] = t
    BY <1>1, <1>2, <2>1
  <2>3. t \in Counts
    BY <1>1, <1>7, <2>2
  <2>4. wall' + Held(t) = wall + Held(tiles[s])
    BY <1>2, <1>5, <1>8, <1>1, <2>1, <2>2
  <2>5. wall' \in Int
    BY <1>2, <2>1
  <2>6. s \in Seats /\ wall \in Int
    BY <1>1, <2>1
  <2>7. QED
    BY <2>1, <2>2, <2>3, <2>4, <2>5, <2>6, ConservedOne
<1>10. wall' \in Nat
  <2>1. \A i \in Seats : Held(tiles'[i]) \in 0..13
    <3>1. TAKE i \in Seats
    <3>2. DealtTo(n + 1, i) \in 0..13
      BY <1>1 DEF DealtTo, Seats
    <3>3. tiles'[i] = [NoTiles EXCEPT !.hand = DealtTo(n + 1, i)]
      BY <1>6
    <3>4. DealtTo(n + 1, i) \in Nat
      BY <3>2
    <3>5. Held(tiles'[i]) = DealtTo(n + 1, i)
      BY <3>3, <3>4, DealtHand
    <3>6. QED
      BY <3>2, <3>5
  <2>2. wall' \in Int
    BY <1>2 DEF TileInv
  <2>3. QED
    BY <1>9, <2>1, <2>2, WallAssumption DEF Conserved, Seats, Held
<1>11. ShapeInv' /\ OfferInv'
  BY <1>3 DEF ShapeInv, OfferInv, Passive, AfterDraw, AfterMeld
<1>12. CASE n < 15
  <2>1. next'.kind = "Predraw" /\ next'.seat = Right(s) /\ next'.n = n + 1
    BY <1>2, <1>12, PredrawFields
  <2>2. Right(s) = (n + 1) % 4
    BY <1>1 DEF Right, Seats
  <2>3. round' # 0
    BY <1>1, <1>2
  <2>4. ComingInv'
    BY <1>3, <1>6, <2>1, <2>2, <2>3 DEF ComingInv, DealtUpTo
  <2>5. QED
    BY <1>1, <1>2, <1>7, <1>9, <1>10, <1>11, <2>4, TileExecutes
<1>13. CASE n = 15
  <2>1. next'.kind = "DrawTile"
    <3>1. next' = DrawBy(0, FALSE)
      BY <1>2, <1>13
    <3>2. QED
      BY <3>1 DEF DrawBy, Ev
  <2>2. \A i \in Seats : tiles'[i] = [NoTiles EXCEPT !.hand = 13]
    BY <1>5, <1>6, <1>13
  <2>3. \A i \in Seats : Waiting(i)'
    BY <2>2 DEF Waiting, Melds, NoTiles
  <2>4. round' # 0
    BY <1>1, <1>2
  <2>5. ComingInv'
    BY <2>1, <2>3, <2>4 DEF ComingInv
  <2>6. QED
    BY <1>1, <1>2, <1>7, <1>9, <1>10, <1>11, <2>5, TileExecutes
<1>14. QED
  BY <1>1, <1>12, <1>13

LEMMA TileDraw == ASSUME TileInv, TypeOK', ExecuteDraw PROVE TileInv'
<1>0. PICK s \in Seats : s = next.seat
  BY TypeReads DEF TileInv
<1> DEFINE t == [tiles[s] EXCEPT !.drawn = 1]
<1>1. s \in Seats /\ \A i \in Seats : Waiting(i)
  BY <1>0, TypeReads DEF ExecuteDraw, Executes, TileInv, ComingInv
<1>2. /\ tiles' = [tiles EXCEPT ![s] = t] /\ wall' = wall - 1 /\ wall > 0
      /\ next' = ForcedDiscard(s, TRUE)
      /\ declare' \in DeclarationSets(next, person[s], tiles'[s])
      /\ UNCHANGED <<round, avail>>
  BY <1>0 DEF ExecuteDraw
<1>3. last'.kind = "DrawTile" /\ last'.seat = s
  BY <1>0, DeliverLast DEF ExecuteDraw, Executes
<1>4. round \in Nat /\ round \in Nat /\ round > 0 /\ wall \in Nat /\ Conserved /\ tiles \in [Seats -> Counts]
  BY TypeReads DEF TileInv, ComingInv, ExecuteDraw, Executes
<1>5. /\ t.drawn = 1 /\ t.hand = tiles[s].hand /\ t.pile = tiles[s].pile
      /\ t.chows = tiles[s].chows /\ t.pungs = tiles[s].pungs /\ t.kongs = tiles[s].kongs
      /\ t \in Counts
  BY <1>1, <1>4 DEF Counts
<1>6. tiles[s].drawn = 0 /\ tiles[s] \in Counts
  BY <1>1, <1>4 DEF Waiting
<1> HIDE DEF t
<1>7. \A i \in Seats : tiles'[i] = IF i = s THEN t ELSE tiles[i]
  BY <1>2, <1>4
<1>8. Held(t) = Held(tiles[s]) + 1
  BY <1>5, <1>6 DEF Held, Counts
<1>9. Conserved'
  <2>1. wall \in Int /\ wall' \in Int /\ wall' + Held(t) = wall + Held(tiles[s])
    BY <1>2, <1>4, <1>5, <1>6, <1>8, HeldTyped
  <2>2. QED
    BY <1>1, <1>2, <1>4, <1>5, <2>1, ConservedOne
<1>10. \A i \in Seats : IF i = s THEN TookDraw(i)' ELSE Waiting(i)'
  BY <1>1, <1>5, <1>7 DEF Waiting, TookDraw, Melds
<1>11. ShapeInv'
  BY <1>3, <1>10 DEF ShapeInv, Passive
<1>12. OfferInv'
  <2>1. declare' \in DeclarationSets(next, person[s], t)
    BY <1>1, <1>2, <1>7
  <2>2. DeclareFits(s)'
    BY <1>1, <1>7, <2>1 DEF DeclareFits, DeclarationSets
  <2>3. QED
    BY <1>3, <2>2 DEF OfferInv, AfterDraw, AfterMeld
<1>13. ComingInv'
  <2>1. next'.kind = "DiscardTile" /\ next'.seat = s /\ next'.drawn = TRUE
    BY <1>2, ForcedFields
  <2>2. tiles'[s].drawn = 1
    BY <1>1, <1>5, <1>7
  <2>3. round' # 0
    BY <1>2, <1>4
  <2>4. QED
    BY <1>3, <2>1, <2>2, <2>3 DEF ComingInv, AfterDraw
<1>14. tiles' \in [Seats -> Counts]
  BY <1>2, <1>4, <1>5
<1>15. QED
  BY <1>2, <1>4, <1>9, <1>11, <1>12, <1>13, <1>14, TileExecutes

\* The seat on turn has its fourteenth tile, the others thirteen.
LEMMA OnTurn ==
  ASSUME TileInv, NEW s \in Seats, AfterDraw(s) \/ AfterMeld(s)
  PROVE  /\ \A i \in Seats \ {s} : Waiting(i)
         /\ \/ AfterDraw(s) /\ TookDraw(s)
            \/ AfterMeld(s) /\ TookMeld(s)
         /\ round \in Nat /\ round > 0 /\ Conserved
<1>1. last.seat = s /\ last.kind \in {"DrawTile", "Chow", "Pung"}
  BY DEF AfterDraw, AfterMeld
<1>2. round \in Nat /\ round > 0
  BY <1>1, TypeReads DEF TileInv
<1>3. QED
  BY <1>1, <1>2 DEF TileInv, ShapeInv, AfterDraw, AfterMeld

LEMMA TileDiscard == ASSUME TileInv, TypeOK', ExecuteDiscard PROVE TileInv'
<1>0. PICK s \in Seats : s = next.seat
  BY TypeReads DEF TileInv
<1> DEFINE t == DropDiscard(tiles[s], next.drawn)
<1>1. /\ s \in Seats /\ next.drawn \in BOOLEAN
      /\ AfterDraw(s) \/ AfterMeld(s)
      /\ IF next.drawn THEN tiles[s].drawn = 1 ELSE tiles[s].hand > 0
  BY <1>0, TypeReads DEF ExecuteDiscard, Executes, TileInv, ComingInv
<1>2. /\ tiles' = [tiles EXCEPT ![s] = t] /\ declare' = {}
      /\ next' = DrawBy(Right(s), FALSE)
      /\ React(next, person', tiles') /\ UNCHANGED <<round, wall>>
  BY <1>0 DEF ExecuteDiscard
<1>3. /\ last'.kind = "DiscardTile" /\ last'.seat = s
      /\ \A i \in Seats : avail'[i] \in ReactionSets(i, next, person', tiles')
  BY <1>0, <1>2, ReactOffers DEF ExecuteDiscard, Executes
<1>4. /\ round \in Nat /\ round > 0 /\ wall \in Nat /\ Conserved /\ tiles \in [Seats -> Counts]
      /\ \A i \in Seats \ {s} : Waiting(i)
      /\ TookDraw(s) \/ TookMeld(s)
  BY <1>1, OnTurn DEF TileInv
<1>5. tiles[s] \in Counts /\ tiles[s] \in Tiles
  BY <1>1, <1>4, CountsAreTiles
<1>6. /\ t.hand = IF next.drawn THEN tiles[s].hand ELSE tiles[s].hand - 1 + tiles[s].drawn
      /\ t.drawn = 0 /\ t.pile = tiles[s].pile + 1
      /\ t.chows = tiles[s].chows /\ t.pungs = tiles[s].pungs /\ t.kongs = tiles[s].kongs
      /\ t \in Tiles
  BY <1>1, <1>5, DropFields, TilesTyped
<1> HIDE DEF t
<1>7. t \in Counts
  BY <1>1, <1>5, <1>6, CountsTyped DEF Counts
<1>8. \A i \in Seats : tiles'[i] = IF i = s THEN t ELSE tiles[i]
  BY <1>2, <1>4
<1>9. Held(t) = Held(tiles[s]) /\ t.hand + 3 * Melds(t) = 13
  <2>1. CASE next.drawn
    BY <1>1, <1>4, <1>5, <1>6, <2>1 DEF Held, Melds, Counts, TookDraw, TookMeld
  <2>2. CASE ~next.drawn
    BY <1>1, <1>4, <1>5, <1>6, <2>2 DEF Held, Melds, Counts, TookDraw, TookMeld
  <2>3. QED
    BY <2>1, <2>2
<1>10. Conserved'
  <2>1. wall \in Int /\ wall' \in Int /\ wall' + Held(t) = wall + Held(tiles[s])
    BY <1>2, <1>4, <1>9
  <2>2. QED
    BY <1>1, <1>2, <1>4, <1>7, <2>1, ConservedOne
<1>11. \A i \in Seats : Waiting(i)'
  BY <1>4, <1>6, <1>8, <1>9 DEF Waiting, Melds
<1>12. ShapeInv'
  BY <1>1, <1>3, <1>5, <1>6, <1>8, <1>11 DEF ShapeInv, Counts
<1>13. OfferInv'
  BY <1>3 DEF OfferInv, AfterDraw, AfterMeld, ReactionSets, ReactionFits
<1>14. ComingInv'
  <2>1. next'.kind = "DrawTile"
    BY <1>2, DrawFields
  <2>2. round' # 0
    BY <1>2, <1>4
  <2>3. QED
    BY <1>11, <2>1, <2>2 DEF ComingInv
<1>15. tiles' \in [Seats -> Counts]
  BY <1>2, <1>4, <1>7
<1>16. QED
  BY <1>2, <1>4, <1>10, <1>12, <1>13, <1>14, <1>15, TileExecutes

LEMMA TileMeld ==
  ASSUME TileInv, TypeOK', NEW kind \in {"Chow", "Pung", "MeldedKong"}, ExecuteMeld(kind)
  PROVE  TileInv'
<1>0. PICK s \in Seats, r \in Seats : s = next.seat /\ r = last.seat
  BY TypeReads DEF TileInv
<1> DEFINE t == TakeMeld(tiles[s], kind)
           u == LoseDiscard(tiles[r])
<1>1. next.kind = kind /\ s \in Seats /\ r \in Seats
      /\ AfterDiscard(s) /\ ReactionFits(kind, s)
  BY <1>0, TypeReads DEF ExecuteMeld, Executes, TileInv, ComingInv
<1>2. last.kind = "DiscardTile" /\ s # r
  BY <1>0, <1>1 DEF AfterDiscard
<1>3. /\ tiles' = [i \in Seats |-> IF i = s THEN t ELSE IF i = r THEN u ELSE tiles[i]]
      /\ UNCHANGED <<round, wall, avail>>
  BY <1>0 DEF ExecuteMeld
<1>4. last'.kind = kind /\ last'.seat = s
  BY <1>0, <1>1, DeliverLast DEF ExecuteMeld
<1>5. /\ round \in Nat /\ round > 0 /\ wall \in Nat /\ Conserved /\ tiles \in [Seats -> Counts]
      /\ \A i \in Seats : Waiting(i)
      /\ tiles[r].pile >= 1
  BY <1>0, <1>2, TypeReads DEF TileInv, ShapeInv, Passive
<1>6. tiles[s] \in Counts /\ tiles[s] \in Tiles /\ tiles[r] \in Counts /\ tiles[r] \in Tiles
  BY <1>1, <1>5, CountsAreTiles
<1>7. /\ t.hand = tiles[s].hand - (IF kind = "MeldedKong" THEN 3 ELSE 2)
      /\ t.chows = tiles[s].chows + (IF kind = "Chow" THEN 1 ELSE 0)
      /\ t.pungs = tiles[s].pungs + (IF kind = "Pung" THEN 1 ELSE 0)
      /\ t.kongs = tiles[s].kongs + (IF kind = "MeldedKong" THEN 1 ELSE 0)
      /\ t.drawn = tiles[s].drawn /\ t.pile = tiles[s].pile
  BY <1>6, MeldFields
<1>8. /\ u.pile = tiles[r].pile - 1 /\ u.hand = tiles[r].hand /\ u.drawn = tiles[r].drawn
      /\ u.chows = tiles[r].chows /\ u.pungs = tiles[r].pungs /\ u.kongs = tiles[r].kongs
  BY <1>6, LoseFields
<1>19. t \in Tiles /\ u \in Tiles
  <2>1. TRUE \in BOOLEAN
    OBVIOUS
  <2>2. QED
    BY <1>6, <2>1, TilesTyped
<1> HIDE DEF t, u
<1>9. t \in Counts
  BY <1>1, <1>6, <1>7, <1>19, CountsTyped DEF Counts, ReactionFits
<1>10. u \in Counts
  BY <1>5, <1>6, <1>8, <1>19, CountsTyped DEF Counts
<1>11. \A i \in Seats : tiles'[i] = IF i = s THEN t ELSE IF i = r THEN u ELSE tiles[i]
  BY <1>3
<1>12. tiles' \in [Seats -> Counts]
  BY <1>3, <1>5, <1>9, <1>10
<1>13. Held(t) = Held(tiles[s]) + 1 /\ Held(u) = Held(tiles[r]) - 1
  <2>1. Held(u) = Held(tiles[r]) - 1
    BY <1>6, <1>8, <1>10 DEF Held, Counts
  <2>2. kind = "Chow" \/ kind = "Pung" \/ kind = "MeldedKong"
    OBVIOUS
  <2>3. Held(t) = Held(tiles[s]) + 1
    BY <1>6, <1>7, <1>9, <2>2 DEF Held, Counts
  <2>4. QED
    BY <2>1, <2>3
<1>14. Conserved'
  <2>1. Held(tiles'[s]) + Held(tiles'[r]) = Held(tiles[s]) + Held(tiles[r])
    BY <1>1, <1>2, <1>6, <1>11, <1>13, HeldTyped
  <2>2. wall \in Int /\ wall' = wall /\ \A i \in Seats \ {s, r} : tiles'[i] = tiles[i]
    BY <1>3, <1>5, <1>11
  <2>3. QED
    BY <1>1, <1>2, <1>5, <1>12, <2>1, <2>2, ConservedTwo
<1>15. \A i \in Seats \ {s} : Waiting(i)'
  BY <1>5, <1>8, <1>11 DEF Waiting, Melds
<1>16. CASE kind = "MeldedKong"
  <2>1. next' = DrawBy(s, TRUE)
    BY <1>0, <1>16 DEF ExecuteMeld
  <2>2. Waiting(s)'
    BY <1>1, <1>5, <1>6, <1>7, <1>11, <1>16 DEF Waiting, Melds, Counts
  <2>3. next'.kind = "DrawTile"
    BY <2>1, DrawFields
  <2>4. ComingInv'
    BY <1>3, <1>5, <1>15, <2>2, <2>3 DEF ComingInv
  <2>5. ShapeInv' /\ OfferInv'
    BY <1>4, <1>15, <1>16, <2>2 DEF ShapeInv, OfferInv, Passive, AfterDraw, AfterMeld
  <2>6. QED
    BY <1>3, <1>5, <1>12, <1>14, <2>4, <2>5, TileExecutes
<1>17. CASE kind # "MeldedKong"
  <2>1. next' = ForcedDiscard(s, FALSE) /\ declare' \in DeclarationSets(next, person[s], tiles'[s])
    BY <1>0, <1>17 DEF ExecuteMeld
  <2>2. TookMeld(s)'
    BY <1>1, <1>5, <1>6, <1>7, <1>11, <1>17 DEF Waiting, TookMeld, Melds, Counts
  <2>3. next'.kind = "DiscardTile" /\ next'.seat = s /\ next'.drawn = FALSE
    BY <2>1, ForcedFields
  <2>4. tiles'[s].hand > 0
    BY <1>1, <1>9, <1>11, <2>2 DEF TookMeld, Melds, Counts
  <2>5. ComingInv'
    BY <1>3, <1>4, <1>5, <1>17, <2>3, <2>4 DEF ComingInv, AfterMeld
  <2>6. ShapeInv'
    BY <1>4, <1>15, <1>17, <2>2 DEF ShapeInv, Passive
  <2>7. OfferInv'
    <3>1. DeclareFits(s)'
      BY <2>1 DEF DeclareFits, DeclarationSets
    <3>2. QED
      BY <1>4, <1>17, <3>1 DEF OfferInv, AfterDraw, AfterMeld
  <2>8. QED
    BY <1>3, <1>5, <1>12, <1>14, <2>5, <2>6, <2>7, TileExecutes
<1>18. QED
  BY <1>16, <1>17

LEMMA TileAddedKong == ASSUME TileInv, TypeOK', ExecuteAddedKong PROVE TileInv'
<1>0. PICK s \in Seats : s = next.seat
  BY TypeReads DEF TileInv
<1> DEFINE t == AddKong(tiles[s], next.drawn)
<1>1. /\ next.drawn \in BOOLEAN
      /\ AfterDraw(s) \/ AfterMeld(s)
      /\ tiles[s].pungs >= 1
      /\ IF next.drawn THEN tiles[s].drawn = 1 ELSE tiles[s].hand > 0
  BY <1>0, TypeReads DEF ExecuteAddedKong, Executes, TileInv, ComingInv
<1>2. tiles' = [tiles EXCEPT ![s] = t] /\ declare' = {} /\ UNCHANGED <<round, wall>>
  BY <1>0 DEF ExecuteAddedKong
<1>3. last'.kind = "AddedKong" /\ last'.seat = s
  BY <1>0, ReactOffers DEF ExecuteAddedKong, Executes
<1>4. /\ round \in Nat /\ round > 0 /\ wall \in Nat /\ Conserved /\ tiles \in [Seats -> Counts]
      /\ \A i \in Seats \ {s} : Waiting(i)
      /\ TookDraw(s) \/ TookMeld(s)
  BY <1>1, OnTurn, TypeReads DEF TileInv
<1>5. tiles[s] \in Counts /\ tiles[s] \in Tiles
  BY <1>4, CountsAreTiles
<1>6. /\ t.hand = IF next.drawn THEN tiles[s].hand ELSE tiles[s].hand + tiles[s].drawn - 1
      /\ t.drawn = 0 /\ t.pungs = tiles[s].pungs - 1 /\ t.kongs = tiles[s].kongs + 1
      /\ t.chows = tiles[s].chows /\ t.pile = tiles[s].pile
      /\ t \in Tiles
  BY <1>1, <1>5, AddFields, TilesTyped
<1> HIDE DEF t
<1>7. t \in Counts
  <2>1. CASE next.drawn
    BY <1>1, <1>5, <1>6, <2>1, CountsTyped DEF Counts
  <2>2. CASE ~next.drawn
    BY <1>1, <1>5, <1>6, <2>2, CountsTyped DEF Counts
  <2>3. QED
    BY <2>1, <2>2
<1>8. \A i \in Seats : tiles'[i] = IF i = s THEN t ELSE tiles[i]
  BY <1>2, <1>4
<1>9. Held(t) = Held(tiles[s]) /\ t.hand + 3 * Melds(t) = 13
  <2>1. Held(t) = Held(tiles[s])
    BY <1>1, <1>5, <1>6, <1>7 DEF Held, Counts
  <2>2. t.hand + 3 * Melds(t) = 13
    <3>1. CASE TookDraw(s)
      BY <1>1, <1>5, <1>6, <1>7, <3>1 DEF Melds, Counts, TookDraw
    <3>2. CASE TookMeld(s)
      BY <1>1, <1>5, <1>6, <1>7, <3>2 DEF Melds, Counts, TookMeld
    <3>3. QED
      BY <1>4, <3>1, <3>2
  <2>3. QED
    BY <2>1, <2>2
<1>10. Conserved'
  <2>1. wall \in Int /\ wall' \in Int /\ wall' + Held(t) = wall + Held(tiles[s])
    BY <1>2, <1>4, <1>9
  <2>2. QED
    BY <1>2, <1>4, <1>7, <2>1, ConservedOne
<1>11. \A i \in Seats : Waiting(i)'
  BY <1>4, <1>6, <1>8, <1>9 DEF Waiting, Melds
<1>12. ShapeInv' /\ OfferInv'
  BY <1>3, <1>11 DEF ShapeInv, OfferInv, Passive, AfterDraw, AfterMeld
<1>13. ComingInv'
  <2>1. next'.kind = "DrawTile"
    BY DrawFields DEF ExecuteAddedKong
  <2>2. round' # 0
    BY <1>2, <1>4
  <2>3. QED
    BY <1>11, <2>1, <2>2 DEF ComingInv
<1>14. tiles' \in [Seats -> Counts]
  BY <1>2, <1>4, <1>7
<1>15. QED
  BY <1>2, <1>4, <1>10, <1>12, <1>13, <1>14, TileExecutes

LEMMA TileConcealedKong == ASSUME TileInv, TypeOK', ExecuteConcealedKong PROVE TileInv'
<1>0. PICK s \in Seats : s = next.seat
  BY TypeReads DEF TileInv
<1> DEFINE t == ConcealKong(tiles[s], next.drawn)
<1>1. /\ next.drawn \in BOOLEAN
      /\ AfterDraw(s) \/ AfterMeld(s)
      /\ IF next.drawn THEN tiles[s].drawn = 1 /\ tiles[s].hand >= 3 ELSE tiles[s].hand >= 4
  BY <1>0, TypeReads DEF ExecuteConcealedKong, Executes, TileInv, ComingInv
<1>2. tiles' = [tiles EXCEPT ![s] = t] /\ declare' = {} /\ UNCHANGED <<round, wall>>
  BY <1>0 DEF ExecuteConcealedKong
<1>3. last'.kind = "ConcealedKong" /\ last'.seat = s
  BY <1>0, DeliverLast DEF ExecuteConcealedKong, Executes
<1>4. /\ round \in Nat /\ round > 0 /\ wall \in Nat /\ Conserved /\ tiles \in [Seats -> Counts]
      /\ \A i \in Seats \ {s} : Waiting(i)
      /\ TookDraw(s) \/ TookMeld(s)
  BY <1>1, OnTurn, TypeReads DEF TileInv
<1>5. tiles[s] \in Counts /\ tiles[s] \in Tiles
  BY <1>4, CountsAreTiles
<1>6. /\ t.hand = IF next.drawn THEN tiles[s].hand - 3
                  ELSE tiles[s].hand + tiles[s].drawn - 4
      /\ t.drawn = 0 /\ t.kongs = tiles[s].kongs + 1
      /\ t.chows = tiles[s].chows /\ t.pungs = tiles[s].pungs /\ t.pile = tiles[s].pile
      /\ t \in Tiles
  BY <1>1, <1>5, ConcealFields, TilesTyped
<1> HIDE DEF t
<1>7. t \in Counts
  <2>1. CASE next.drawn
    BY <1>1, <1>5, <1>6, <2>1, CountsTyped DEF Counts
  <2>2. CASE ~next.drawn
    BY <1>1, <1>5, <1>6, <2>2, CountsTyped DEF Counts
  <2>3. QED
    BY <2>1, <2>2
<1>8. \A i \in Seats : tiles'[i] = IF i = s THEN t ELSE tiles[i]
  BY <1>2, <1>4
<1>9. Held(t) = Held(tiles[s]) /\ t.hand + 3 * Melds(t) = 13
  <2>1. Held(t) = Held(tiles[s])
    BY <1>1, <1>5, <1>6, <1>7 DEF Held, Counts
  <2>2. t.hand + 3 * Melds(t) = 13
    <3>1. CASE TookDraw(s)
      BY <1>1, <1>5, <1>6, <1>7, <3>1 DEF Melds, Counts, TookDraw
    <3>2. CASE TookMeld(s)
      BY <1>1, <1>5, <1>6, <1>7, <3>2 DEF Melds, Counts, TookMeld
    <3>3. QED
      BY <1>4, <3>1, <3>2
  <2>3. QED
    BY <2>1, <2>2
<1>10. Conserved'
  <2>1. wall \in Int /\ wall' \in Int /\ wall' + Held(t) = wall + Held(tiles[s])
    BY <1>2, <1>4, <1>9
  <2>2. QED
    BY <1>2, <1>4, <1>7, <2>1, ConservedOne
<1>11. \A i \in Seats : Waiting(i)'
  BY <1>4, <1>6, <1>8, <1>9 DEF Waiting, Melds
<1>12. ShapeInv' /\ OfferInv'
  BY <1>3, <1>11 DEF ShapeInv, OfferInv, Passive, AfterDraw, AfterMeld
<1>13. ComingInv'
  <2>1. next'.kind = "DrawTile"
    BY DrawFields DEF ExecuteConcealedKong
  <2>2. round' # 0
    BY <1>2, <1>4
  <2>3. QED
    BY <1>11, <2>1, <2>2 DEF ComingInv
<1>14. tiles' \in [Seats -> Counts]
  BY <1>2, <1>4, <1>7
<1>15. QED
  BY <1>2, <1>4, <1>10, <1>12, <1>13, <1>14, TileExecutes

\* The result of a round leaves the tiles as they are.
LEMMA TileResult ==
  ASSUME TileInv, TypeOK', UNCHANGED <<tiles, wall, declare, avail, round>>, round # 0,
         next'.kind \in {"Start", "End"},
         \/ last'.kind \in {"DiscardWin", "RobAddedKongWin", "DrawnGame"} /\ \A s \in Seats : Waiting(s)
         \/ last'.kind = "SelfDrawnWin" /\ last'.seat = last.seat /\ last.kind = "DrawTile"
  PROVE  TileInv'
<1>1. ShapeInv'
  BY DEF TileInv, ShapeInv, Passive, Waiting, TookDraw, Melds
<1>2. OfferInv' /\ ComingInv'
  BY DEF OfferInv, ComingInv, AfterDraw, AfterMeld
<1>3. round \in Nat /\ round > 0
  BY TypeReads DEF TileInv
<1>4. Conserved'
  BY <1>3 DEF TileInv, Conserved, Held
<1>5. QED
  BY <1>1, <1>2, <1>3, <1>4, TileExecutes DEF TileInv

LEMMA NextRoundKind == ASSUME NEW people PROVE NextRound(people).kind \in {"Start", "End"}
BY DEF NextRound, Ev

LEMMA TileExecute == ASSUME TileInv, TypeOK', ExecuteTransition PROVE TileInv'
<1>1. CASE ExecuteNothing
  <2>1. UNCHANGED <<tiles, wall, declare, round, next, last, avail>>
    BY <1>1 DEF ExecuteNothing, control, table
  <2>2. QED
    BY <2>1, TileKept, ComingKept
<1>2. CASE ExecuteAbandon \/ ExecuteEnd
  <2>1. next' = NoEvent /\ UNCHANGED <<tiles, wall, declare, round, avail>>
    BY <1>2 DEF ExecuteAbandon, ExecuteEnd, table
  <2>2. next'.kind = "None"
    BY <2>1 DEF NoEvent, Ev
  <2>3. last'.kind = "End"
    BY <1>2, DeliverLast DEF ExecuteAbandon, ExecuteEnd, Ev
  <2>4. QED
    BY <2>1, <2>2, <2>3, TileKept, ComingKept
<1>3. CASE ExecuteDrawnGame
  <2>1. UNCHANGED <<tiles, wall, declare, round, avail>> /\ next.kind = "DrawTile"
    BY <1>3 DEF ExecuteDrawnGame, Executes, table
  <2>2. next'.kind \in {"Start", "End"}
    BY <1>3, NextRoundKind DEF ExecuteDrawnGame
  <2>3. last'.kind = "DrawnGame"
    BY <1>3, DeliverLast DEF ExecuteDrawnGame, Ev
  <2>4. round # 0 /\ \A s \in Seats : Waiting(s)
    BY <2>1 DEF TileInv, ComingInv
  <2>5. QED
    BY <2>1, <2>2, <2>3, <2>4, TileResult
<1>4. ASSUME NEW kind \in Wins, ExecuteWin(kind) PROVE TileInv'
  <2>1. UNCHANGED <<tiles, wall, declare, round, avail>> /\ next.kind = kind
    BY <1>4 DEF ExecuteWin, Executes, table
  <2>2. next'.kind \in {"Start", "End"}
    BY <1>4, NextRoundKind DEF ExecuteWin
  <2>3. last'.kind = kind /\ last'.seat = next.seat
    BY <1>4, <2>1, DeliverLast DEF ExecuteWin
  <2>4. round # 0
    BY <1>4, <2>1 DEF TileInv, ComingInv, Wins
  <2>5. CASE kind = "SelfDrawnWin"
    <3>1. last.seat = next.seat /\ last.kind = "DrawTile"
      BY <2>1, <2>5 DEF TileInv, ComingInv, AfterDraw
    <3>2. QED
      BY <2>1, <2>2, <2>3, <2>4, <2>5, <3>1, TileResult
  <2>6. CASE kind \in {"DiscardWin", "RobAddedKongWin"}
    <3>1. last.kind \in {"DiscardTile", "AddedKong"}
      BY <2>1, <2>6 DEF TileInv, ComingInv, AfterDiscard, AfterAddedKong
    <3>2. \A s \in Seats : Waiting(s)
      BY <3>1 DEF TileInv, ShapeInv, Passive
    <3>3. QED
      BY <2>1, <2>2, <2>3, <2>4, <2>6, <3>2, TileResult
  <2>7. QED
    BY <2>5, <2>6 DEF Wins
<1>5. QED
  BY <1>1, <1>2, <1>3, <1>4, TileStart, TilePredraw, TileDraw, TileDiscard, TileMeld,
     TileAddedKong, TileConcealedKong DEF ExecuteTransition

LEMMA TileDecide ==
  ASSUME TileInv, TypeOK', NEW s \in Seats, Decide(s) PROVE TileInv'
<1>1. ASSUME NEW kind \in {"DiscardTile", "AddedKong", "ConcealedKong", "SelfDrawnWin"},
             NEW drawn \in BOOLEAN, DecideSelf(s, kind, drawn)
      PROVE  TileInv'
  <2>1. UNCHANGED <<tiles, wall, declare, round, last, avail>> /\ MayDecide(s, kind, drawn)
    BY <1>1 DEF DecideSelf, table
  <2>2. CASE next' = next
    BY <2>1, <2>2, TileKept, ComingKept
  <2>3. CASE next' = [Ev(kind, s) EXCEPT !.drawn = drawn]
    <3>1. next'.kind = kind /\ next'.seat = s /\ next'.drawn = drawn
      BY <2>3 DEF Ev
    <3>2. round # 0
      BY <2>1, OnTurn DEF MayDecide
    <3>3. DeclareFits(s)
      BY <2>1 DEF MayDecide, TileInv, OfferInv
    <3>4. tiles[s] \in Counts /\ tiles'[s] = tiles[s]
      BY <2>1 DEF TileInv
    <3>5. AfterDraw(s) => AfterDraw(s)'
      BY <2>1 DEF AfterDraw
    <3>6. AfterMeld(s) => AfterMeld(s)'
      BY <2>1 DEF AfterMeld
    <3>7. ComingInv'
      BY <2>1, <3>1, <3>2, <3>3, <3>4, <3>5, <3>6 DEF ComingInv, MayDecide, DeclareFits, Counts
    <3>8. QED
      BY <2>1, <3>7, TileKept
  <2>4. QED
    BY <1>1, <2>2, <2>3 DEF DecideSelf
<1>2. ASSUME NEW kind \in ReactionKinds, Claim(s, kind) PROVE TileInv'
  <2>1. UNCHANGED <<tiles, wall, declare, round, last>> /\ MayClaim(s, kind)
    BY <1>2 DEF Claim
  <2>2. \A i \in Seats : avail'[i] \subseteq avail[i]
    BY <1>2 DEF Claim, Masked
  <2>3. CASE next' = next
    BY <2>1, <2>2, <2>3, TileKept, ComingKept
  <2>4. CASE next' = Ev(kind, s)
    <3>1. next'.kind = kind /\ next'.seat = s
      BY <2>4 DEF Ev
    <3>2. round # 0
      BY <2>1 DEF TileInv, MayClaim, AfterDiscard, AfterAddedKong
    <3>3. kind \in {"Chow", "Pung", "MeldedKong"} => AfterDiscard(s)' /\ ReactionFits(kind, s)'
      BY <2>1 DEF MayClaim, AfterDiscard, TileInv, OfferInv, ReactionFits
    <3>4. kind = "DiscardWin" => AfterDiscard(s)'
      BY <2>1 DEF MayClaim, AfterDiscard
    <3>5. kind = "RobAddedKongWin" => AfterAddedKong(s)'
      BY <2>1 DEF MayClaim, AfterAddedKong
    <3>6. ComingInv'
      BY <2>1, <3>1, <3>2, <3>3, <3>4, <3>5 DEF ComingInv, ReactionKinds
    <3>7. QED
      BY <2>1, <2>2, <3>6, TileKept
  <2>5. QED
    BY <1>2, <2>3, <2>4 DEF Claim
<1>3. CASE Pass(s) \/ Refused(s)
  <2>1. UNCHANGED <<tiles, wall, declare, round, next, last, avail>>
    BY <1>3 DEF Pass, Refused, control, table
  <2>2. QED
    BY <2>1, TileKept, ComingKept
<1>4. CASE FinalPass(s)
  <2>1. UNCHANGED <<tiles, wall, declare, round, next, last>>
    BY <1>4 DEF FinalPass
  <2>2. \A i \in Seats : avail'[i] \subseteq avail[i]
    BY <1>4 DEF FinalPass, TileInv, TypeOK, TableOK
  <2>3. QED
    BY <2>1, <2>2, TileKept, ComingKept
<1>5. QED
  BY <1>1, <1>2, <1>3, <1>4 DEF Decide

LEMMA TileStep == TileInv /\ [Next]_vars => TileInv'
<1> SUFFICES ASSUME TileInv, [Next]_vars PROVE TileInv'
  OBVIOUS
<1>1. TypeOK'
  BY TypeStep DEF TileInv
<1>2. CASE UNCHANGED <<control, table>>
  <2>1. UNCHANGED <<tiles, wall, declare, round, next, last, avail>>
    BY <1>2 DEF control, table
  <2>2. QED
    BY <1>1, <2>1, TileKept, ComingKept
<1>3. CASE CollectorEnds
  <2>1. UNCHANGED <<tiles, wall, declare, round, avail>>
    BY <1>3 DEF CollectorEnds, control, table
  <2>2. \/ next' = next /\ last' = last
        \/ next'.kind = "None" /\ (last' = last \/ last'.kind = "End")
    BY <1>3 DEF CollectorEnds, control, NoEvent, Ev
  <2>3. QED
    BY <1>1, <2>1, <2>2, TileKept, ComingKept
<1>4. CASE Next
  BY <1>1, <1>2, <1>3, <1>4, TileExecute, TileDecide
  DEF Next, Callers, Time, PresenceCall, Presence, SetAbandoned, CollectorLooks,
      WaitLapses, IdleLapses, WaitStarts, TimerExpires
<1>5. CASE UNCHANGED vars
  BY <1>2, <1>5 DEF vars
<1>6. QED
  BY <1>4, <1>5

\* Thirteen tiles in every hand, and a fourteenth with the seat on turn, after
\* every draw, discard, claim and kong that clients may send in any order.
THEOREM HandShapeHolds == Spec => []HandShape
<1>1. TileInv => HandShape
  <2> SUFFICES ASSUME TileInv, Dealt, NEW s \in Seats
               PROVE  /\ \A field \in DOMAIN tiles[s] : tiles[s][field] >= 0
                      /\ tiles[s].hand + 3 * Melds(tiles[s]) =
                           13 + (IF last.kind \in {"Chow", "Pung"} /\ last.seat = s THEN 1 ELSE 0)
                      /\ AfterDraw(s) => tiles[s].drawn = 1
                      /\ last.kind \in {"DiscardTile", "AddedKong", "ConcealedKong", "MeldedKong"}
                           => tiles[s].drawn = 0
    BY DEF HandShape
  <2>1. last.kind \in Passive \union {"DrawTile", "SelfDrawnWin", "Chow", "Pung"}
    BY DEF TileInv, TypeOK, ControlOK, Dealt, Kinds, Passive
  <2>2. tiles[s] \in Counts
    BY DEF TileInv
  <2>3. \A field \in DOMAIN tiles[s] : tiles[s][field] >= 0
    BY <2>2 DEF Counts
  <2>4. CASE last.kind \in Passive
    BY <2>3, <2>4 DEF TileInv, ShapeInv, Waiting, Passive, AfterDraw
  <2>5. CASE last.kind \in {"DrawTile", "SelfDrawnWin"}
    BY <2>3, <2>5 DEF TileInv, ShapeInv, Waiting, TookDraw, AfterDraw
  <2>6. CASE last.kind \in {"Chow", "Pung"}
    BY <2>3, <2>6 DEF TileInv, ShapeInv, Waiting, TookMeld, AfterDraw
  <2>7. QED
    BY <2>1, <2>4, <2>5, <2>6
<1>2. QED
  BY TileInit, TileStep, <1>1, PTL DEF Spec

\* No tile is lost or made, and the wall never runs below empty: the deal, every
\* draw, discard, claim and kong moves tiles between wall, hands and piles.
THEOREM TilesConservedHolds == Spec => []TilesConserved
<1>1. TileInv => TilesConserved
  BY DEF TileInv, TilesConserved, Conserved
<1>2. QED
  BY TileInit, TileStep, <1>1, PTL DEF Spec

-----------------------------------------------------------------------------
(* The session plays a game by the rules.                                  *)

\* What the rules ask of the transition to come beyond the tiles: it follows the
\* last one, its seat is the one whose turn it is, only the seat to the right of a
\* discard is offered a chow, and the next round is one that may be played.
TurnInv ==
  /\ last.kind = "End" => ended
  /\ next.kind = "Start" =>
       /\ next.seat = 0 /\ last.kind \in {"None"} \union RoundResults
       /\ RoundCount # 0 => round < RoundCount
       /\ round > 0 => \A s \in Seats : person[s].score >= Floor
  /\ next.kind = "Predraw" =>
       /\ IF next.n = 0 THEN last.kind = "Start"
          ELSE last.kind = "Predraw" /\ next.seat = Right(last.seat)
       /\ wall = WallTiles - (IF next.n <= 12 THEN 4 * next.n ELSE next.n + 36)
  /\ next.kind = "DrawTile" => Table!Due(next.seat)
  /\ next.kind = "Chow" => next.seat = Right(last.seat)
  /\ last.kind = "DiscardTile" => \A s \in Seats : "Chow" \in avail[s] => s = Right(last.seat)

RulesInv == TileInv /\ LifeInv /\ TurnInv

\* Nobody wins or loses points.
Even == \A s \in Seats : person'[s].score = person[s].score

-----------------------------------------------------------------------------
\* Who comes, goes, wakes up or is counted as late keeps his points.
LEMMA ScoreKept ==
  ASSUME NEW p \in Person
  PROVE  /\ Cleared(p).score = p.score /\ Left(p).score = p.score
         /\ TimedOut(p).score = p.score /\ IdleCheck(p).score = p.score
         /\ \A i : [p EXCEPT !.idle = i].score = p.score
         /\ \A a : [p EXCEPT !.abandoned = a].score = p.score
         /\ \A a, i : [p EXCEPT !.abandoned = a, !.idle = i].score = p.score
<1>1. Cleared(p).score = p.score
  BY DEF Cleared, Person
<1>2. Left(p).score = p.score
  BY DEF Left, Person
<1>3. TimedOut(p).score = p.score
  BY DEF TimedOut, Person
<1>4. IdleCheck(p).score = p.score
  BY DEF IdleCheck, Person
<1>5. QED
  BY <1>1, <1>2, <1>3, <1>4 DEF Person

\* Replacing the entry of one seat by one with the same points.
LEMMA EvenOne ==
  ASSUME TypeOK, NEW s \in Seats, NEW p, p.score = person[s].score,
         person' = [person EXCEPT ![s] = p]
  PROVE  Even
BY DEF Even, TypeOK, PersonOK

\* The moves of the rules, in terms of the state of the session.
LEMMA DeliverMoves ==
  ASSUME NEW e, NEW options, NEW people, Deliver(e, options, people)
  PROVE  Table!Moves(e.kind, e.seat)
BY DEF Deliver, Table!Moves

LEMMA ReactMoves ==
  ASSUME NEW e, NEW people, NEW ts, React(e, people, ts)
  PROVE  Table!Moves(e.kind, e.seat)
BY DeliverMoves DEF React

LEMMA HoldsOne ==
  ASSUME NEW s \in Seats, NEW k, NEW m,
         \A t \in Seats : /\ Concealed(tiles'[t]) = IF t = s THEN Concealed(tiles[s]) + k
                                                   ELSE Concealed(tiles[t])
                         /\ Melds(tiles'[t]) = IF t = s THEN Melds(tiles[s]) + m
                                               ELSE Melds(tiles[t])
  PROVE  Table!Holds(s, k, m)
BY DEF Table!Holds, Concealed, Melds

LEMMA PointsStay ==
  ASSUME Even
  PROVE  UNCHANGED [s \in Seats |-> person[s].score]
BY DEF Even

LEMMA HandsStay ==
  ASSUME UNCHANGED tiles
  PROVE  /\ UNCHANGED [s \in Seats |-> Concealed(tiles[s])]
         /\ UNCHANGED [s \in Seats |-> Melds(tiles[s])]
BY DEF Concealed, Melds

LEMMA TurnIsNext ==
  ASSUME NEW s \in Seats, Table!Turn(s) PROVE Table!Next
BY DEF Table!Next, Table!Seats, Seats

\* A step that moves nothing on the table.
LEMMA TableStands ==
  ASSUME UNCHANGED <<round, last, wall, tiles>>, Even
  PROVE  UNCHANGED Table!vars
BY PointsStay, HandsStay DEF Table!vars

LEMMA TurnInit == Init => TurnInv /\ Table!Init
<1> SUFFICES ASSUME Init PROVE TurnInv /\ Table!Init
  OBVIOUS
<1>1. TurnInv
  BY RoundsAssumption DEF Init, TurnInv, Ev
<1>2. \A s \in Seats : Concealed(tiles[s]) = 0 /\ Melds(tiles[s]) = 0 /\ person[s].score = 0
  BY DEF Init, Concealed, Melds, NoTiles
<1>3. QED
  BY <1>1, <1>2 DEF Init, Table!Init, Table!Seats, Seats

LEMMA SeatingCovers ==
  ASSUME NEW seating \in Seatings
  PROVE  seating \in [Seats -> Seats] /\ \A s \in Seats : \E t \in Seats : seating[t] = s
<1>1. \A s \in Seats : (s + 3) % 4 \in Seats /\ Right((s + 3) % 4) = s
  BY DEF Right, Seats
<1>2. QED
  BY <1>1, SeatingTyped, ShufflesAssumption DEF Seatings

\* The first round, and every other one, begins with a deal that starts at the first seat.
LEMMA RulesStart == ASSUME RulesInv, ExecuteStart PROVE Table!Next /\ TurnInv'
<1>1. PICK seating \in Seatings : person' = [s \in Seats |-> IdleCheck(person[seating[s]])]
  BY DEF ExecuteStart
<1>2. /\ next.seat = 0 /\ last.kind \in {"None"} \union RoundResults
      /\ RoundCount # 0 => round < RoundCount
      /\ round > 0 => \A s \in Seats : person[s].score >= Floor
  BY DEF RulesInv, TurnInv, ExecuteStart, Executes
<1>3. round' = round + 1 /\ tiles' = [s \in Seats |-> NoTiles] /\ wall' = WallTiles
  BY DEF ExecuteStart
<1>4. Table!Moves("Start", 0)
  BY <1>2, DeliverMoves DEF ExecuteStart, Ev
<1>5. next'.kind = "Predraw" /\ next'.seat = 0 /\ next'.n = 0
  BY PredrawFields DEF ExecuteStart
<1>6. Table!Begin
  <2>1. \A s \in Seats : person'[s].score = person[seating[s]].score
    BY <1>1, SeatingCovers, ScoreKept, TypeReads DEF RulesInv, TileInv
  <2>2. \A s \in Seats : Concealed(tiles'[s]) = 0 /\ Melds(tiles'[s]) = 0
    BY <1>3 DEF Concealed, Melds, NoTiles
  <2>3. [s \in Seats |-> person'[s].score]
          = [s \in Seats |-> [t \in Seats |-> person[t].score][seating[s]]]
    BY <2>1, SeatingCovers
  <2>4. \E f \in [Seats -> Seats] :
          /\ \A s \in Seats : \E t \in Seats : f[t] = s
          /\ [s \in Seats |-> person'[s].score]
               = [s \in Seats |-> [t \in Seats |-> person[t].score][f[s]]]
    BY <2>3, SeatingCovers
  <2>5. last.kind \in {"None"} \union Table!Results
    BY <1>2 DEF RoundResults, Wins, Table!Results
  <2>6. \A s \in Table!Seats : round > 0 => [t \in Seats |-> person[t].score][s] >= Floor
    BY <1>2 DEF Table!Seats, Seats
  <2>7. [s \in Seats |-> Concealed(tiles'[s])] = [s \in Seats |-> 0]
        /\ [s \in Seats |-> Melds(tiles'[s])] = [s \in Seats |-> 0]
    BY <2>2
  <2>8. Table!Seats = Seats
    BY DEF Table!Seats, Seats
  <2>9. QED
    BY <1>2, <1>3, <1>4, <2>4, <2>5, <2>6, <2>7, <2>8 DEF Table!Begin, Concealed, Melds
<1>7. TurnInv'
  BY <1>3, <1>4, <1>5, WallAssumption DEF TurnInv, Table!Moves
<1>8. QED
  BY <1>6, <1>7 DEF Table!Next

LEMMA RulesPredraw == ASSUME RulesInv, ExecutePredraw PROVE Table!Next /\ TurnInv'
<1>0. PICK s \in Seats : s = next.seat
  BY TypeReads DEF RulesInv, TileInv
<1> DEFINE n == next.n
           k == IF n >= 12 THEN 1 ELSE 4
<1>1. /\ next.kind = "Predraw" /\ n \in 0..15 /\ s = n % 4 /\ wall \in Int
      /\ tiles \in [Seats -> Counts]
      /\ IF n = 0 THEN last.kind = "Start" ELSE last.kind = "Predraw" /\ s = Right(last.seat)
      /\ wall = WallTiles - (IF n <= 12 THEN 4 * n ELSE n + 36)
  BY <1>0, TypeReads DEF RulesInv, TileInv, ComingInv, TurnInv, ExecutePredraw, Executes, Event
<1>2. /\ tiles' = [tiles EXCEPT ![s].hand = @ + k] /\ wall' = wall - k
      /\ UNCHANGED <<round, person>>
  BY <1>0 DEF ExecutePredraw
<1>3. Table!Moves("Predraw", s)
  BY <1>0, <1>1, DeliverMoves DEF ExecutePredraw
<1>4. next' = IF n < 15 THEN PredrawBy(Right(s), n + 1) ELSE DrawBy(0, FALSE)
  BY <1>0 DEF ExecutePredraw
<1>5. Table!Holds(s, k, 0)
  <2> DEFINE h == [tiles[s] EXCEPT !.hand = @ + k]
  <2>1. k \in Int /\ tiles[s] \in Counts
    BY <1>1
  <2>2. tiles' = [tiles EXCEPT ![s] = h]
    BY <1>2
  <2> HIDE DEF k
  <2>3. Concealed(h) = Concealed(tiles[s]) + k /\ Melds(h) = Melds(tiles[s]) + 0
    BY <2>1 DEF Concealed, Melds, Counts
  <2> HIDE DEF h
  <2>4. QED
    BY <1>1, <2>2, <2>3, HoldsOne
<1>6. Table!Deal(s)
  <2>1. k = (IF wall > WallTiles - 48 THEN 4 ELSE 1) /\ wall > WallTiles - 52
    BY <1>1, WallAssumption
  <2>2. \/ last.kind = "Start" /\ s = 0
        \/ last.kind = "Predraw" /\ s = Table!Right(last.seat)
    BY <1>1 DEF Right, Table!Right
  <2>3. UNCHANGED <<round, [t \in Seats |-> person[t].score]>>
    BY <1>2
  <2> HIDE DEF k
  <2>4. QED
    BY <1>2, <1>3, <1>5, <2>1, <2>2, <2>3 DEF Table!Deal
<1>7. TurnInv'
  <2>1. last'.kind = "Predraw" /\ last'.seat = s
    BY <1>3 DEF Table!Moves
  <2>2. CASE n < 15
    <3>1. next'.kind = "Predraw" /\ next'.seat = Right(s) /\ next'.n = n + 1
      BY <1>4, <2>2, PredrawFields
    <3>2. wall' = WallTiles - (IF n + 1 <= 12 THEN 4 * (n + 1) ELSE n + 1 + 36)
      BY <1>1, <1>2, <2>2, WallAssumption
    <3>3. n + 1 # 0
      BY <1>1
    <3>4. QED
      BY <2>1, <3>1, <3>2, <3>3 DEF TurnInv, Right
  <2>3. CASE n = 15
    <3>0. next' = DrawBy(0, FALSE)
      BY <1>4, <2>3
    <3>1. next'.kind = "DrawTile" /\ next'.seat = 0
      BY <3>0, DrawFields
    <3>2. wall' = WallTiles - 52
      BY <1>1, <1>2, <2>3, WallAssumption
    <3>3. Table!Due(next.seat)'
      BY <2>1, <3>1, <3>2 DEF Table!Due
    <3>4. QED
      BY <2>1, <3>1, <3>3 DEF TurnInv
  <2>4. QED
    BY <1>1, <2>2, <2>3
<1>8. QED
  BY <1>6, <1>7, TurnIsNext DEF Table!Turn

\* What there is to show of a transition within a round.
LEMMA TurnAfter ==
  ASSUME last'.kind # "End",
         next'.kind \in {"DiscardTile", "DrawTile"},
         next'.kind = "DrawTile" => Table!Due(next.seat)',
         last'.kind = "DiscardTile" => \A s \in Seats : "Chow" \in avail'[s] => s = Right(last'.seat)
  PROVE  TurnInv'
BY DEF TurnInv

LEMMA RulesDraw == ASSUME RulesInv, ExecuteDraw PROVE Table!Next /\ TurnInv'
<1>0. PICK s \in Seats : s = next.seat
  BY TypeReads DEF RulesInv, TileInv
<1>1. /\ next.kind = "DrawTile" /\ Table!Due(s) /\ Waiting(s) /\ wall > 0
      /\ tiles \in [Seats -> Counts]
  BY <1>0 DEF RulesInv, TileInv, ComingInv, TurnInv, ExecuteDraw, Executes
<1>2. /\ tiles' = [tiles EXCEPT ![s].drawn = 1] /\ wall' = wall - 1
      /\ UNCHANGED <<round, person>>
      /\ next' = ForcedDiscard(s, TRUE)
  BY <1>0 DEF ExecuteDraw
<1>3. Table!Moves("DrawTile", s)
  BY <1>0, <1>1, DeliverMoves DEF ExecuteDraw
<1>4. Table!Holds(s, 1, 0)
  <2> DEFINE h == [tiles[s] EXCEPT !.drawn = 1]
  <2>1. tiles[s] \in Counts
    BY <1>1
  <2>2. tiles' = [tiles EXCEPT ![s] = h]
    BY <1>2
  <2>3. Concealed(h) = Concealed(tiles[s]) + 1 /\ Melds(h) = Melds(tiles[s]) + 0
    BY <1>1, <2>1 DEF Concealed, Melds, Counts, Waiting
  <2> HIDE DEF h
  <2>4. QED
    BY <1>1, <2>2, <2>3, HoldsOne
<1>5. Table!Draw(s)
  BY <1>1, <1>2, <1>3, <1>4 DEF Table!Draw
<1>6. TurnInv'
  BY <1>2, <1>3, ForcedFields, TurnAfter DEF Table!Moves
<1>7. QED
  BY <1>5, <1>6, TurnIsNext DEF Table!Turn

\* After a result comes the next round if the rules allow one.
LEMMA TurnResult ==
  ASSUME last'.kind \in RoundResults, next' = NextRound(person'), round' = round, round \in Nat,
         \A s \in Seats : person'[s].score \in Int
  PROVE  TurnInv'
<1>1. CASE next' = Ev("Start", 0)
  <2>1. /\ ~ \E s \in Seats : person'[s].score < Floor
        /\ ~ (RoundCount # 0 /\ round >= RoundCount)
    BY <1>1 DEF NextRound, Ev
  <2>2. next'.kind = "Start" /\ next'.seat = 0
    BY <1>1 DEF Ev
  <2>3. \A s \in Seats : person'[s].score >= Floor
    BY <2>1, FloorAssumption
  <2>4. RoundCount # 0 => round' < RoundCount
    BY <2>1, RoundsAssumption
  <2>5. QED
    BY <2>2, <2>3, <2>4 DEF TurnInv, RoundResults, Wins
<1>2. CASE next' = Ev("End", 0)
  <2>1. next'.kind = "End"
    BY <1>2 DEF Ev
  <2>2. QED
    BY <2>1 DEF TurnInv, RoundResults, Wins
<1>3. QED
  BY <1>1, <1>2 DEF NextRound

LEMMA RulesDrawnGame == ASSUME RulesInv, TypeOK', ExecuteDrawnGame PROVE Table!Next /\ TurnInv'
<1>0. PICK s \in Seats : s = next.seat
  BY TypeReads DEF RulesInv, TileInv
<1>1. /\ next.kind = "DrawTile" /\ Table!Due(s) /\ wall = 0
  BY <1>0 DEF RulesInv, TurnInv, ExecuteDrawnGame, Executes
<1>2. UNCHANGED <<tiles, wall, round, person>> /\ next' = NextRound(person')
  BY DEF ExecuteDrawnGame, table
<1>3. Table!Moves("DrawnGame", s)
  BY <1>0, DeliverMoves DEF ExecuteDrawnGame, Ev
<1>4. Table!DrawnGame(s)
  BY <1>1, <1>2, <1>3, HandsStay DEF Table!DrawnGame
<1>5. TurnInv'
  <2>1. \A t \in Seats : person'[t].score \in Int
    BY <1>2, TypeReads DEF RulesInv, TileInv, Person
  <2>2. round \in Nat
    BY TypeReads DEF RulesInv, TileInv
  <2>3. QED
    BY <1>2, <1>3, <2>1, <2>2, TurnResult DEF Table!Moves, RoundResults
<1>6. QED
  BY <1>4, <1>5, TurnIsNext DEF Table!Turn

LEMMA RulesDiscard == ASSUME RulesInv, ExecuteDiscard PROVE Table!Next /\ TurnInv'
<1>0. PICK s \in Seats : s = next.seat
  BY TypeReads DEF RulesInv, TileInv
<1> DEFINE h == DropDiscard(tiles[s], next.drawn)
<1>1. /\ next.kind = "DiscardTile" /\ next.drawn \in BOOLEAN
      /\ AfterDraw(s) \/ AfterMeld(s)
      /\ IF next.drawn THEN tiles[s].drawn = 1 ELSE tiles[s].hand > 0
      /\ tiles \in [Seats -> Counts]
  BY <1>0, TypeReads DEF RulesInv, TileInv, ComingInv, ExecuteDiscard, Executes
<1>2. /\ tiles' = [tiles EXCEPT ![s] = h]
      /\ UNCHANGED <<round, wall>>
      /\ next' = DrawBy(Right(s), FALSE)
      /\ person' = AfterForced(next)
  BY <1>0 DEF ExecuteDiscard
<1>3. /\ Table!Moves("DiscardTile", s)
      /\ \A t \in Seats : avail'[t] \in ReactionSets(t, next, person', tiles')
  BY <1>0, <1>1, ReactMoves, ReactOffers DEF ExecuteDiscard
<1>4. Table!Holds(s, -1, 0)
  <2>1. tiles[s] \in Counts /\ tiles[s] \in Tiles
    BY <1>1, CountsAreTiles
  <2>2. /\ h.hand = IF next.drawn THEN tiles[s].hand ELSE tiles[s].hand - 1 + tiles[s].drawn
        /\ h.drawn = 0 /\ h.pile = tiles[s].pile + 1
        /\ h.chows = tiles[s].chows /\ h.pungs = tiles[s].pungs /\ h.kongs = tiles[s].kongs
    BY <1>1, <2>1, DropFields
  <2> HIDE DEF h
  <2>3. Concealed(h) = Concealed(tiles[s]) + (-1) /\ Melds(h) = Melds(tiles[s]) + 0
    BY <1>1, <2>1, <2>2 DEF Concealed, Melds, Counts
  <2>4. QED
    BY <1>1, <1>2, <2>3, HoldsOne
<1>5. Even
  <2>1. CASE next.forced
    <3>1. person' = [person EXCEPT ![s] = TimedOut(person[s])]
      BY <1>0, <1>2, <2>1 DEF AfterForced
    <3>2. TimedOut(person[s]).score = person[s].score
      BY TypeReads, ScoreKept DEF RulesInv, TileInv
    <3>3. QED
      BY <3>1, <3>2, EvenOne DEF RulesInv, TileInv
  <2>2. CASE ~next.forced
    BY <1>2, <2>2 DEF AfterForced, Even
  <2>3. QED
    BY <2>1, <2>2
<1>6. Table!Discard(s)
  <2>1. Table!OnTurn(s)
    BY <1>1 DEF Table!OnTurn, AfterDraw, AfterMeld
  <2>2. QED
    BY <1>2, <1>3, <1>4, <1>5, <2>1, PointsStay DEF Table!Discard
<1>7. TurnInv'
  <2>1. last'.kind = "DiscardTile" /\ last'.seat = s
    BY <1>3 DEF Table!Moves
  <2>2. next'.kind = "DrawTile" /\ next'.seat = Right(s)
    BY <1>2, DrawFields
  <2>3. Table!Due(next.seat)'
    BY <2>1, <2>2 DEF Table!Due, Table!Right, Right
  <2>4. \A t \in Seats : "Chow" \in avail'[t] => t = Right(s)
    BY <1>0, <1>3 DEF ReactionSets
  <2>5. QED
    BY <2>1, <2>2, <2>3, <2>4, TurnAfter DEF Right
<1>8. QED
  BY <1>6, <1>7, TurnIsNext DEF Table!Turn

LEMMA RulesMeld ==
  ASSUME RulesInv, NEW kind \in {"Chow", "Pung", "MeldedKong"}, ExecuteMeld(kind)
  PROVE  Table!Next /\ TurnInv'
<1>0. PICK s \in Seats : s = next.seat
  BY TypeReads DEF RulesInv, TileInv
<1> DEFINE k == IF kind = "MeldedKong" THEN 3 ELSE 2
<1>1. /\ next.kind = kind /\ last.kind = "DiscardTile" /\ last.seat # s /\ last.seat \in Seats
      /\ tiles[s].hand >= k
      /\ kind = "Chow" => s = Right(last.seat)
      /\ tiles \in [Seats -> Counts]
  BY <1>0, TypeReads
  DEF RulesInv, TileInv, ComingInv, TurnInv, ExecuteMeld, Executes, AfterDiscard, ReactionFits
<1>2. /\ tiles' = [t \in Seats |-> IF t = s THEN TakeMeld(tiles[t], kind)
                                   ELSE IF t = last.seat THEN LoseDiscard(tiles[t])
                                   ELSE tiles[t]]
      /\ UNCHANGED <<round, wall, person>>
      /\ next' = IF kind = "MeldedKong" THEN DrawBy(s, TRUE) ELSE ForcedDiscard(s, FALSE)
  BY <1>0 DEF ExecuteMeld
<1>3. Table!Moves(kind, s)
  BY <1>0, <1>1, DeliverMoves DEF ExecuteMeld
<1>4. Table!Holds(s, -k, 1)
  <2>1. \A t \in Seats : tiles[t] \in Counts /\ tiles[t] \in Tiles
    BY <1>1, CountsAreTiles
  <2>2. Concealed(tiles'[s]) = Concealed(tiles[s]) + (-k) /\ Melds(tiles'[s]) = Melds(tiles[s]) + 1
    <3> DEFINE r == TakeMeld(tiles[s], kind)
    <3>1. tiles'[s] = r
      BY <1>2
    <3>2. /\ r.hand = tiles[s].hand - k
          /\ r.chows = tiles[s].chows + (IF kind = "Chow" THEN 1 ELSE 0)
          /\ r.pungs = tiles[s].pungs + (IF kind = "Pung" THEN 1 ELSE 0)
          /\ r.kongs = tiles[s].kongs + (IF kind = "MeldedKong" THEN 1 ELSE 0)
          /\ r.drawn = tiles[s].drawn
      BY <2>1, MeldFields
    <3> HIDE DEF r
    <3>3. QED
      BY <2>1, <3>1, <3>2 DEF Concealed, Melds, Counts
  <2>3. /\ Concealed(tiles'[last.seat]) = Concealed(tiles[last.seat])
        /\ Melds(tiles'[last.seat]) = Melds(tiles[last.seat])
    <3> DEFINE r == LoseDiscard(tiles[last.seat])
    <3>1. tiles'[last.seat] = r
      BY <1>1, <1>2
    <3>2. /\ r.hand = tiles[last.seat].hand /\ r.drawn = tiles[last.seat].drawn
          /\ r.chows = tiles[last.seat].chows /\ r.pungs = tiles[last.seat].pungs
          /\ r.kongs = tiles[last.seat].kongs
      BY <1>1, <2>1, LoseFields
    <3> HIDE DEF r
    <3>3. QED
      BY <3>1, <3>2 DEF Concealed, Melds
  <2>4. \A t \in Seats \ {s, last.seat} : tiles'[t] = tiles[t]
    BY <1>2
  <2> HIDE DEF k
  <2>5. QED
    BY <2>2, <2>3, <2>4, HoldsOne
<1>5. Table!Meld(kind, s, k)
  <2>1. [t \in Seats |-> Concealed(tiles[t])][s] >= k
    BY <1>1 DEF Concealed, Counts
  <2> HIDE DEF k
  <2>2. QED
    BY <1>1, <1>2, <1>3, <1>4, <2>1 DEF Table!Meld
<1>6. Table!Turn(s)
  BY <1>1, <1>5 DEF Table!Turn, Table!Chow, Table!Pung, Table!MeldKong, Table!Right, Right
<1>7. TurnInv'
  <2>1. last'.kind = kind /\ last'.seat = s
    BY <1>3 DEF Table!Moves
  <2>2. CASE kind = "MeldedKong"
    <3>1. next'.kind = "DrawTile" /\ next'.seat = s
      BY <1>2, <2>2, DrawFields
    <3>2. Table!Due(next.seat)'
      BY <2>1, <2>2, <3>1 DEF Table!Due, Table!Kongs
    <3>3. QED
      BY <2>1, <2>2, <3>1, <3>2, TurnAfter
  <2>3. CASE kind # "MeldedKong"
    <3>1. next'.kind = "DiscardTile"
      BY <1>2, <2>3, ForcedFields
    <3>2. QED
      BY <2>1, <3>1, TurnAfter
  <2>4. QED
    BY <2>2, <2>3
<1>8. QED
  BY <1>6, <1>7, TurnIsNext

LEMMA RulesAddedKong == ASSUME RulesInv, ExecuteAddedKong PROVE Table!Next /\ TurnInv'
<1>0. PICK s \in Seats : s = next.seat
  BY TypeReads DEF RulesInv, TileInv
<1> DEFINE h == AddKong(tiles[s], next.drawn)
<1>1. /\ next.kind = "AddedKong" /\ next.drawn \in BOOLEAN
      /\ AfterDraw(s) \/ AfterMeld(s)
      /\ tiles[s].pungs >= 1
      /\ IF next.drawn THEN tiles[s].drawn = 1 ELSE tiles[s].hand > 0
      /\ tiles \in [Seats -> Counts]
  BY <1>0, TypeReads DEF RulesInv, TileInv, ComingInv, ExecuteAddedKong, Executes
<1>2. /\ tiles' = [tiles EXCEPT ![s] = h]
      /\ UNCHANGED <<round, wall, person>>
      /\ next' = DrawBy(s, TRUE)
  BY <1>0 DEF ExecuteAddedKong
<1>3. Table!Moves("AddedKong", s)
  BY <1>0, <1>1, ReactMoves DEF ExecuteAddedKong
<1>4. tiles[s] \in Counts /\ tiles[s] \in Tiles
  BY <1>1, CountsAreTiles
<1>5. Table!Holds(s, -1, 0)
  <2>1. /\ h.hand = IF next.drawn THEN tiles[s].hand ELSE tiles[s].hand + tiles[s].drawn - 1
        /\ h.drawn = 0 /\ h.pungs = tiles[s].pungs - 1 /\ h.kongs = tiles[s].kongs + 1
        /\ h.chows = tiles[s].chows
    BY <1>1, <1>4, AddFields
  <2> HIDE DEF h
  <2>2. Concealed(h) = Concealed(tiles[s]) + (-1) /\ Melds(h) = Melds(tiles[s]) + 0
    BY <1>1, <1>4, <2>1 DEF Concealed, Melds, Counts
  <2>3. QED
    BY <1>1, <1>2, <2>2, HoldsOne
<1>6. Table!AddKong(s)
  <2>1. Table!OnTurn(s)
    BY <1>1 DEF Table!OnTurn, AfterDraw, AfterMeld
  <2>2. /\ [t \in Seats |-> Melds(tiles[t])][s] >= 1
        /\ [t \in Seats |-> Concealed(tiles[t])][s] >= 1
    BY <1>1, <1>4 DEF Concealed, Melds, Counts
  <2>3. QED
    BY <1>2, <1>3, <1>5, <2>1, <2>2 DEF Table!AddKong
<1>7. TurnInv'
  <2>1. last'.kind = "AddedKong" /\ last'.seat = s
    BY <1>3 DEF Table!Moves
  <2>2. next'.kind = "DrawTile" /\ next'.seat = s
    BY <1>2, DrawFields
  <2>3. Table!Due(next.seat)'
    BY <2>1, <2>2 DEF Table!Due, Table!Kongs
  <2>4. QED
    BY <2>1, <2>2, <2>3, TurnAfter
<1>8. QED
  BY <1>6, <1>7, TurnIsNext DEF Table!Turn

LEMMA RulesConcealedKong == ASSUME RulesInv, ExecuteConcealedKong PROVE Table!Next /\ TurnInv'
<1>0. PICK s \in Seats : s = next.seat
  BY TypeReads DEF RulesInv, TileInv
<1> DEFINE h == ConcealKong(tiles[s], next.drawn)
<1>1. /\ next.kind = "ConcealedKong" /\ next.drawn \in BOOLEAN
      /\ AfterDraw(s) \/ AfterMeld(s)
      /\ IF next.drawn THEN tiles[s].drawn = 1 /\ tiles[s].hand >= 3 ELSE tiles[s].hand >= 4
      /\ tiles \in [Seats -> Counts]
  BY <1>0, TypeReads DEF RulesInv, TileInv, ComingInv, ExecuteConcealedKong, Executes
<1>2. /\ tiles' = [tiles EXCEPT ![s] = h]
      /\ UNCHANGED <<round, wall, person>>
      /\ next' = DrawBy(s, TRUE)
  BY <1>0 DEF ExecuteConcealedKong
<1>3. Table!Moves("ConcealedKong", s)
  BY <1>0, <1>1, DeliverMoves DEF ExecuteConcealedKong
<1>4. tiles[s] \in Counts /\ tiles[s] \in Tiles
  BY <1>1, CountsAreTiles
<1>5. Table!Holds(s, -4, 1)
  <2>1. /\ h.hand = IF next.drawn THEN tiles[s].hand - 3
                    ELSE tiles[s].hand + tiles[s].drawn - 4
        /\ h.drawn = 0 /\ h.pungs = tiles[s].pungs /\ h.kongs = tiles[s].kongs + 1
        /\ h.chows = tiles[s].chows
    BY <1>1, <1>4, ConcealFields
  <2> HIDE DEF h
  <2>2. Concealed(h) = Concealed(tiles[s]) + (-4) /\ Melds(h) = Melds(tiles[s]) + 1
    BY <1>1, <1>4, <2>1 DEF Concealed, Melds, Counts
  <2>3. QED
    BY <1>1, <1>2, <2>2, HoldsOne
<1>6. Table!ConcealKong(s)
  <2>1. Table!OnTurn(s)
    BY <1>1 DEF Table!OnTurn, AfterDraw, AfterMeld
  <2>2. [t \in Seats |-> Concealed(tiles[t])][s] >= 4
    BY <1>1, <1>4 DEF Concealed, Counts
  <2>3. QED
    BY <1>2, <1>3, <1>5, <2>1, <2>2 DEF Table!ConcealKong
<1>7. TurnInv'
  <2>1. last'.kind = "ConcealedKong" /\ last'.seat = s
    BY <1>3 DEF Table!Moves
  <2>2. next'.kind = "DrawTile" /\ next'.seat = s
    BY <1>2, DrawFields
  <2>3. Table!Due(next.seat)'
    BY <2>1, <2>2 DEF Table!Due, Table!Kongs
  <2>4. QED
    BY <2>1, <2>2, <2>3, TurnAfter
<1>8. QED
  BY <1>6, <1>7, TurnIsNext DEF Table!Turn

LEMMA RulesWin ==
  ASSUME RulesInv, TypeOK', NEW kind \in Wins, ExecuteWin(kind)
  PROVE  Table!Next /\ TurnInv'
<1>0. PICK s \in Seats : s = next.seat
  BY TypeReads DEF RulesInv, TileInv
<1>1. /\ next.kind = kind
      /\ kind = "SelfDrawnWin" => last.kind = "DrawTile" /\ last.seat = s
      /\ kind = "DiscardWin" => last.kind = "DiscardTile" /\ last.seat # s
      /\ kind = "RobAddedKongWin" => last.kind = "AddedKong" /\ last.seat # s
  BY <1>0 DEF RulesInv, TileInv, ComingInv, ExecuteWin, Executes, AfterDraw, AfterDiscard,
     AfterAddedKong
<1>2. PICK b \in BasePoints :
        person' = IF kind = "SelfDrawnWin" THEN SelfDrawnScores(s, b)
                  ELSE DiscardWinScores(s, last.seat, b)
  BY <1>0 DEF ExecuteWin
<1>3. UNCHANGED <<round, tiles, wall>> /\ next' = NextRound(person')
  BY DEF ExecuteWin, table
<1>4. Table!Moves(kind, s)
  BY <1>0, <1>1, DeliverMoves DEF ExecuteWin
<1>5. \A t \in Seats : person[t] \in Person
  BY TypeReads DEF RulesInv, TileInv
<1>6. Table!Win(s, b)
  <2>1. CASE kind = "SelfDrawnWin"
    <3>1. \A t \in Seats :
            person'[t].score = person[t].score + (IF t = s THEN 3 * b ELSE -b)
      BY <1>2, <1>5, <2>1 DEF SelfDrawnScores, Person
    <3>2. last = [kind |-> "DrawTile", seat |-> s]
      BY <1>1, <2>1 DEF RulesInv, TileInv, TypeOK, ControlOK
    <3>3. Table!SelfDrawnWin(s, b)
      BY <1>3, <1>4, <2>1, <3>1, <3>2, HandsStay DEF Table!SelfDrawnWin, Table!Seats, Seats
    <3>4. QED
      BY <3>3 DEF Table!Win
  <2>2. CASE kind # "SelfDrawnWin"
    <3>1. \A t \in Seats :
            person'[t].score = person[t].score + (IF t = s THEN 3 * b
                                                  ELSE IF t = last.seat THEN -3 * b ELSE 0)
      BY <1>2, <1>5, <2>2 DEF DiscardWinScores, Person
    <3>2. ASSUME NEW tile, last.kind = tile, last.seat # s PROVE Table!WinOn(kind, tile, s, b)
      BY <1>3, <1>4, <3>1, <3>2, HandsStay DEF Table!WinOn, Table!Seats, Seats
    <3>3. QED
      BY <1>1, <2>2, <3>2 DEF Table!Win, Wins
  <2>3. QED
    BY <2>1, <2>2
<1>7. Table!Turn(s)
  BY <1>6 DEF Table!Turn
<1>8. TurnInv'
  <2>1. \A t \in Seats : person'[t].score \in Int
    BY DEF TypeOK, PersonOK, Person
  <2>2. round \in Nat
    BY TypeReads DEF RulesInv, TileInv
  <2>3. QED
    BY <1>3, <1>4, <2>1, <2>2, TurnResult DEF Table!Moves, RoundResults
<1>9. QED
  BY <1>7, <1>8, TurnIsNext

LEMMA RulesEnd ==
  ASSUME RulesInv, ExecuteEnd \/ ExecuteAbandon
  PROVE  Table!Next /\ TurnInv'
<1>1. next.kind # "None"
  BY DEF ExecuteEnd, ExecuteAbandon, Executes
<1>2. last.kind # "End"
  BY <1>1 DEF RulesInv, LifeInv, TurnInv, NoEvent, Ev
<1>3. /\ UNCHANGED <<round, tiles, wall>>
      /\ ended' = TRUE /\ next' = NoEvent
  BY DEF ExecuteEnd, ExecuteAbandon, table, EndLifecycle
<1>4. Table!Moves("End", 0)
  BY DeliverMoves DEF ExecuteEnd, ExecuteAbandon, Ev
<1>5. Even
  <2>1. CASE ExecuteEnd
    BY <2>1 DEF ExecuteEnd, Even
  <2>2. CASE ExecuteAbandon
    <3>1. PICK q : person' = [s \in Seats |->
                      IF s = q THEN [person[s] EXCEPT !.abandoned = TRUE]
                      ELSE IF s < q THEN IdleCheck(person[s]) ELSE person[s]]
      BY <2>2 DEF ExecuteAbandon
    <3>2. QED
      BY <3>1, ScoreKept, TypeReads DEF RulesInv, TileInv, Even
  <2>3. QED
    BY <2>1, <2>2
<1>6. Table!End
  BY <1>2, <1>3, <1>4, <1>5, PointsStay, HandsStay DEF Table!End
<1>7. next'.kind = "None" /\ last'.kind = "End"
  BY <1>3, <1>4 DEF Table!Moves, NoEvent, Ev
<1>8. TurnInv'
  BY <1>3, <1>7 DEF TurnInv
<1>9. QED
  BY <1>6, <1>8 DEF Table!Next

-----------------------------------------------------------------------------
\* What keeps TurnInv while the last transition stays the same.
LEMMA TurnKept ==
  ASSUME TurnInv, TypeOK, UNCHANGED <<round, wall, last>>, Even, ended => ended',
         \A s \in Seats : avail'[s] \subseteq avail[s],
         \/ next' = next
         \/ next'.kind \notin {"Start", "Predraw", "DrawTile", "Chow"}
         \/ next'.kind = "Chow" /\ next'.seat = Right(last.seat)
  PROVE  TurnInv'
<1>1. CASE next' = next
  <2>1. next.kind = "DrawTile" => Table!Due(next.seat)'
    BY <1>1 DEF TurnInv, Table!Due
  <2>2. \A s \in Seats : person[s].score >= Floor => person'[s].score >= Floor
    BY DEF Even
  <2>3. QED
    BY <1>1, <2>1, <2>2 DEF TurnInv
<1>2. CASE next' # next
  BY <1>2 DEF TurnInv
<1>3. QED
  BY <1>1, <1>2

\* A seat that decides, claims or passes changes what is to come, and no more.
LEMMA RulesDecide ==
  ASSUME RulesInv, NEW s \in Seats, Decide(s)
  PROVE  UNCHANGED Table!vars /\ TurnInv'
<1>1. UNCHANGED <<round, wall, last, tiles, ended>>
  BY DEF Decide, DecideSelf, Claim, Pass, FinalPass, Refused, control, table, lifecycle
<1>2. Even
  <2>1. CASE Awake(s)
    <3>1. person' = [person EXCEPT ![s] = Cleared(person[s])]
      BY <2>1 DEF Awake
    <3>2. Cleared(person[s]).score = person[s].score
      BY ScoreKept, TypeReads DEF RulesInv, TileInv
    <3>3. QED
      BY <3>1, <3>2, EvenOne DEF RulesInv, TileInv
  <2>2. CASE person' = person
    BY <2>2 DEF Even
  <2>3. QED
    BY <2>1, <2>2 DEF Decide, DecideSelf, Claim, Pass, FinalPass, Refused
<1>3. \A i \in Seats : avail'[i] \subseteq avail[i]
  <2>1. CASE avail' = avail
    BY <2>1
  <2>2. CASE FinalPass(s)
    BY <2>2 DEF FinalPass, RulesInv, TileInv, TypeOK, TableOK
  <2>3. ASSUME NEW kind \in ReactionKinds, Claim(s, kind) PROVE \A i \in Seats : avail'[i] \subseteq avail[i]
    BY <2>3 DEF Claim, Masked
  <2>4. QED
    BY <2>1, <2>2, <2>3 DEF Decide, DecideSelf, Pass, Refused, table
<1>4. \/ next' = next
      \/ next'.kind \notin {"Start", "Predraw", "DrawTile", "Chow"}
      \/ next'.kind = "Chow" /\ next'.seat = Right(last.seat)
  <2>1. ASSUME NEW kind \in {"DiscardTile", "AddedKong", "ConcealedKong", "SelfDrawnWin"},
               NEW drawn \in BOOLEAN, DecideSelf(s, kind, drawn), next' # next
        PROVE  next'.kind \notin {"Start", "Predraw", "DrawTile", "Chow"}
    <3>1. next' = [Ev(kind, s) EXCEPT !.drawn = drawn]
      BY <2>1 DEF DecideSelf, control
    <3>2. QED
      BY <2>1, <3>1 DEF Ev
  <2>2. ASSUME NEW kind \in ReactionKinds, Claim(s, kind), next' # next
        PROVE  \/ next'.kind \notin {"Start", "Predraw", "DrawTile", "Chow"}
               \/ next'.kind = "Chow" /\ next'.seat = Right(last.seat)
    <3>1. next' = Ev(kind, s)
      BY <2>2 DEF Claim
    <3>2. next'.kind = kind /\ next'.seat = s
      BY <3>1 DEF Ev
    <3>3. kind = "Chow" => s = Right(last.seat)
      BY <2>2 DEF Claim, MayClaim, AfterDiscard, RulesInv, TurnInv
    <3>4. QED
      BY <3>2, <3>3 DEF ReactionKinds
  <2>3. CASE Pass(s) \/ FinalPass(s) \/ Refused(s)
    BY <2>3 DEF Pass, FinalPass, Refused, control
  <2>4. QED
    BY <2>1, <2>2, <2>3 DEF Decide
<1>5. TurnInv'
  BY <1>1, <1>2, <1>3, <1>4, TurnKept DEF RulesInv, TileInv
<1>6. QED
  BY <1>1, <1>2, <1>5, TableStands

\* Neither do players who come and go, clocks, or timers before they get the mutex.
LEMMA RulesIdle ==
  ASSUME RulesInv, UNCHANGED <<control, table, lifecycle>>, Even
  PROVE  UNCHANGED Table!vars /\ TurnInv'
<1>1. UNCHANGED <<round, wall, last, next, tiles, avail, ended>>
  BY DEF control, table, lifecycle
<1>2. QED
  BY <1>1, TurnKept, TableStands DEF RulesInv, TileInv

LEMMA RulesPeople ==
  ASSUME RulesInv,
         \/ Presence
         \/ \E s \in Seats, abandon \in BOOLEAN : SetAbandoned(s, abandon)
         \/ \E s \in Seats : IdleLapses(s)
  PROVE  Even
<1>0. TypeOK /\ \A s \in Seats : person[s] \in Person
  BY TypeReads DEF RulesInv, TileInv
<1>1. CASE Presence
  <2>1. call.seat \in Seats
    BY <1>0 DEF TypeOK, CallersOK
  <2> DEFINE p == IF call.op = "Left" THEN Left(person[call.seat]) ELSE Cleared(person[call.seat])
  <2>2. person' = [person EXCEPT ![call.seat] = p]
    BY <1>1 DEF Presence
  <2>3. p.score = person[call.seat].score
    BY <1>0, <2>1, ScoreKept
  <2> HIDE DEF p
  <2>4. QED
    BY <1>0, <2>1, <2>2, <2>3, EvenOne
<1>2. ASSUME NEW s \in Seats, NEW abandon \in BOOLEAN, SetAbandoned(s, abandon) PROVE Even
  <2> DEFINE i == IF abandon THEN person[s].idle ELSE "None"
             p == [person[s] EXCEPT !.abandoned = abandon, !.idle = i]
  <2>1. person' = [person EXCEPT ![s] = p]
    BY <1>0, <1>2 DEF SetAbandoned, TypeOK, PersonOK, Person
  <2>2. p.score = person[s].score
    BY <1>0, ScoreKept
  <2> HIDE DEF p
  <2>3. QED
    BY <1>0, <2>1, <2>2, EvenOne
<1>3. ASSUME NEW s \in Seats, IdleLapses(s) PROVE Even
  <2> DEFINE p == [person[s] EXCEPT !.idle = "Long"]
  <2>1. person' = [person EXCEPT ![s] = p]
    BY <1>3 DEF IdleLapses
  <2>2. p.score = person[s].score
    BY <1>0, ScoreKept
  <2> HIDE DEF p
  <2>3. QED
    BY <1>0, <2>1, <2>2, EvenOne
<1>4. QED
  BY <1>1, <1>2, <1>3

\* The collector may break the game off.
LEMMA RulesCollector ==
  ASSUME RulesInv, CollectorEnds
  PROVE  [Table!Next]_(Table!vars) /\ TurnInv'
<1>1. UNCHANGED <<round, wall, tiles, avail, person>> /\ ended' = TRUE
  BY DEF CollectorEnds, control, table, EndLifecycle
<1>2. Even
  BY <1>1 DEF Even
<1>3. CASE last' = last
  <2>1. next' = next \/ next'.kind = "None"
    BY DEF CollectorEnds, control, NoEvent, Ev
  <2>2. QED
    BY <1>1, <1>2, <1>3, <2>1, TurnKept, TableStands DEF RulesInv, TileInv
<1>4. CASE last' # last
  <2>1. ~ended /\ last' = [kind |-> "End", seat |-> 0] /\ next' = NoEvent
    BY <1>4 DEF CollectorEnds, control
  <2>2. last.kind # "End"
    BY <2>1 DEF RulesInv, TurnInv
  <2>3. Table!End
    BY <1>1, <2>1, <2>2, HandsStay DEF Table!End, Table!Moves
  <2>4. TurnInv'
    BY <1>1, <2>1 DEF TurnInv, NoEvent, Ev
  <2>5. QED
    BY <2>3, <2>4 DEF Table!Next
<1>5. QED
  BY <1>3, <1>4

\* Every step of the session is a move of the game or leaves the table as it is.
LEMMA RulesStep ==
  ASSUME RulesInv, [Next]_vars
  PROVE  [Table!Next]_(Table!vars) /\ RulesInv'
<1>0. TileInv' /\ LifeInv' /\ TypeOK'
  BY TileStep, LifeStep DEF RulesInv, TileInv
<1> SUFFICES [Table!Next]_(Table!vars) /\ TurnInv'
  BY <1>0 DEF RulesInv
<1>1. ASSUME UNCHANGED <<control, table, lifecycle>>, person' = person
      PROVE  UNCHANGED Table!vars /\ TurnInv'
  BY <1>1, RulesIdle DEF Even
<1>2. CASE ExecuteTransition
  <2>1. CASE ExecuteNothing
    BY <1>1, <2>1 DEF ExecuteNothing
  <2>2. QED
    BY <1>0, <1>2, <2>1, RulesStart, RulesPredraw, RulesDraw, RulesDrawnGame, RulesDiscard, RulesMeld,
       RulesAddedKong, RulesConcealedKong, RulesWin, RulesEnd
    DEF ExecuteTransition
<1>3. CASE \E s \in Seats : Decide(s)
  BY <1>3, RulesDecide
<1>4. CASE Callers
  <2>1. CASE CollectorEnds
    BY <2>1, RulesCollector
  <2>2. CASE Presence \/ \E s \in Seats, abandon \in BOOLEAN : SetAbandoned(s, abandon)
    <3>1. UNCHANGED <<control, table, lifecycle>>
      BY <2>2 DEF Presence, SetAbandoned
    <3>2. QED
      BY <2>2, <3>1, RulesPeople, RulesIdle
  <2>3. CASE CollectorLooks \/ \E s \in Seats, op \in {"Left", "Resumed"} : PresenceCall(s, op)
    BY <1>1, <2>3 DEF CollectorLooks, PresenceCall
  <2>4. QED
    BY <1>4, <2>1, <2>2, <2>3 DEF Callers
<1>5. CASE Time
  <2>1. CASE \E s \in Seats : IdleLapses(s)
    <3>1. UNCHANGED <<control, table, lifecycle>>
      BY <2>1 DEF IdleLapses
    <3>2. QED
      BY <2>1, <3>1, RulesPeople, RulesIdle
  <2>2. CASE TimerExpires \/ \E s \in Seats : WaitLapses(s) \/ WaitStarts(s)
    BY <1>1, <2>2 DEF TimerExpires, WaitLapses, WaitStarts
  <2>3. QED
    BY <1>5, <2>1, <2>2 DEF Time
<1>6. CASE UNCHANGED vars
  BY <1>1, <1>6 DEF vars
<1>7. QED
  BY <1>2, <1>3, <1>4, <1>5, <1>6 DEF Next

\* Whatever is sent when, whoever is late, away or comes back, and whichever timer fires,
\* what the session executes is a legal game of TableRules: rounds, deals, turns, melds,
\* kongs, wins and their points follow one another as the rules have it.
THEOREM FollowsRulesHolds == Spec => FollowsRules
<1>1. Init => RulesInv /\ Table!Init
  BY TileInit, LifeInit, TurnInit DEF RulesInv
<1>2. RulesInv /\ [Next]_vars => [Table!Next]_(Table!vars) /\ RulesInv'
  BY RulesStep
<1>3. QED
  BY <1>1, <1>2, PTL DEF Spec, FollowsRules, Table!Spec

-----------------------------------------------------------------------------
(* What the session inherits from the rules.                               *)

\* Four players who change places have as many points as before.
LEMMA Permuted ==
  ASSUME NEW f \in [Seats -> Seats], \A s \in Seats : \E t \in Seats : f[t] = s,
         NEW p \in [Seats -> Int]
  PROVE  p[f[0]] + p[f[1]] + p[f[2]] + p[f[3]] = p[0] + p[1] + p[2] + p[3]
<1>1. PICK a \in Seats, b \in Seats, c \in Seats, d \in Seats :
        a = f[0] /\ b = f[1] /\ c = f[2] /\ d = f[3]
  BY DEF Seats
<1>2. \A s \in Seats : s \in {a, b, c, d}
  BY <1>1 DEF Seats
<1>3. p[0] \in Int /\ p[1] \in Int /\ p[2] \in Int /\ p[3] \in Int
  BY DEF Seats
<1>4. /\ a # b /\ a # c /\ a # d /\ b # c /\ b # d /\ c # d
  BY <1>2 DEF Seats
<1>5. p[a] + p[b] + p[c] + p[d] = p[0] + p[1] + p[2] + p[3]
  BY <1>3, <1>4 DEF Seats
<1>6. QED
  BY <1>1, <1>5

LEMMA PointsStep ==
  ASSUME TypeOK, TypeOK', Table!PointsBalance, [Table!Next]_(Table!vars)
  PROVE  Table!PointsBalance'
<1> DEFINE p == [s \in Seats |-> person[s].score]
           Sum(q) == q[0] + q[1] + q[2] + q[3]
<1>1. p \in [Seats -> Int] /\ p' \in [Seats -> Int] /\ last.seat \in Seats
  BY DEF TypeOK, PersonOK, ControlOK, Person
<1>2. Table!PointsBalance <=> Sum(p) = 0
  BY DEF Table!PointsBalance
<1>3. Table!PointsBalance' <=> Sum(p') = 0
  BY DEF Table!PointsBalance
<1> HIDE DEF p
<1>4. CASE p' = p
  BY <1>2, <1>3, <1>4
<1>5. CASE Table!Begin
  <2>1. PICK f \in [Seats -> Seats] :
          /\ \A s \in Seats : \E t \in Seats : f[t] = s
          /\ p' = [s \in Seats |-> p[f[s]]]
    BY <1>5 DEF Table!Begin, Table!Seats, Seats, p
  <2>2. Sum(p') = Sum(p)
    <3>1. Sum(p') = p[f[0]] + p[f[1]] + p[f[2]] + p[f[3]]
      BY <2>1 DEF Seats
    <3>2. QED
      BY <1>1, <2>1, <3>1, Permuted
  <2>3. QED
    BY <1>2, <1>3, <2>2
<1>6. ASSUME NEW s \in Seats, NEW b \in BasePoints, Table!Win(s, b) PROVE Table!PointsBalance'
  <2>1. b \in Nat
    BY BasePointsAssumption
  <2>2. CASE Table!SelfDrawnWin(s, b)
    <3>1. p' = [t \in Seats |-> p[t] + (IF t = s THEN 3 * b ELSE -b)]
      BY <2>2 DEF Table!SelfDrawnWin, Table!Seats, Seats, p
    <3>2. Sum(p') = Sum(p)
      BY <1>1, <2>1, <3>1 DEF Seats
    <3>3. QED
      BY <1>2, <1>3, <3>2
  <2>3. ASSUME NEW kind, NEW tile, Table!WinOn(kind, tile, s, b) PROVE Table!PointsBalance'
    <3>1. /\ s # last.seat
          /\ p' = [t \in Seats |-> p[t] + (IF t = s THEN 3 * b
                                           ELSE IF t = last.seat THEN -3 * b ELSE 0)]
      BY <2>3 DEF Table!WinOn, Table!Seats, Seats, p
    <3>2. Sum(p') = Sum(p)
      BY <1>1, <2>1, <3>1 DEF Seats
    <3>3. QED
      BY <1>2, <1>3, <3>2
  <2>4. QED
    BY <1>6, <2>2, <2>3 DEF Table!Win
<1>7. ASSUME NEW s \in Seats, Table!Turn(s), p' # p PROVE Table!PointsBalance'
  <2>1. \E b \in BasePoints : Table!Win(s, b)
    BY <1>7 DEF Table!Turn, Table!Deal, Table!Draw, Table!DrawnGame, Table!Discard, Table!ConcealKong,
       Table!AddKong, Table!Chow, Table!Pung, Table!MeldKong, Table!Meld, p
  <2>2. QED
    BY <1>6, <2>1
<1>8. CASE Table!End
  BY <1>4, <1>8 DEF Table!End, p
<1>9. CASE UNCHANGED Table!vars
  BY <1>4, <1>9 DEF Table!vars, p
<1>10. Table!Seats = Seats
  BY DEF Table!Seats, Seats
<1>11. QED
  BY <1>4, <1>5, <1>7, <1>8, <1>9, <1>10 DEF Table!Next

\* What one player wins others have paid, over all rounds, shuffles of the seats and players
\* who come and go: the final scores that the callbacks of the end report sum up to nothing.
THEOREM PointsBalanceHolds == Spec => []Table!PointsBalance
<1>1. Init => RulesInv /\ Table!PointsBalance
  <2>1. Init => Table!PointsBalance
    BY DEF Init, Table!PointsBalance, Seats
  <2>2. QED
    BY <2>1, TileInit, LifeInit, TurnInit DEF RulesInv
<1>2. RulesInv /\ Table!PointsBalance /\ [Next]_vars => RulesInv' /\ Table!PointsBalance'
  BY RulesStep, PointsStep DEF RulesInv, TileInv
<1>3. QED
  BY <1>1, <1>2, PTL DEF Spec

=============================================================================
