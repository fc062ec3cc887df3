------------------------------ MODULE WallProofs ------------------------------
(***************************************************************************)
(* The ring of an ordinary wall hands out every tile once, for every       *)
(* number of stacks and wherever it is broken.                             *)
(***************************************************************************)
EXTENDS Wall, FiniteSetTheorems, TLAPS

USE StacksAssumption

-----------------------------------------------------------------------------
(* The ring.                                                               *)

LEMMA StepUp ==
  ASSUME NEW i \in 0 .. Stacks - 1
  PROVE  (i + 1) % Stacks = IF i + 1 = Stacks THEN 0 ELSE i + 1
BY Z3

LEMMA StepDown ==
  ASSUME NEW i \in 0 .. Stacks - 1
  PROVE  (i + Stacks - 1) % Stacks = IF i = 0 THEN Stacks - 1 ELSE i - 1
BY Z3

LEMMA BreakOnRing == Breaks \subseteq 0 .. Stacks - 1
BY Z3 DEF Breaks

\* A place is the upper or the lower one of its stack.
LEMMA PlaceOfStack ==
  /\ \A i \in 0 .. Stacks - 1 : Upper(i) \in Places /\ Lower(i) \in Places
  /\ \A p \in Places : \E i \in 0 .. Stacks - 1 : p = Upper(i) \/ p = Lower(i)
<1>1. \A i \in 0 .. Stacks - 1 : Upper(i) \in Places /\ Lower(i) \in Places
  BY DEF Upper, Lower, Places
<1>2. ASSUME NEW p \in Places PROVE \E i \in 0 .. Stacks - 1 : p = Upper(i) \/ p = Lower(i)
  <2>1. p \div 2 \in 0 .. Stacks - 1 /\ (p = 2 * (p \div 2) \/ p = 2 * (p \div 2) + 1)
    BY DEF Places
  <2>2. QED
    BY <2>1 DEF Upper, Lower
<1>3. QED
  BY <1>1, <1>2

-----------------------------------------------------------------------------
(* The inductive invariant.  That a draw finds a tile rests on Stretch; that *)
(* an empty answer is right rests on Counted.                               *)

Counted == IsFiniteSet(there) /\ size = Cardinality(there)

Ring == there \subseteq Places /\ front \in 0 .. Stacks - 1 /\ back \in 0 .. Stacks - 1

WallInv == Ring /\ Counted /\ Stretch

LEMMA FullCounted == IsFiniteSet(Places) /\ Cardinality(Places) = 2 * Stacks
<1>1. 0 \in Int /\ 2 * Stacks - 1 \in Int
  OBVIOUS
<1>2. QED
  BY <1>1, FS_Interval DEF Places

Prepared ==
  /\ there = Places
  /\ front \in Breaks
  /\ back = (front + Stacks - 1) % Stacks
  /\ size = 2 * Stacks

LEMMA FullInv == Prepared => WallInv
<1> SUFFICES ASSUME Prepared PROVE WallInv
  OBVIOUS
<1> USE DEF Prepared
<1>1. front \in 0 .. Stacks - 1
  BY BreakOnRing
<1>2. back = (IF front = 0 THEN Stacks - 1 ELSE front - 1)
  BY <1>1, StepDown
<1>3. Ring
  BY <1>1, <1>2 DEF Ring
<1>4. Counted
  BY FullCounted DEF Counted
<1>5. \A i \in 0 .. Stacks - 1 : Distance(i) <= Distance(back)
  BY <1>1, <1>2 DEF Distance
<1>6. Stretch
  BY <1>5, PlaceOfStack DEF Stretch
<1>7. QED
  BY <1>3, <1>4, <1>6 DEF WallInv

\* A draw takes a tile that is there.
LEMMA FrontFinds ==
  ASSUME WallInv, size # 0
  PROVE  there # {} /\ Lower(front) \in there /\ Lower(back) \in there
<1>1. there # {}
  BY FS_EmptySet DEF WallInv, Counted
<1>2. front \in 0 .. Stacks - 1 /\ back \in 0 .. Stacks - 1
  BY DEF WallInv, Ring
<1>3. Distance(front) = 0 /\ Distance(back) \in 0 .. Stacks - 1
  BY <1>2 DEF Distance
<1>4. QED
  BY <1>1, <1>2, <1>3 DEF WallInv, Stretch

LEMMA TakeCounted ==
  ASSUME Counted, NEW p \in there, Take(p)
  PROVE  Counted'
<1>1. IsFiniteSet(there \ {p}) /\ Cardinality(there \ {p}) = Cardinality(there) - 1
  BY FS_RemoveElement DEF Counted
<1>2. QED
  BY <1>1 DEF Counted, Take

LEMMA FrontInv == ASSUME WallInv, DrawFront PROVE WallInv' /\ Supply!Draw
<1>1. front \in 0 .. Stacks - 1 /\ back \in 0 .. Stacks - 1 /\ there \subseteq Places
  BY DEF WallInv, Ring
<1>2. there # {} /\ Lower(front) \in there
  BY FrontFinds DEF DrawFront
<1>3. PICK p \in there : Take(p) /\ (p = Upper(front) \/ p = Lower(front))
  BY <1>2 DEF DrawFront
<1>4. Counted' /\ there' = there \ {p} /\ drawn' = p
  BY <1>3, TakeCounted DEF WallInv, Take
<1>5. Supply!Draw
  BY <1>4 DEF Supply!Draw
<1>6. CASE Upper(front) \in there
  <2>1. front' = front /\ back' = back /\ there' = there \ {Upper(front)}
    BY <1>2, <1>6 DEF DrawFront, Take
  <2>2. \A i \in 0 .. Stacks - 1 : Distance(i)' = Distance(i)
    BY <2>1 DEF Distance
  <2>3. Distance(back)' = Distance(back)
    BY <2>1 DEF Distance
  <2>4. \A i \in 0 .. Stacks - 1 : Lower(i) # Upper(front) /\ (i # front => Upper(i) # Upper(front))
    BY <1>1 DEF Lower, Upper
  <2>5. Distance(front) = 0
    BY <1>1 DEF Distance
  <2>6. Stretch'
    BY <1>2, <2>1, <2>2, <2>3, <2>4, <2>5 DEF WallInv, Stretch
  <2>7. QED
    BY <1>1, <1>4, <1>5, <2>1, <2>6 DEF WallInv, Ring
<1>7. CASE Upper(front) \notin there
  <2>1. front' = (front + 1) % Stacks /\ back' = back /\ there' = there \ {Lower(front)}
    BY <1>7 DEF DrawFront, Take
  <2>2. front' = IF front + 1 = Stacks THEN 0 ELSE front + 1
    BY <1>1, <2>1, StepUp
  <2>3. Ring'
    BY <1>1, <2>1, <2>2 DEF Ring
  <2>4. CASE back = front
    <3>1. \A i \in 0 .. Stacks - 1 : Lower(i) \in there => i = front
      BY <1>1, <1>2, <2>4 DEF WallInv, Stretch, Distance
    <3>2. \A i \in 0 .. Stacks - 1 : Upper(i) \in there => i = front
      BY <1>1, <1>2, <2>4 DEF WallInv, Stretch, Distance
    <3>3. there' = {}
      BY <1>1, <1>7, <2>1, <3>1, <3>2, PlaceOfStack
    <3>4. QED
      BY <1>4, <1>5, <2>3, <3>3 DEF WallInv, Stretch
  <2>5. CASE back # front
    <3>1. \A i \in 0 .. Stacks - 1 : i # front => Distance(i)' = Distance(i) - 1
      BY <1>1, <2>2 DEF Distance
    <3>2. Distance(back)' = Distance(back) - 1
      BY <1>1, <2>1, <2>2, <2>5 DEF Distance
    <3>3. \A i \in 0 .. Stacks - 1 : i = front => Distance(i) = 0 /\ Distance(i)' = Stacks - 1
      BY <1>1, <2>2 DEF Distance
    <3>4. Distance(back) \in 1 .. Stacks - 1
      BY <1>1, <2>5 DEF Distance
    <3>5. \A i \in 0 .. Stacks - 1 : Upper(i) # Lower(front) /\ (i # front => Lower(i) # Lower(front))
      BY <1>1 DEF Lower, Upper
    <3>6. \A i \in 0 .. Stacks - 1 : Distance(i) \in Int /\ (i # front => Distance(i) > 0)
      BY <1>1 DEF Distance
    <3>7. Stretch'
      <4> SUFFICES ASSUME NEW i \in 0 .. Stacks - 1
                   PROVE  /\ Lower(i) \in there' <=> Distance(i)' <= Distance(back)'
                          /\ Upper(i) \in there' => Distance(i)' <= Distance(back)'
                          /\ 0 < Distance(i)' /\ Distance(i)' < Distance(back)'
                               => Upper(i) \in there'
        BY DEF Stretch
      <4>1. /\ Lower(i) \in there <=> Distance(i) <= Distance(back)
            /\ Upper(i) \in there => Distance(i) <= Distance(back)
            /\ 0 < Distance(i) /\ Distance(i) < Distance(back) => Upper(i) \in there
        BY <1>2 DEF WallInv, Stretch
      <4>2. CASE i = front
        BY <1>7, <2>1, <3>2, <3>3, <3>4, <4>2
      <4>3. CASE i # front
        BY <2>1, <3>1, <3>2, <3>4, <3>5, <3>6, <4>1, <4>3
      <4>4. QED
        BY <4>2, <4>3
    <3>8. QED
      BY <1>4, <1>5, <2>3, <3>7 DEF WallInv
  <2>6. QED
    BY <2>4, <2>5
<1>8. QED
  BY <1>6, <1>7

LEMMA BackInv == ASSUME WallInv, DrawBack PROVE WallInv' /\ Supply!Draw
<1>1. front \in 0 .. Stacks - 1 /\ back \in 0 .. Stacks - 1 /\ there \subseteq Places
  BY DEF WallInv, Ring
<1>2. there # {} /\ Lower(back) \in there
  BY FrontFinds DEF DrawBack
<1>3. PICK p \in there : Take(p) /\ (p = Upper(back) \/ p = Lower(back))
  BY <1>2 DEF DrawBack
<1>4. Counted' /\ there' = there \ {p} /\ drawn' = p
  BY <1>3, TakeCounted DEF WallInv, Take
<1>5. Supply!Draw
  BY <1>4 DEF Supply!Draw
<1>6. \A i \in 0 .. Stacks - 1 : Distance(i)' = IF i >= front' THEN i - front' ELSE i - front' + Stacks
  BY DEF Distance
<1>7. CASE Upper(back) \in there
  <2>1. front' = front /\ back' = back /\ there' = there \ {Upper(back)}
    BY <1>2, <1>7 DEF DrawBack, Take
  <2>2. \A i \in 0 .. Stacks - 1 : Distance(i)' = Distance(i)
    BY <2>1 DEF Distance
  <2>3. Distance(back)' = Distance(back)
    BY <2>1 DEF Distance
  <2>4. \A i \in 0 .. Stacks - 1 : Lower(i) # Upper(back) /\ (i # back => Upper(i) # Upper(back))
    BY <1>1 DEF Lower, Upper
  <2>5. Distance(back) \in Int
    BY <1>1 DEF Distance
  <2>6. Stretch'
    BY <1>1, <1>2, <2>1, <2>2, <2>3, <2>4, <2>5 DEF WallInv, Stretch
  <2>7. QED
    BY <1>1, <1>4, <1>5, <2>1, <2>6 DEF WallInv, Ring
<1>8. CASE Upper(back) \notin there
  <2>1. back' = (back + Stacks - 1) % Stacks /\ front' = front /\ there' = there \ {Lower(back)}
    BY <1>8 DEF DrawBack, Take
  <2>2. back' = IF back = 0 THEN Stacks - 1 ELSE back - 1
    BY <1>1, <2>1, StepDown
  <2>3. Ring'
    BY <1>1, <2>1, <2>2 DEF Ring
  <2>4. CASE back = front
    <3>1. \A i \in 0 .. Stacks - 1 : Lower(i) \in there => i = front
      BY <1>1, <1>2, <2>4 DEF WallInv, Stretch, Distance
    <3>2. \A i \in 0 .. Stacks - 1 : Upper(i) \in there => i = front
      BY <1>1, <1>2, <2>4 DEF WallInv, Stretch, Distance
    <3>3. there' = {}
      BY <1>1, <1>8, <2>1, <2>4, <3>1, <3>2, PlaceOfStack
    <3>4. QED
      BY <1>4, <1>5, <2>3, <3>3 DEF WallInv, Stretch
  <2>5. CASE back # front
    <3>1. \A i \in 0 .. Stacks - 1 : Distance(i)' = Distance(i)
      BY <2>1 DEF Distance
    <3>2. Distance(back)' = Distance(back) - 1
      BY <1>1, <2>1, <2>2, <2>5 DEF Distance
    <3>3. Distance(back) \in 1 .. Stacks - 1
      BY <1>1, <2>5 DEF Distance
    <3>4. \A i \in 0 .. Stacks - 1 : Upper(i) # Lower(back) /\ (i # back => Lower(i) # Lower(back))
      BY <1>1 DEF Lower, Upper
    <3>5. \A i \in 0 .. Stacks - 1 : Distance(i) \in Int /\ (i # back => Distance(i) # Distance(back))
      BY <1>1 DEF Distance
    <3>6. Stretch'
      <4> SUFFICES ASSUME NEW i \in 0 .. Stacks - 1
                   PROVE  /\ Lower(i) \in there' <=> Distance(i)' <= Distance(back)'
                          /\ Upper(i) \in there' => Distance(i)' <= Distance(back)'
                          /\ 0 < Distance(i)' /\ Distance(i)' < Distance(back)'
                               => Upper(i) \in there'
        BY DEF Stretch
      <4>1. /\ Lower(i) \in there <=> Distance(i) <= Distance(back)
            /\ Upper(i) \in there => Distance(i) <= Distance(back)
            /\ 0 < Distance(i) /\ Distance(i) < Distance(back) => Upper(i) \in there
        BY <1>2 DEF WallInv, Stretch
      <4>2. CASE i = back
        BY <1>8, <2>1, <3>1, <3>2, <3>3, <4>2
      <4>3. CASE i # back
        BY <2>1, <3>1, <3>2, <3>3, <3>4, <3>5, <4>1, <4>3
      <4>4. QED
        BY <4>2, <4>3
    <3>7. QED
      BY <1>4, <1>5, <2>3, <3>6 DEF WallInv
  <2>6. QED
    BY <2>4, <2>5
<1>9. QED
  BY <1>7, <1>8

-----------------------------------------------------------------------------
LEMMA InvOfInit == Init => WallInv /\ Supply!Init
BY FullInv DEF Init, Prepared, Supply!Init

LEMMA InvOfNext == WallInv /\ [Next]_vars => WallInv' /\ [Supply!Next]_<<there, drawn>>
<1> SUFFICES ASSUME WallInv, [Next]_vars PROVE WallInv' /\ [Supply!Next]_<<there, drawn>>
  OBVIOUS
<1>1. CASE Prepare
  <2>1. WallInv'
    <3>1. Prepared'
      BY <1>1 DEF Prepare, Prepared
    <3>2. QED
      BY <3>1, FullInv, PTL
  <2>2. Supply!Refill
    BY <1>1 DEF Prepare, Supply!Refill
  <2>3. QED
    BY <2>1, <2>2 DEF Supply!Next
<1>2. CASE DrawFront
  BY <1>2, FrontInv DEF Supply!Next
<1>3. CASE DrawBack
  BY <1>3, BackInv DEF Supply!Next
<1>4. CASE RefuseDraw
  <2>1. there = {}
    BY <1>4, FS_EmptySet DEF RefuseDraw, WallInv, Counted
  <2>2. Supply!Refuse
    BY <1>4, <2>1 DEF RefuseDraw, Supply!Refuse
  <2>3. WallInv'
    BY <1>4 DEF RefuseDraw, WallInv, Ring, Counted, Stretch, Distance
  <2>4. QED
    BY <2>2, <2>3 DEF Supply!Next
<1>5. CASE UNCHANGED vars
  BY <1>5 DEF vars, WallInv, Ring, Counted, Stretch, Distance
<1>6. QED
  BY <1>1, <1>2, <1>3, <1>4, <1>5 DEF Next

\* The tiles left are always one stretch of the ring, from front to back.
THEOREM StretchHolds == Spec => []Stretch
<1>1. WallInv => Stretch
  BY DEF WallInv
<1>2. QED
  BY InvOfInit, InvOfNext, <1>1, PTL DEF Spec

\* The wall keeps the promise of TileSupply: each tile is handed out once and
\* only an empty wall refuses, whatever the dice and the order of the draws.
THEOREM WallRefinesSupply == Spec => ImplementsSupply
<1>1. Spec => Supply!Init /\ [][Supply!Next]_<<there, drawn>>
  BY InvOfInit, InvOfNext, PTL DEF Spec
<1>2. QED
  BY <1>1 DEF ImplementsSupply, Supply!Spec

=============================================================================
