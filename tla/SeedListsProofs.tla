--------------------------- MODULE SeedListsProofs ---------------------------
(* Proofs about the store of seed lists, for any number of lists, threads,    *)
(* records and crashes: the shapes of its tables and calls, and the numbers   *)
(* that StartSession hands out. The later parts are lemmas for duplicate      *)
(* games: what every statement does, field by field (StatementEffect), the    *)
(* steps each call goes through (RoutesInv), and how rows and records vanish. *)
EXTENDS SeedLists, TLAPS

\* Steps a call takes only while its own transaction is open.
InTransaction ==
    {"read", "write", "commit", "commit, release", "commit, deliver", "rollback",
     "collect", "erase records", "erase list"}

\* A transaction is open exactly while its owner is at one of these steps.
OwnerInTransaction == \A t \in Threads : calls[t].step \in InTransaction <=> owner = t

\* StartSession goes through these steps only, and has a list.
StartSteps ==
    \A t \in Threads : calls[t].op = "start" =>
        /\ calls[t].list \in Lists
        /\ calls[t].step \in {"begin", "read", "write", "commit", "rollback", "done"}

\* The row is there from the SELECT to the COMMIT, and the number is the one
\* after those handed out.
StartHolds ==
    \A t \in Threads :
        calls[t].op = "start" /\ calls[t].step \in {"write", "commit"} =>
            /\ lists[calls[t].list].exists
            /\ calls[t].number = Len(given[calls[t].list])

\* A list whose row is still to be inserted has given no number.
Unborn(l) ==
    /\ ~lists[l].exists
    /\ ~saved.lists[l].exists
    /\ given[l] = <<>>

Births ==
    /\ \A l \in Lists \ issued : Unborn(l)
    /\ \A t \in Threads : calls[t].step = "insert" =>
          /\ calls[t].op = "create" /\ calls[t].list \in issued /\ Unborn(calls[t].list)
          /\ \A u \in Threads \ {t} : calls[u].step = "insert" => calls[u].list # calls[t].list

\* A thread has counted a session on the list but has not committed yet.
Uncommitted(l) ==
    \E t \in Threads : calls[t].op = "start" /\ calls[t].step = "commit" /\ calls[t].list = l

\* The next number of a list is the number of those handed out; the row of an
\* open StartSession is one ahead, and the rows to roll back to are not.
NextAgrees ==
    \A l \in Lists :
        /\ lists[l].exists /\ ~Uncommitted(l) => lists[l].next = Len(given[l])
        /\ lists[l].exists /\ Uncommitted(l) => lists[l].next = Len(given[l]) + 1
        /\ saved.lists[l].exists => saved.lists[l].next = Len(given[l])

NumbersInv ==
    /\ OwnerInTransaction
    /\ StartSteps
    /\ StartHolds
    /\ Births
    /\ NextAgrees
    /\ NumbersInOrder
-----------------------------------------------------------------------------
(* Shapes                                                                    *)

\* Steps at which a call needs no list.
NoListSteps == {"reset", "select", "sweep", "done"}

\* A call that issues statements about a list has one, and a record to stage.
ListKnown ==
    \A t \in Threads :
        calls[t].op = "start" \/ calls[t].step \notin NoListSteps => calls[t].list \in Lists

RecordKnown ==
    \A t \in Threads :
        /\ calls[t].step \in {"exists", "stage"} => calls[t].op = "stage"
        /\ calls[t].op = "stage" => calls[t].record \in Records

TypeInv == TypeOK /\ ListKnown /\ RecordKnown

LEMMA IdleType == Idle \in Calls /\ NoRow \in Rows /\ NoTables \in Tables
  BY DEF Idle, Calls, NoRow, Rows, NoTables, Tables, Ops, Steps

LEMMA TypeInit == Init => TypeInv
  <1>1. SUFFICES ASSUME Init PROVE TypeInv
    OBVIOUS
  <1>a. [l \in Lists |-> <<>>] \in [Lists -> Seq(Nat)]
    OBVIOUS
  <1>b. /\ lists \in [Lists -> Rows]
        /\ calls \in [Threads -> Calls]
        /\ saved \in Tables
    BY <1>1, IdleType DEF Init
  <1>2. TypeOK
    BY <1>1, <1>a, <1>b DEF Init, TypeOK
  <1>3. ListKnown /\ RecordKnown
    BY <1>1 DEF Init, ListKnown, RecordKnown, Idle, NoListSteps
  <1> QED BY <1>2, <1>3 DEF TypeInv

\* A call that only moves on keeps its shape.
LEMMA MovedType ==
  ASSUME NEW c \in Calls, NEW step \in Steps, NEW ok \in BOOLEAN, NEW n \in Nat,
         NEW p \in SUBSET Records, NEW todo \in SUBSET Lists, NEW l \in Lists \cup {NoOne}
  PROVE  /\ [c EXCEPT !.step = step] \in Calls
         /\ [c EXCEPT !.step = step, !.ok = ok] \in Calls
         /\ [c EXCEPT !.number = n, !.step = step] \in Calls
         /\ [c EXCEPT !.payloads = p, !.step = step] \in Calls
         /\ [c EXCEPT !.payloads = p] \in Calls
         /\ [c EXCEPT !.todo = todo, !.step = step] \in Calls
         /\ [c EXCEPT !.list = l, !.todo = todo, !.step = step] \in Calls
  BY DEF Calls

LEMMA RowType ==
  ASSUME NEW row \in Rows
  PROVE  /\ \A n \in Nat, i \in Int : [row EXCEPT !.next = n, !.live = i] \in Rows
         /\ \A n \in Nat, i \in Int : [row EXCEPT !.live = i, !.started = n] \in Rows
         /\ \A n \in Nat : [row EXCEPT !.expires = n] \in Rows
         /\ \A n \in Nat : [row EXCEPT !.started = n] \in Rows
         /\ \A n \in Nat : [row EXCEPT !.exists = TRUE, !.expires = n] \in Rows
  BY DEF Rows

LEMMA BegunType == ASSUME NEW row \in Rows PROVE Begun(row) \in Rows
  <1>1. row.started + 1 \in Nat
    BY DEF Rows
  <1> QED BY <1>1, RowType DEF Begun

LEMMA ClearedType == ASSUME NEW row \in Rows PROVE Cleared(row) \in Rows
  <1> DEFINE zero == 0
  <1>1. zero \in Nat /\ zero \in Int
    OBVIOUS
  <1>2. Cleared(row) = [row EXCEPT !.live = zero, !.started = zero]
    BY DEF Cleared
  <1> HIDE DEF zero
  <1>3. [row EXCEPT !.live = zero, !.started = zero] \in Rows
    BY <1>1, RowType
  <1> QED BY <1>2, <1>3

LEMMA UpdatedType ==
  ASSUME NEW c \in Calls, NEW row \in Rows, NEW lifetime \in Lifetimes
  PROVE  Updated(c, row, lifetime) \in Rows
  <1> DEFINE left == IF c.started /\ row.started > 0 THEN row.started - 1 ELSE row.started
  <1>1. c.now \in Nat
    BY DEF Calls
  <1>2. c.now + lifetime \in Nat
    BY <1>1, LifetimesAssumption
  <1>3. row.next \in Nat /\ row.live \in Int /\ row.started \in Nat
    BY DEF Rows
  <1>4. row.next + 1 \in Nat /\ row.live + 1 \in Int /\ row.live - 1 \in Int
    BY <1>3
  <1>5. left \in Nat
    BY <1>3
  <1>6. [row EXCEPT !.next = @ + 1, !.live = @ + 1] \in Rows
    BY <1>4, RowType
  <1>7. [row EXCEPT !.live = row.live - 1, !.started = left] \in Rows
    <2> HIDE DEF left
    <2> QED BY <1>4, <1>5, RowType
  <1>8. [row EXCEPT !.expires = c.now + lifetime] \in Rows
    BY <1>2, RowType
  <1>9. [row EXCEPT !.expires = c.now] \in Rows
    BY <1>1, RowType
  <1> QED BY <1>6, <1>7, <1>8, <1>9 DEF Updated

CallsInv == calls \in [Threads -> Calls] /\ ListKnown /\ RecordKnown

LEMMA PutType ==
  ASSUME TypeInv, NEW t \in Threads, NEW c \in Calls, Put(t, c),
         c.op = "start" \/ c.step \notin NoListSteps => c.list \in Lists,
         c.step \in {"exists", "stage"} => c.op = "stage",
         c.op = "stage" => c.record \in Records
  PROVE  CallsInv'
  BY DEF CallsInv, TypeInv, TypeOK, Put, ListKnown, RecordKnown, NoListSteps

LEMMA GotoType ==
  ASSUME TypeInv, NEW t \in Threads, NEW step \in Steps, Goto(t, step),
         step \in NoListSteps \/ calls[t].list \in Lists,
         step \in {"exists", "stage"} => calls[t].op = "stage"
  PROVE  CallsInv'
  <1> DEFINE d == [calls[t] EXCEPT !.step = step]
  <1>1. calls[t] \in Calls
    BY DEF TypeInv, TypeOK
  <1>2. d \in Calls /\ d.step = step /\ d.list = calls[t].list
        /\ d.op = calls[t].op /\ d.record = calls[t].record
    BY <1>1 DEF Calls
  <1>3. d.op = "stage" => d.record \in Records
    BY <1>2 DEF TypeInv, RecordKnown
  <1>4. Put(t, d)
    BY DEF Goto
  <1>5. d.op = "start" \/ d.step \notin NoListSteps => d.list \in Lists
    BY <1>2 DEF TypeInv, ListKnown
  <1> HIDE DEF d
  <1> QED BY <1>2, <1>3, <1>4, <1>5, PutType

LEMMA FinishType ==
  ASSUME TypeInv, NEW t \in Threads, NEW ok \in BOOLEAN, Finish(t, ok)
  PROVE  CallsInv'
  <1> DEFINE d == [calls[t] EXCEPT !.step = "done", !.ok = ok]
  <1>1. calls[t] \in Calls
    BY DEF TypeInv, TypeOK
  <1>2. d \in Calls /\ d.step = "done" /\ d.list = calls[t].list
        /\ d.op = calls[t].op /\ d.record = calls[t].record
    BY <1>1 DEF Calls, Steps
  <1>3. d.op = "stage" => d.record \in Records
    BY <1>2 DEF TypeInv, RecordKnown
  <1>4. Put(t, d)
    BY DEF Finish
  <1>5. d.op = "start" \/ d.step \notin NoListSteps => d.list \in Lists
    BY <1>2 DEF TypeInv, ListKnown, NoListSteps
  <1> HIDE DEF d
  <1> QED BY <1>2, <1>3, <1>4, <1>5, PutType

\* Every statement keeps the shapes of the calls.
LEMMA CallsStatement ==
  ASSUME TypeInv, NEW t \in Threads, Statement(t)
  PROVE  CallsInv'
  <1> DEFINE c == calls[t]
  <1>c. c \in Calls
    BY DEF TypeInv, TypeOK
  <1>l. c.step \notin NoListSteps => c.list \in Lists
    BY DEF TypeInv, ListKnown, NoListSteps
  <1>r. c.op = "stage" => c.record \in Records
    BY DEF TypeInv, RecordKnown
  <1>1. CASE Begin(t)
    BY <1>1, <1>l, GotoType, FinishType DEF Begin, NoListSteps, Steps
  <1>2. CASE Read(t)
    <2> DEFINE row == lists[c.list]
               d == [c EXCEPT !.number = IF c.op = "start" THEN row.next ELSE 0,
                              !.step = AfterRead(c, row)]
    <2>1. c.list \in Lists
      BY <1>2, <1>l DEF Read, NoListSteps
    <2>2. row \in Rows
      BY <2>1 DEF TypeInv, TypeOK
    <2>3. AfterRead(c, row) \in Steps
      BY DEF AfterRead, Steps
    <2>4. d \in Calls /\ d.list = c.list /\ d.op = c.op /\ d.record = c.record
      BY <1>c, <2>2, <2>3 DEF Calls, Rows
    <2>6. d.step \notin {"exists", "stage"}
      BY <1>c DEF Calls, AfterRead
    <2>5. Put(t, d)
      BY <1>2 DEF Read
    <2> HIDE DEF d
    <2> QED BY <2>1, <2>4, <2>5, <2>6, <1>r, PutType
  <1>3. CASE Write(t)
    BY <1>3, <1>l, GotoType DEF Write, NoListSteps, Steps
  <1>4. CASE Commit(t)
    BY <1>4, <1>l, GotoType, FinishType DEF Commit, NoListSteps, Steps
  <1>5. CASE Rollback(t)
    BY <1>5, FinishType DEF Rollback
  <1>6. CASE Collect(t)
    <2> DEFINE d == [c EXCEPT !.payloads = {r \in Records : <<c.list, r>> \in staged},
                              !.step = "erase records"]
    <2>1. c.list \in Lists
      BY <1>6, <1>l DEF Collect, NoListSteps
    <2>2. d \in Calls /\ d.step = "erase records" /\ d.list = c.list
          /\ d.op = c.op /\ d.record = c.record
      BY <1>c DEF Calls, Steps
    <2>3. Put(t, d)
      BY <1>6 DEF Collect
    <2> HIDE DEF d
    <2> QED BY <2>1, <2>2, <2>3, <1>r, PutType
  <1>7. CASE EraseRecords(t)
    BY <1>7, <1>l, GotoType DEF EraseRecords, NoListSteps, Steps
  <1>8. CASE EraseList(t)
    BY <1>8, <1>l, GotoType DEF EraseList, NoListSteps, Steps
  <1>9. CASE Deliver(t)
    <2>1. c.list \in Lists
      BY <1>9, <1>l DEF Deliver, NoListSteps
    <2>2. ASSUME NEW r \in c.payloads, Put(t, [c EXCEPT !.payloads = @ \ {r}])
          PROVE  CallsInv'
      <3> DEFINE d == [c EXCEPT !.payloads = @ \ {r}]
      <3>1. d \in Calls /\ d.step = c.step /\ d.list = c.list
            /\ d.op = c.op /\ d.record = c.record
        BY <1>c DEF Calls
      <3>3. c.step = "deliver"
        BY <1>9 DEF Deliver
      <3>2. Put(t, d)
        BY <2>2
      <3> HIDE DEF d
      <3> QED BY <2>1, <3>1, <3>2, <3>3, <1>r, PutType
    <2> QED BY <1>9, <2>2, GotoType, FinishType DEF Deliver, NoListSteps, Steps
  <1>10. CASE Insert(t)
    BY <1>10, FinishType DEF Insert
  <1>11. CASE Mark(t)
    BY <1>11, FinishType DEF Mark
  <1>12. CASE ListExists(t)
    <2>1. c.op = "stage"
      BY <1>12 DEF ListExists, TypeInv, RecordKnown
    <2> QED BY <1>12, <1>l, <2>1, GotoType, FinishType DEF ListExists, NoListSteps, Steps
  <1>13. CASE Stage(t)
    BY <1>13, FinishType DEF Stage
  <1>14. CASE Reset(t)
    BY <1>14, GotoType DEF Reset, NoListSteps, Steps
  <1>15. CASE SelectExpired(t)
    <2> DEFINE d == [c EXCEPT !.todo = {l \in Lists : lists[l].exists /\ Expired(lists[l], c.now)},
                              !.step = "sweep"]
    <2>1. d \in Calls /\ d.step = "sweep" /\ d.list = c.list
          /\ d.op = c.op /\ d.record = c.record
      BY <1>c DEF Calls, Steps
    <2>2. Put(t, d)
      BY <1>15 DEF SelectExpired
    <2>3. d.op = "start" \/ d.step \notin NoListSteps => d.list \in Lists
      BY <2>1 DEF NoListSteps, TypeInv, ListKnown
    <2> HIDE DEF d
    <2> QED BY <2>1, <2>2, <2>3, <1>r, PutType
  <1>16. CASE Sweep(t)
    <2>1. ASSUME NEW l \in c.todo,
                 Put(t, [c EXCEPT !.list = l, !.todo = @ \ {l}, !.step = "release"])
          PROVE  CallsInv'
      <3> DEFINE d == [c EXCEPT !.list = l, !.todo = @ \ {l}, !.step = "release"]
      <3>1. l \in Lists
        BY <1>c DEF Calls
      <3>2. d \in Calls /\ d.step = "release" /\ d.list = l
            /\ d.op = c.op /\ d.record = c.record
        BY <1>c, <3>1 DEF Calls, Steps
      <3>3. Put(t, d)
        BY <2>1
      <3> HIDE DEF d
      <3> QED BY <3>1, <3>2, <3>3, <1>r, PutType
    <2> QED BY <1>16, <2>1, FinishType DEF Sweep
  <1> QED
    BY <1>1, <1>2, <1>3, <1>4, <1>5, <1>6, <1>7, <1>8, <1>9, <1>10, <1>11, <1>12,
       <1>13, <1>14, <1>15, <1>16 DEF Statement

\* Every statement keeps the shapes of the tables.
LEMMA TablesStatement ==
  ASSUME TypeInv, NEW t \in Threads, Statement(t)
  PROVE  /\ lists' \in [Lists -> Rows]
         /\ staged' \subseteq Lists \X Records
         /\ owner' \in Threads \cup {NoOne}
         /\ saved' \in Tables
  <1> DEFINE c == calls[t]
  <1>c. c \in Calls
    BY DEF TypeInv, TypeOK
  <1>l. c.step \notin NoListSteps => c.list \in Lists
    BY DEF TypeInv, ListKnown, NoListSteps
  <1>t. /\ lists \in [Lists -> Rows]
        /\ staged \subseteq Lists \X Records
        /\ owner \in Threads \cup {NoOne}
        /\ saved \in Tables
    BY DEF TypeInv, TypeOK
  <1>1. CASE Begin(t)
    <2>1. [lists |-> lists, staged |-> staged] \in Tables
      BY <1>t DEF Tables
    <2>2. lists' = lists /\ staged' = staged
      BY <1>1 DEF Begin, tables
    <2>3. owner' \in Threads \cup {NoOne} /\ saved' \in Tables
      BY <1>1, <1>t, <2>1 DEF Begin, transaction
    <2> QED BY <1>t, <2>2, <2>3
  <1>2. CASE Read(t)
    BY <1>2, <1>t DEF Read, transaction, tables
  <1>3. CASE Write(t)
    <2>1. PICK lifetime \in Lifetimes :
             lists' = [lists EXCEPT ![c.list] = Updated(c, @, lifetime)]
      BY <1>3 DEF Write
    <2>2. c.list \in Lists
      BY <1>3, <1>l DEF Write, NoListSteps
    <2>3. Updated(c, lists[c.list], lifetime) \in Rows
      BY <2>2, <1>c, <1>t, UpdatedType
    <2> QED BY <2>1, <2>3, <1>t, <1>3 DEF Write, transaction
  <1>4. CASE Commit(t)
    BY <1>4, <1>t, IdleType DEF Commit, tables
  <1>5. CASE Rollback(t)
    BY <1>5, <1>t, IdleType DEF Rollback, Tables
  <1>6. CASE Collect(t)
    BY <1>6, <1>t DEF Collect, transaction, tables
  <1>7. CASE EraseRecords(t)
    BY <1>7, <1>t DEF EraseRecords, transaction
  <1>8. CASE EraseList(t)
    BY <1>8, <1>t, IdleType DEF EraseList, transaction
  <1>9. CASE Deliver(t)
    BY <1>9, <1>t DEF Deliver, transaction, tables
  <1>10. CASE Insert(t)
    <2>1. PICK lifetime \in Lifetimes :
             lists' = [lists EXCEPT ![c.list] =
                          [NoRow EXCEPT !.exists = TRUE, !.expires = c.now + lifetime]]
      BY <1>10 DEF Insert
    <2>2. [NoRow EXCEPT !.exists = TRUE, !.expires = c.now + lifetime] \in Rows
      <3>1. c.now + lifetime \in Nat
        BY <1>c, LifetimesAssumption DEF Calls
      <3> QED BY <3>1, IdleType, RowType
    <2> QED BY <2>1, <2>2, <1>t, <1>10 DEF Insert, transaction
  <1>11. CASE Mark(t)
    <2>1. c.list \in Lists
      BY <1>11, <1>l DEF Mark, NoListSteps
    <2>2. lists[c.list] \in Rows
      BY <2>1, <1>t
    <2>3. Begun(lists[c.list]) \in Rows
      BY <2>2, BegunType
    <2> QED BY <2>2, <2>3, <1>t, <1>11 DEF Mark, transaction
  <1>12. CASE ListExists(t)
    BY <1>12, <1>t DEF ListExists, transaction, tables
  <1>13. CASE Stage(t)
    <2>1. c.list \in Lists /\ c.record \in Records
      BY <1>13, <1>l DEF Stage, NoListSteps, TypeInv, RecordKnown
    <2> QED BY <2>1, <1>t, <1>13 DEF Stage, transaction
  <1>14. CASE Reset(t)
    <2>1. \A l \in Lists : Cleared(lists[l]) \in Rows
      BY <1>t, ClearedType
    <2> QED BY <2>1, <1>t, <1>14 DEF Reset, transaction
  <1>15. CASE SelectExpired(t)
    BY <1>15, <1>t DEF SelectExpired, transaction, tables
  <1>16. CASE Sweep(t)
    BY <1>16, <1>t DEF Sweep, transaction, tables
  <1> QED
    BY <1>1, <1>2, <1>3, <1>4, <1>5, <1>6, <1>7, <1>8, <1>9, <1>10, <1>11, <1>12,
       <1>13, <1>14, <1>15, <1>16 DEF Statement

LEMMA AppendType ==
  ASSUME NEW q \in Seq(Nat), NEW n \in Nat
  PROVE  Append(q, n) \in Seq(Nat)
  OBVIOUS

\* Every statement keeps the shapes of the rest.
LEMMA RestStatement ==
  ASSUME TypeInv, NEW t \in Threads, Statement(t)
  PROVE  /\ given' \in [Lists -> Seq(Nat)]
         /\ stats' \subseteq Records
         /\ UNCHANGED <<issued, up, clock, crashes>>
  <1>1. CASE Commit(t)
    <2>1. calls[t].number \in Nat /\ calls[t].list \in Lists
      BY <1>1 DEF Commit, TypeInv, TypeOK, ListKnown, NoListSteps, Calls
    <2>2. given \in [Lists -> Seq(Nat)] /\ stats \subseteq Records
      BY DEF TypeInv, TypeOK
    <2>3. Append(given[calls[t].list], calls[t].number) \in Seq(Nat)
      BY <2>1, <2>2, AppendType
    <2>4. given' \in [Lists -> Seq(Nat)]
      BY <1>1, <2>2, <2>3 DEF Commit
    <2> QED BY <1>1, <2>2, <2>4 DEF Commit
  <1>2. CASE Deliver(t)
    BY <1>2 DEF Deliver, TypeInv, TypeOK, Calls
  <1>3. CASE ~Commit(t) /\ ~Deliver(t)
    BY <1>3 DEF Statement, Begin, Read, Write, Rollback, Collect, EraseRecords, EraseList,
               Insert, Mark, ListExists, Stage, Reset, SelectExpired, Sweep, rest,
               TypeInv, TypeOK
  <1> QED BY <1>1, <1>2, <1>3

LEMMA TypeStatement ==
  ASSUME TypeInv, NEW t \in Threads, Statement(t)
  PROVE  TypeInv'
  <1>1. clock \in Nat /\ crashes \in Nat /\ up \in BOOLEAN /\ issued \subseteq Lists
    BY DEF TypeInv, TypeOK
  <1> QED
    BY <1>1, CallsStatement, TablesStatement, RestStatement DEF CallsInv, TypeInv, TypeOK

\* A new call has its shape when its list and its record do.
LEMMA NewCallType ==
  ASSUME TypeInv, NEW t \in Threads, NEW op \in Ops, NEW l \in Lists \cup {NoOne},
         NEW started \in BOOLEAN, NEW r \in Records \cup {NoOne}, NEW now \in Nat,
         Put(t, [Idle EXCEPT !.op = op, !.list = l, !.now = now, !.started = started,
                             !.record = r, !.step = FirstStep(op)]),
         op = "startup" \/ l \in Lists,
         op = "stage" => r \in Records
  PROVE  CallsInv'
  <1> DEFINE d == [Idle EXCEPT !.op = op, !.list = l, !.now = now, !.started = started,
                               !.record = r, !.step = FirstStep(op)]
  <1>1. FirstStep(op) \in Steps
    BY DEF FirstStep, Steps
  <1>2. /\ FirstStep(op) \in {"exists", "stage"} => op = "stage"
        /\ op = "startup" => FirstStep(op) \in NoListSteps
    BY DEF FirstStep, NoListSteps
  <1>3. d \in Calls /\ d.op = op /\ d.list = l /\ d.record = r /\ d.step = FirstStep(op)
    BY <1>1 DEF Idle, Calls
  <1>4. d.op = "start" \/ d.step \notin NoListSteps => d.list \in Lists
    BY <1>2, <1>3
  <1>5. d.op = "stage" => d.record \in Records
    BY <1>3
  <1>6. d.step \in {"exists", "stage"} => d.op = "stage"
    BY <1>2, <1>3
  <1>7. Put(t, d)
    OBVIOUS
  <1> HIDE DEF d
  <1> QED BY <1>3, <1>4, <1>5, <1>6, <1>7, PutType

LEMMA TypeCall ==
  ASSUME TypeInv, NEW t \in Threads, NEW op \in Ops, NEW l \in Lists \cup {NoOne},
         NEW started \in BOOLEAN, NEW r \in Records \cup {NoOne},
         Call(t, op, l, started, r),
         op = "startup" \/ l \in Lists,
         op = "stage" => r \in Records
  PROVE  CallsInv'
  <1>1. clock \in Nat
    BY DEF TypeInv, TypeOK
  <1> QED BY <1>1, NewCallType DEF Call

\* The shapes are kept by every step.
LEMMA TypeNext == TypeInv /\ [Next]_vars => TypeInv'
  <1> SUFFICES ASSUME TypeInv, [Next]_vars PROVE TypeInv'
    OBVIOUS
  <1>t. /\ lists \in [Lists -> Rows]
        /\ staged \subseteq Lists \X Records
        /\ owner \in Threads \cup {NoOne}
        /\ saved \in Tables
        /\ issued \subseteq Lists
        /\ given \in [Lists -> Seq(Nat)]
        /\ stats \subseteq Records
        /\ up \in BOOLEAN
        /\ clock \in Nat
        /\ crashes \in Nat
    BY DEF TypeInv, TypeOK
  <1> USE DEF tables, transaction, rest
  <1>1. ASSUME NEW t \in Threads, StartUp(t) PROVE TypeInv'
    <2>1. CallsInv'
      BY <1>1, TypeCall DEF StartUp, Ops
    <2> QED BY <1>1, <1>t, <2>1 DEF StartUp, CallsInv, TypeInv, TypeOK
  <1>2. ASSUME NEW t \in Threads, Statement(t) PROVE TypeInv'
    BY <1>2, TypeStatement
  <1>3. ASSUME NEW t \in Threads, TakeBack(t) PROVE TypeInv'
    <2> DEFINE d == [Idle EXCEPT !.op = "end", !.list = calls[t].list, !.now = calls[t].now,
                                 !.step = FirstStep("end")]
    <2>1. calls[t].list \in Lists
      BY <1>3 DEF TakeBack, Returned, TypeInv, ListKnown
    <2>2. calls[t].now \in Nat
      BY DEF TypeInv, TypeOK, Calls
    <2>3. FirstStep("end") = "begin"
      BY DEF FirstStep
    <2>4. d \in Calls /\ d.op = "end" /\ d.step = "begin" /\ d.list \in Lists
      BY <2>1, <2>2, <2>3 DEF Idle, Calls, Ops, Steps
    <2>5. Put(t, d)
      BY <1>3 DEF TakeBack
    <2>6. CallsInv'
      <3> HIDE DEF d
      <3> QED BY <2>4, <2>5, PutType
    <2> QED BY <1>3, <1>t, <2>6 DEF TakeBack, CallsInv, TypeInv, TypeOK
  <1>4. ASSUME NEW t \in Threads, NEW l \in Lists, CreateList(t, l) PROVE TypeInv'
    <2>1. CallsInv'
      BY <1>4, TypeCall DEF CreateList, Ops
    <2> QED BY <1>4, <1>t, <2>1 DEF CreateList, CallsInv, TypeInv, TypeOK
  <1>5. ASSUME NEW t \in Threads, NEW op \in Ops \ {"stage"}, NEW l \in Lists,
               NEW started \in BOOLEAN, CallOn(t, op, l, started, NoOne)
        PROVE  TypeInv'
    <2>1. CallsInv'
      BY <1>5, TypeCall DEF CallOn, Ops
    <2> QED BY <1>5, <1>t, <2>1 DEF CallOn, CallsInv, TypeInv, TypeOK
  <1>6. ASSUME NEW t \in Threads, NEW l \in Lists, NEW r \in Records,
               CallOn(t, "stage", l, FALSE, r)
        PROVE  TypeInv'
    <2>1. CallsInv'
      BY <1>6, TypeCall DEF CallOn, Ops
    <2> QED BY <1>6, <1>t, <2>1 DEF CallOn, CallsInv, TypeInv, TypeOK
  <1>7. ASSUME NEW t \in Threads, Return(t), Bypass(t) \/ UNCHANGED stats,
               UNCHANGED <<tables, transaction, issued, given, clock, crashes>>
        PROVE  TypeInv'
    <2>1. CallsInv'
      <3>1. Idle \in Calls /\ Idle.step = "done" /\ Idle.op = "none"
        BY IdleType DEF Idle
      <3>2. Put(t, Idle)
        BY <1>7 DEF Return
      <3> QED BY <3>1, <3>2, PutType DEF NoListSteps
    <2>2. stats' \subseteq Records
      BY <1>7, <1>t DEF Bypass, Returned, TypeInv, RecordKnown
    <2>3. up' \in BOOLEAN
      BY <1>7, <1>t DEF Return
    <2> QED BY <1>7, <1>t, <2>1, <2>2, <2>3 DEF CallsInv, TypeInv, TypeOK
  <1>8. CASE Tick
    BY <1>8 DEF Tick, NoListSteps, TypeInv, TypeOK, ListKnown, RecordKnown
  <1>9. CASE Crash
    <2>1. CallsInv'
      BY <1>9, IdleType DEF Crash, CallsInv, ListKnown, RecordKnown, Idle, NoListSteps
    <2>2. /\ lists' \in [Lists -> Rows]
          /\ staged' \subseteq Lists \X Records
          /\ owner' \in Threads \cup {NoOne}
          /\ saved' \in Tables
      BY <1>9, <1>t, IdleType DEF Crash, Tables
    <2>3. crashes' \in Nat /\ UNCHANGED <<issued, given, stats, clock>>
      BY <1>9, <1>t DEF Crash
    <2>4. up' \in BOOLEAN
      BY <1>9 DEF Crash
    <2> QED BY <1>t, <2>1, <2>2, <2>3, <2>4 DEF CallsInv, TypeInv, TypeOK
  <1>10. CASE UNCHANGED vars
    BY <1>10 DEF vars, TypeInv, TypeOK, ListKnown, RecordKnown
  <1> QED
    BY <1>1, <1>2, <1>3, <1>4, <1>5, <1>6, <1>7, <1>8, <1>9, <1>10 DEF Next, Ops

\* The tables and the calls of the store keep their shapes, whatever the
\* threads do and whenever the server crashes.
THEOREM StoreTypeOK == Spec => []TypeOK
  <1>1. TypeInv => TypeOK
    BY DEF TypeInv
  <1> QED BY <1>1, TypeInit, TypeNext, PTL DEF Spec

-----------------------------------------------------------------------------
(* Numbers                                                                   *)

LEMMA NumbersInit == Init => NumbersInv
  <1> SUFFICES ASSUME Init PROVE NumbersInv
    OBVIOUS
  <1>1. \A t \in Threads :
           calls[t].step = "done" /\ calls[t].op = "none" /\ owner # t
    BY NoOneAssumption DEF Init, Idle
  <1>2. \A l \in Lists :
           ~lists[l].exists /\ ~saved.lists[l].exists /\ given[l] = <<>>
    BY DEF Init, NoTables, NoRow
  <1>3. OwnerInTransaction /\ StartSteps /\ StartHolds
    BY <1>1 DEF OwnerInTransaction, InTransaction, StartSteps, StartHolds
  <1>4. Births
    BY <1>1, <1>2 DEF Births, Unborn
  <1>5. NextAgrees
    BY <1>2 DEF NextAgrees
  <1>6. NumbersInOrder
    BY <1>2 DEF NumbersInOrder
  <1> QED BY <1>3, <1>4, <1>5, <1>6 DEF NumbersInv

\* Only the owner of the transaction is inside one.
LEMMA OthersOutside ==
  ASSUME NumbersInv, NEW t \in Threads, NEW u \in Threads, u # t,
         calls[t].step \in InTransaction \/ owner = NoOne
  PROVE  calls[u].step \notin InTransaction
  BY NoOneAssumption DEF NumbersInv, OwnerInTransaction

\* A step keeps the rows that are still to be inserted unborn, but for the one
\* it inserts.
LEMMA BirthsStep ==
  ASSUME TypeInv, NumbersInv, NEW t \in Threads, NEW d \in Calls, Put(t, d),
         d.step # "insert", UNCHANGED issued,
         \A l \in Lists : (calls[t].step = "insert" /\ l = calls[t].list)
                          \/ (Unborn(l) => Unborn(l)')
  PROVE  Births'
  <1>c. calls' = [calls EXCEPT ![t] = d] /\ calls \in [Threads -> Calls]
    BY DEF Put, TypeInv, TypeOK
  <1>1. \A l \in Lists \ issued : Unborn(l)'
    BY DEF NumbersInv, Births
  <1>2. \A u \in Threads : calls'[u].step = "insert" => u # t /\ calls'[u] = calls[u]
    BY <1>c
  <1>3. ASSUME NEW u \in Threads, calls'[u].step = "insert"
        PROVE  /\ calls'[u].op = "create" /\ calls'[u].list \in issued'
               /\ Unborn(calls[u].list)'
               /\ \A v \in Threads \ {u} :
                     calls'[v].step = "insert" => calls'[v].list # calls'[u].list
    <2>1. calls[u].list \in Lists
      BY <1>2, <1>3 DEF NumbersInv, Births, TypeInv, TypeOK
    <2>2. ~(calls[t].step = "insert" /\ calls[u].list = calls[t].list)
      BY <1>2, <1>3 DEF NumbersInv, Births
    <2> QED BY <1>2, <1>3, <2>1, <2>2 DEF NumbersInv, Births
  <1> QED BY <1>1, <1>2, <1>3 DEF Births, Unborn

\* A step within the transaction of its thread, or outside all of them.
LEMMA OwnerStays ==
  ASSUME TypeInv, NumbersInv, NEW t \in Threads, NEW d \in Calls, Put(t, d),
         d.step \in InTransaction <=> calls[t].step \in InTransaction,
         UNCHANGED owner
  PROVE  OwnerInTransaction'
  <1>c. calls' = [calls EXCEPT ![t] = d] /\ calls \in [Threads -> Calls]
    BY DEF Put, TypeInv, TypeOK
  <1> QED BY <1>c DEF NumbersInv, OwnerInTransaction

\* A step with which a transaction ends.
LEMMA OwnerGoes ==
  ASSUME TypeInv, NumbersInv, NEW t \in Threads, NEW d \in Calls, Put(t, d),
         calls[t].step \in InTransaction, d.step \notin InTransaction,
         owner' = NoOne
  PROVE  OwnerInTransaction'
  <1>c. calls' = [calls EXCEPT ![t] = d] /\ calls \in [Threads -> Calls]
    BY DEF Put, TypeInv, TypeOK
  <1>1. \A u \in Threads \ {t} : calls[u].step \notin InTransaction
    BY OthersOutside
  <1> QED BY <1>c, <1>1, NoOneAssumption DEF OwnerInTransaction

\* StartSession goes through its steps.
LEMMA StartStepsStep ==
  ASSUME TypeInv, NumbersInv, NEW t \in Threads, NEW d \in Calls, Put(t, d),
         d.op = "start" =>
            /\ d.list \in Lists
            /\ d.step \in {"begin", "read", "write", "commit", "rollback", "done"}
  PROVE  StartSteps'
  BY DEF Put, TypeInv, TypeOK, NumbersInv, StartSteps

\* While a thread is in its transaction, no other is between SELECT and COMMIT
\* of StartSession.
LEMMA NoOtherStart ==
  ASSUME NumbersInv, NEW t \in Threads, NEW u \in Threads, u # t,
         calls[t].step \in InTransaction \/ owner = NoOne
  PROVE  calls[u].step \notin {"write", "commit"}
  BY OthersOutside DEF InTransaction

\* Most steps only move a call on, outside the reach of the numbers.
LEMMA QuietStep ==
  ASSUME TypeInv, NumbersInv, NEW t \in Threads, NEW d \in Calls, Put(t, d),
         d.step \in InTransaction <=> calls[t].step \in InTransaction,
         d.step # "insert",
         ~(calls[t].op = "start" /\ calls[t].step = "commit"),
         d.op = "start" => d.step \in {"begin", "done"} /\ d.list \in Lists,
         \A l \in Lists : lists'[l].exists = lists[l].exists /\ lists'[l].next = lists[l].next,
         UNCHANGED <<owner, saved, given, issued>>
  PROVE  NumbersInv'
  <1>c. calls' = [calls EXCEPT ![t] = d] /\ calls \in [Threads -> Calls]
    BY DEF Put, TypeInv, TypeOK
  <1>1. OwnerInTransaction'
    BY <1>c DEF NumbersInv, OwnerInTransaction
  <1>2. StartSteps'
    BY <1>c DEF NumbersInv, StartSteps
  <1>3. StartHolds'
    <2> SUFFICES ASSUME NEW u \in Threads,
                        calls'[u].op = "start", calls'[u].step \in {"write", "commit"}
                 PROVE  /\ lists'[calls'[u].list].exists
                        /\ calls'[u].number = Len(given'[calls'[u].list])
      BY DEF StartHolds
    <2>1. u # t /\ calls'[u] = calls[u]
      BY <1>c
    <2>2. calls[u].list \in Lists
      BY <2>1 DEF NumbersInv, StartSteps
    <2> QED BY <2>1, <2>2 DEF NumbersInv, StartHolds
  <1>4. \A l \in Lists : Unborn(l) => Unborn(l)'
    BY DEF Unborn
  <1>5. Births'
    <2>1. \A l \in Lists \ issued : Unborn(l)'
      BY <1>4 DEF NumbersInv, Births
    <2>2. \A u \in Threads : calls'[u].step = "insert" => u # t /\ calls'[u] = calls[u]
      BY <1>c
    <2>3. ASSUME NEW u \in Threads, calls'[u].step = "insert"
          PROVE  /\ calls'[u].op = "create" /\ calls'[u].list \in issued'
                 /\ Unborn(calls[u].list)'
                 /\ \A v \in Threads \ {u} :
                       calls'[v].step = "insert" => calls'[v].list # calls'[u].list
      <3>1. calls[u].list \in Lists
        BY <2>2, <2>3 DEF NumbersInv, Births, TypeInv, TypeOK
      <3> QED BY <1>4, <2>2, <2>3, <3>1 DEF NumbersInv, Births
    <2> QED BY <2>1, <2>2, <2>3 DEF Births, Unborn
  <1>6. \A l \in Lists : Uncommitted(l)' <=> Uncommitted(l)
    BY <1>c DEF Uncommitted
  <1>7. NextAgrees'
    BY <1>6 DEF NumbersInv, NextAgrees
  <1>8. NumbersInOrder'
    BY DEF NumbersInv, NumbersInOrder
  <1> QED BY <1>1, <1>2, <1>3, <1>5, <1>7, <1>8 DEF NumbersInv

\* What a call is after it has moved on or returned.
LEMMA MovedFields ==
  ASSUME NEW c \in Calls, NEW step \in Steps
  PROVE  LET d == [c EXCEPT !.step = step] IN
         d \in Calls /\ d.step = step /\ d.op = c.op /\ d.list = c.list /\ d.number = c.number
  BY DEF Calls

LEMMA FinishedFields ==
  ASSUME NEW c \in Calls, NEW ok \in BOOLEAN
  PROVE  LET d == [c EXCEPT !.step = "done", !.ok = ok] IN
         d \in Calls /\ d.step = "done" /\ d.op = c.op /\ d.list = c.list
  BY DEF Calls, Steps

\* A transaction begins with rows that are one ahead of no open StartSession.
LEMMA NumbersBegin ==
  ASSUME TypeInv, NumbersInv, NEW t \in Threads, Begin(t)
  PROVE  NumbersInv'
  <1> DEFINE c == calls[t]
             d == [c EXCEPT !.step = IF c.step = "begin" THEN "read" ELSE "collect"]
             f == [c EXCEPT !.step = "done", !.ok = FALSE]
  <1>c. c \in Calls /\ calls \in [Threads -> Calls]
    BY DEF TypeInv, TypeOK
  <1>s. c.step \in {"begin", "release"} /\ c.step \notin InTransaction
    BY DEF Begin, InTransaction
  <1>o. c.op = "start" => c.list \in Lists /\ c.step = "begin"
    BY <1>s DEF NumbersInv, StartSteps
  <1>k. UNCHANGED <<lists, given, issued>>
    BY DEF Begin, tables, rest
  <1>1. CASE owner # NoOne
    <2>1. Put(t, f) /\ UNCHANGED <<owner, saved>>
      BY <1>1 DEF Begin, Finish, transaction
    <2>2. f \in Calls /\ f.step = "done" /\ f.op = c.op /\ f.list = c.list
      BY <1>c, FinishedFields
    <2> HIDE DEF f
    <2> QED BY <1>s, <1>o, <1>k, <2>1, <2>2, QuietStep DEF InTransaction
  <1>2. CASE owner = NoOne
    <2>1. Put(t, d) /\ owner' = t /\ saved' = [lists |-> lists, staged |-> staged]
      BY <1>2 DEF Begin, Goto
    <2>2. d \in Calls /\ d.step \in {"read", "collect"} /\ d.op = c.op /\ d.list = c.list
          /\ (c.step = "begin" => d.step = "read")
      <3> DEFINE step == IF c.step = "begin" THEN "read" ELSE "collect"
      <3>1. step \in Steps /\ step \in {"read", "collect"} /\ (c.step = "begin" => step = "read")
        BY DEF Steps
      <3> HIDE DEF step
      <3>2. LET e == [c EXCEPT !.step = step] IN
            e \in Calls /\ e.step = step /\ e.op = c.op /\ e.list = c.list
        BY <1>c, <3>1, MovedFields
      <3> QED BY <3>1, <3>2 DEF step
    <2> HIDE DEF d
    <2>p. calls' = [calls EXCEPT ![t] = d]
      BY <2>1 DEF Put
    <2>n. \A u \in Threads : calls[u].step \notin InTransaction
      BY <1>2, NoOneAssumption DEF NumbersInv, OwnerInTransaction
    <2>w. \A u \in Threads : calls'[u].step \notin {"write", "commit"}
      BY <1>c, <2>p, <2>n, <2>2 DEF InTransaction
    <2>3. OwnerInTransaction'
      BY <1>c, <2>p, <2>1, <2>2, <2>n DEF OwnerInTransaction, InTransaction
    <2>4. StartSteps'
      BY <1>o, <2>1, <2>2, StartStepsStep
    <2>5. StartHolds'
      BY <2>w DEF StartHolds
    <2>6. Births'
      <3>1. \A l \in Lists : Unborn(l) => Unborn(l)'
        BY <1>k, <2>1 DEF Unborn
      <3> QED BY <1>k, <2>1, <2>2, <3>1, BirthsStep
    <2>7. NextAgrees'
      <3>1. \A l \in Lists : ~Uncommitted(l) /\ ~Uncommitted(l)'
        BY <2>n, <2>w DEF Uncommitted, InTransaction
      <3> QED BY <1>k, <2>1, <3>1 DEF NumbersInv, NextAgrees
    <2>8. NumbersInOrder'
      BY <1>k DEF NumbersInv, NumbersInOrder
    <2> QED BY <2>3, <2>4, <2>5, <2>6, <2>7, <2>8 DEF NumbersInv
  <1> QED BY <1>1, <1>2

\* StartSession reads the number that comes next.
LEMMA NumbersRead ==
  ASSUME TypeInv, NumbersInv, NEW t \in Threads, Read(t)
  PROVE  NumbersInv'
  <1> DEFINE c == calls[t]
             row == lists[c.list]
             d == [c EXCEPT !.number = IF c.op = "start" THEN row.next ELSE 0,
                            !.step = AfterRead(c, row)]
  <1>c. c \in Calls /\ calls \in [Threads -> Calls]
    BY DEF TypeInv, TypeOK
  <1>s. c.step = "read" /\ c.step \in InTransaction
    BY DEF Read, InTransaction
  <1>l. c.list \in Lists
    BY <1>s DEF TypeInv, ListKnown, NoListSteps
  <1>r. row \in Rows
    BY <1>l DEF TypeInv, TypeOK
  <1>k. UNCHANGED <<lists, given, issued, owner, saved>>
    BY DEF Read, tables, transaction, rest
  <1>a. AfterRead(c, row) \in {"rollback", "commit", "commit, release", "write"}
    BY DEF AfterRead
  <1>b. c.op = "start" => AfterRead(c, row) \in {"rollback", "write"}
                          /\ (AfterRead(c, row) = "write" => row.exists)
    <2>1. c.op = "start" => ~Destroys(c, row)
      BY DEF Destroys
    <2>2. c.op = "start" => (Refused(c, row) \/ row.exists)
      BY DEF Refused
    <2>3. CASE c.op = "start" /\ Refused(c, row)
      BY <2>3 DEF AfterRead
    <2>4. CASE c.op = "start" /\ ~Refused(c, row)
      BY <2>1, <2>2, <2>4 DEF AfterRead
    <2> QED BY <2>3, <2>4
  <1>d. d \in Calls /\ d.step = AfterRead(c, row) /\ d.op = c.op /\ d.list = c.list
        /\ (c.op = "start" => d.number = row.next)
    <2> DEFINE n == IF c.op = "start" THEN row.next ELSE 0
               step == AfterRead(c, row)
    <2>1. n \in Nat /\ (c.op = "start" => n = row.next)
      BY <1>r DEF Rows
    <2>2. step \in Steps
      BY <1>a DEF Steps
    <2> HIDE DEF n, step
    <2>3. LET e == [c EXCEPT !.number = n, !.step = step] IN
          e \in Calls /\ e.step = step /\ e.op = c.op /\ e.list = c.list /\ e.number = n
      BY <1>c, <2>1, <2>2 DEF Calls
    <2> QED BY <2>1, <2>3 DEF n, step
  <1>p. Put(t, d)
    BY DEF Read
  <1> HIDE DEF d
  <1>q. calls' = [calls EXCEPT ![t] = d]
    BY <1>p DEF Put
  <1>n. \A u \in Threads \ {t} : calls[u].step \notin {"write", "commit"}
    BY <1>s, NoOtherStart
  <1>u. \A l \in Lists : ~Uncommitted(l) /\ ~Uncommitted(l)'
    BY <1>c, <1>q, <1>n, <1>s, <1>b, <1>d DEF Uncommitted
  <1>3. OwnerInTransaction'
    BY <1>k, <1>p, <1>a, <1>d, <1>s, OwnerStays DEF InTransaction
  <1>4. StartSteps'
    BY <1>b, <1>d, <1>l, <1>p, StartStepsStep
  <1>5. StartHolds'
    <2> SUFFICES ASSUME NEW u \in Threads,
                        calls'[u].op = "start", calls'[u].step \in {"write", "commit"}
                 PROVE  /\ lists[calls'[u].list].exists
                        /\ calls'[u].number = Len(given[calls'[u].list])
      BY <1>k DEF StartHolds
    <2>1. u = t /\ calls'[u] = d
      BY <1>c, <1>q, <1>n
    <2>2. row.exists /\ d.number = row.next
      BY <2>1, <1>b, <1>d
    <2>3. row.next = Len(given[c.list])
      BY <2>2, <1>l, <1>u DEF NumbersInv, NextAgrees
    <2> QED BY <2>1, <2>2, <2>3, <1>d
  <1>6. Births'
    <2>1. \A l \in Lists : Unborn(l) => Unborn(l)'
      BY <1>k DEF Unborn
    <2> QED BY <1>a, <1>d, <1>k, <1>p, <2>1, BirthsStep
  <1>7. NextAgrees'
    BY <1>k, <1>u DEF NumbersInv, NextAgrees
  <1>8. NumbersInOrder'
    BY <1>k DEF NumbersInv, NumbersInOrder
  <1> QED BY <1>3, <1>4, <1>5, <1>6, <1>7, <1>8 DEF NumbersInv

\* What an UPDATE makes of the row: only StartSession moves the number on.
LEMMA UpdatedFields ==
  ASSUME NEW c \in Calls, NEW row \in Rows, NEW lifetime \in Lifetimes
  PROVE  /\ Updated(c, row, lifetime).exists = row.exists
         /\ c.op = "start" => Updated(c, row, lifetime).next = row.next + 1
         /\ c.op # "start" => Updated(c, row, lifetime).next = row.next
  BY DEF Updated, Rows

LEMMA NumbersWrite ==
  ASSUME TypeInv, NumbersInv, NEW t \in Threads, Write(t)
  PROVE  NumbersInv'
  <1> DEFINE c == calls[t]
             row == lists[c.list]
             d == [c EXCEPT !.step = "commit"]
  <1>c. c \in Calls /\ calls \in [Threads -> Calls]
    BY DEF TypeInv, TypeOK
  <1>s. c.step = "write" /\ c.step \in InTransaction
    BY DEF Write, InTransaction
  <1>l. c.list \in Lists
    BY <1>s DEF TypeInv, ListKnown, NoListSteps
  <1>r. row \in Rows /\ lists \in [Lists -> Rows]
    BY <1>l DEF TypeInv, TypeOK
  <1>k. UNCHANGED <<given, issued, owner, saved>>
    BY DEF Write, transaction, rest
  <1>d. d \in Calls /\ d.step = "commit" /\ d.op = c.op /\ d.list = c.list
        /\ d.number = c.number
    BY <1>c, MovedFields DEF Steps
  <1>p. Put(t, d)
    BY DEF Write, Goto
  <1> HIDE DEF d
  <1>q. calls' = [calls EXCEPT ![t] = d]
    BY <1>p DEF Put
  <1>n. \A u \in Threads \ {t} : calls[u].step \notin {"write", "commit"}
    BY <1>s, NoOtherStart
  <1>w. /\ \A l \in Lists : lists'[l].exists = lists[l].exists
        /\ \A l \in Lists \ {c.list} : lists'[l] = lists[l]
        /\ c.op = "start" => lists'[c.list].next = row.next + 1
        /\ c.op # "start" => lists'[c.list].next = row.next
    <2>1. PICK lifetime \in Lifetimes :
             lists' = [lists EXCEPT ![c.list] = Updated(c, @, lifetime)]
      BY DEF Write
    <2>2. lists'[c.list] = Updated(c, row, lifetime)
      BY <1>l, <1>r, <2>1
    <2>3. \A l \in Lists \ {c.list} : lists'[l] = lists[l]
      BY <1>r, <2>1
    <2> QED BY <1>c, <1>r, <2>2, <2>3, UpdatedFields
  <1>u. \A l \in Lists : ~Uncommitted(l) /\ (Uncommitted(l)' <=> c.op = "start" /\ l = c.list)
    BY <1>c, <1>q, <1>n, <1>s, <1>d DEF Uncommitted
  <1>3. OwnerInTransaction'
    BY <1>k, <1>p, <1>d, <1>s, OwnerStays DEF InTransaction
  <1>4. StartSteps'
    BY <1>d, <1>l, <1>p, StartStepsStep
  <1>5. StartHolds'
    <2> SUFFICES ASSUME NEW u \in Threads,
                        calls'[u].op = "start", calls'[u].step \in {"write", "commit"}
                 PROVE  /\ lists'[calls'[u].list].exists
                        /\ calls'[u].number = Len(given[calls'[u].list])
      BY <1>k DEF StartHolds
    <2>1. u = t /\ calls'[u] = d
      BY <1>c, <1>q, <1>n
    <2>2. row.exists /\ c.number = Len(given[c.list])
      BY <2>1, <1>d, <1>s DEF NumbersInv, StartHolds
    <2> QED BY <2>1, <2>2, <1>d, <1>l, <1>w
  <1>6. Births'
    <2>1. \A l \in Lists : Unborn(l) => Unborn(l)'
      BY <1>k, <1>w DEF Unborn
    <2> QED BY <1>d, <1>k, <1>p, <2>1, BirthsStep
  <1>7. NextAgrees'
    <2>1. \A l \in Lists : lists[l].exists => lists[l].next = Len(given[l])
      BY <1>u DEF NumbersInv, NextAgrees
    <2>2. \A l \in Lists : saved'.lists[l].exists => saved'.lists[l].next = Len(given'[l])
      BY <1>k DEF NumbersInv, NextAgrees
    <2>3. ASSUME NEW l \in Lists, lists'[l].exists
          PROVE  lists'[l].next = IF c.op = "start" /\ l = c.list
                                  THEN Len(given[l]) + 1 ELSE Len(given[l])
      BY <1>w, <2>1, <2>3
    <2> QED BY <1>k, <1>u, <2>2, <2>3 DEF NextAgrees
  <1>8. NumbersInOrder'
    BY <1>k DEF NumbersInv, NumbersInOrder
  <1> QED BY <1>3, <1>4, <1>5, <1>6, <1>7, <1>8 DEF NumbersInv

LEMMA AppendFacts ==
  ASSUME NEW q \in Seq(Nat), NEW n \in Nat
  PROVE  /\ Len(Append(q, n)) = Len(q) + 1
         /\ \A i \in 1..Len(q) : Append(q, n)[i] = q[i]
         /\ Append(q, n)[Len(q) + 1] = n
  OBVIOUS

\* The number that StartSession returns is the one after those handed out.
LEMMA NumbersCommit ==
  ASSUME TypeInv, NumbersInv, NEW t \in Threads, Commit(t)
  PROVE  NumbersInv'
  <1> DEFINE c == calls[t]
  <1>c. c \in Calls /\ calls \in [Threads -> Calls] /\ given \in [Lists -> Seq(Nat)]
    BY DEF TypeInv, TypeOK
  <1>s. c.step \in {"commit", "commit, release", "commit, deliver"} /\ c.step \in InTransaction
        /\ c.step # "insert"
    BY DEF Commit, InTransaction
  <1>l. c.list \in Lists
    BY <1>s DEF TypeInv, ListKnown, NoListSteps
  <1>k. /\ UNCHANGED <<lists, issued>>
        /\ owner' = NoOne
        /\ saved' = NoTables
        /\ given' = IF c.op = "start" THEN [given EXCEPT ![c.list] = Append(@, c.number)]
                                      ELSE given
    BY DEF Commit, tables
  <1>o. c.op = "start" => c.step = "commit"
    BY <1>s DEF NumbersInv, StartSteps
  <1>1. PICK d \in Calls : /\ Put(t, d) /\ d.step \in {"done", "release", "deliver"}
                           /\ d.op = c.op /\ d.list = c.list
                           /\ (c.op = "start" => d.step = "done")
    <2>1. CASE c.step = "commit"
      <3>1. Finish(t, TRUE)
        BY <2>1 DEF Commit
      <3> QED BY <1>c, <3>1, FinishedFields DEF Finish
    <2>2. CASE c.step = "commit, release"
      <3>1. Goto(t, "release") /\ "release" \in Steps
        BY <2>2 DEF Commit, Steps
      <3> QED BY <1>c, <1>o, <2>2, <3>1, MovedFields DEF Goto
    <2>3. CASE c.step = "commit, deliver"
      <3>1. Goto(t, "deliver") /\ "deliver" \in Steps
        BY <2>3 DEF Commit, Steps
      <3> QED BY <1>c, <1>o, <2>3, <3>1, MovedFields DEF Goto
    <2> QED BY <1>s, <2>1, <2>2, <2>3
  <1>q. calls' = [calls EXCEPT ![t] = d]
    BY <1>1 DEF Put
  <1>n. \A u \in Threads \ {t} : calls[u].step \notin {"write", "commit"}
    BY <1>s, NoOtherStart
  <1>w. \A u \in Threads : calls'[u].step \notin {"write", "commit"}
    BY <1>c, <1>q, <1>n, <1>1
  <1>u. \A l \in Lists : ~Uncommitted(l)' /\ (Uncommitted(l) <=> c.op = "start" /\ l = c.list)
    BY <1>c, <1>w, <1>n, <1>s, <1>o DEF Uncommitted
  <1>g. /\ \A l \in Lists : l # c.list \/ c.op # "start" => given'[l] = given[l]
        /\ c.op = "start" => given'[c.list] = Append(given[c.list], c.number)
    BY <1>c, <1>k, <1>l
  <1>h. c.op = "start" => lists[c.list].exists /\ c.number = Len(given[c.list])
    BY <1>o DEF NumbersInv, StartHolds
  <1>f. c.number \in Nat /\ given[c.list] \in Seq(Nat)
    BY <1>c, <1>l DEF Calls
  <1>3. OwnerInTransaction'
    BY <1>k, <1>1, <1>s, OwnerGoes DEF InTransaction
  <1>4. StartSteps'
    BY <1>1, <1>l, StartStepsStep
  <1>5. StartHolds'
    BY <1>w DEF StartHolds
  <1>6. Births'
    <2>1. \A l \in Lists : Unborn(l) => Unborn(l)'
      <3> SUFFICES ASSUME NEW l \in Lists, Unborn(l) PROVE Unborn(l)'
        OBVIOUS
      <3>1. ~(c.op = "start" /\ l = c.list)
        BY <1>h DEF Unborn
      <3>2. ~saved'.lists[l].exists
        BY <1>k DEF NoTables, NoRow
      <3> QED BY <1>g, <1>k, <3>1, <3>2 DEF Unborn
    <2> QED BY <1>1, <1>k, <2>1, BirthsStep
  <1>7. NextAgrees'
    <2>1. \A l \in Lists : ~saved'.lists[l].exists
      BY <1>k DEF NoTables, NoRow
    <2>2. ASSUME NEW l \in Lists, lists[l].exists PROVE lists[l].next = Len(given'[l])
      <3>1. CASE c.op = "start" /\ l = c.list
        <4>1. lists[l].next = Len(given[l]) + 1
          BY <1>u, <2>2, <3>1 DEF NumbersInv, NextAgrees
        <4> QED BY <1>f, <1>g, <3>1, <4>1, AppendFacts
      <3>2. CASE ~(c.op = "start" /\ l = c.list)
        BY <1>g, <1>u, <2>2, <3>2 DEF NumbersInv, NextAgrees
      <3> QED BY <3>1, <3>2
    <2> QED BY <1>k, <1>u, <2>1, <2>2 DEF NextAgrees
  <1>8. NumbersInOrder'
    <2> SUFFICES ASSUME NEW l \in Lists, NEW i \in 1..Len(given'[l])
                 PROVE  given'[l][i] = i - 1
      BY DEF NumbersInOrder
    <2>1. CASE c.op = "start" /\ l = c.list
      <3>1. given'[l] = Append(given[l], Len(given[l])) /\ Len(given[l]) \in Nat
        BY <1>f, <1>g, <1>h, <2>1
      <3>2. i \in 1..Len(given[l]) \/ i = Len(given[l]) + 1
        BY <1>f, <2>1, <3>1, AppendFacts
      <3>3. \A j \in 1..Len(given[l]) : given[l][j] = j - 1
        BY DEF NumbersInv, NumbersInOrder
      <3>4. CASE i \in 1..Len(given[l])
        BY <1>f, <2>1, <3>1, <3>3, <3>4, AppendFacts
      <3>5. CASE i = Len(given[l]) + 1
        BY <1>f, <2>1, <3>1, <3>5, AppendFacts
      <3> QED BY <3>2, <3>4, <3>5
    <2>2. CASE ~(c.op = "start" /\ l = c.list)
      BY <1>g, <2>2 DEF NumbersInv, NumbersInOrder
    <2> QED BY <2>1, <2>2
  <1> QED BY <1>3, <1>4, <1>5, <1>6, <1>7, <1>8 DEF NumbersInv

\* ROLLBACK brings back rows whose numbers agree with those handed out.
LEMMA NumbersRollback ==
  ASSUME TypeInv, NumbersInv, NEW t \in Threads, Rollback(t)
  PROVE  NumbersInv'
  <1> DEFINE c == calls[t]
             d == [c EXCEPT !.step = "done", !.ok = FALSE]
  <1>c. c \in Calls /\ calls \in [Threads -> Calls]
    BY DEF TypeInv, TypeOK
  <1>s. c.step = "rollback" /\ c.step \in InTransaction /\ c.step # "insert"
    BY DEF Rollback, InTransaction
  <1>l. c.list \in Lists
    BY <1>s DEF TypeInv, ListKnown, NoListSteps
  <1>k. /\ UNCHANGED <<given, issued>>
        /\ lists' = saved.lists /\ owner' = NoOne /\ saved' = NoTables
    BY DEF Rollback, rest
  <1>d. d \in Calls /\ d.step = "done" /\ d.op = c.op /\ d.list = c.list
    BY <1>c, FinishedFields
  <1>p. Put(t, d)
    BY DEF Rollback, Finish
  <1> HIDE DEF d
  <1>q. calls' = [calls EXCEPT ![t] = d]
    BY <1>p DEF Put
  <1>n. \A u \in Threads \ {t} : calls[u].step \notin {"write", "commit"}
    BY <1>s, NoOtherStart
  <1>w. \A u \in Threads : calls'[u].step \notin {"write", "commit"}
    BY <1>c, <1>q, <1>n, <1>d
  <1>e. \A l \in Lists : ~saved'.lists[l].exists
    BY <1>k DEF NoTables, NoRow
  <1>3. OwnerInTransaction'
    BY <1>k, <1>p, <1>d, <1>s, OwnerGoes DEF InTransaction
  <1>4. StartSteps'
    BY <1>d, <1>l, <1>p, StartStepsStep
  <1>5. StartHolds'
    BY <1>w DEF StartHolds
  <1>6. Births'
    <2>1. \A l \in Lists : Unborn(l) => Unborn(l)'
      BY <1>k, <1>e DEF Unborn
    <2> QED BY <1>d, <1>k, <1>p, <2>1, BirthsStep
  <1>7. NextAgrees'
    <2>1. \A l \in Lists : ~Uncommitted(l)'
      BY <1>w DEF Uncommitted
    <2> QED BY <1>k, <1>e, <2>1 DEF NumbersInv, NextAgrees
  <1>8. NumbersInOrder'
    BY <1>k DEF NumbersInv, NumbersInOrder
  <1> QED BY <1>3, <1>4, <1>5, <1>6, <1>7, <1>8 DEF NumbersInv

LEMMA NumbersEraseList ==
  ASSUME TypeInv, NumbersInv, NEW t \in Threads, EraseList(t)
  PROVE  NumbersInv'
  <1> DEFINE c == calls[t]
             d == [c EXCEPT !.step = "commit, deliver"]
  <1>c. c \in Calls /\ calls \in [Threads -> Calls]
    BY DEF TypeInv, TypeOK
  <1>s. c.step = "erase list" /\ c.step \in InTransaction /\ c.step # "insert"
    BY DEF EraseList, InTransaction
  <1>r. lists \in [Lists -> Rows]
    BY DEF TypeInv, TypeOK
  <1>o. c.op # "start"
    BY <1>s DEF NumbersInv, StartSteps
  <1>k. /\ UNCHANGED <<given, issued, owner, saved>>
        /\ \A l \in Lists : lists'[l].exists => lists'[l] = lists[l]
    BY <1>r DEF EraseList, transaction, rest, NoRow
  <1>d. d \in Calls /\ d.step = "commit, deliver" /\ d.op = c.op /\ d.list = c.list
    BY <1>c, MovedFields DEF Steps
  <1>p. Put(t, d)
    BY DEF EraseList, Goto
  <1> HIDE DEF d
  <1>q. calls' = [calls EXCEPT ![t] = d]
    BY <1>p DEF Put
  <1>n. \A u \in Threads \ {t} : calls[u].step \notin {"write", "commit"}
    BY <1>s, NoOtherStart
  <1>w. \A u \in Threads : /\ calls[u].step \notin {"write", "commit"}
                           /\ calls'[u].step \notin {"write", "commit"}
    BY <1>c, <1>q, <1>n, <1>d, <1>s
  <1>3. OwnerInTransaction'
    BY <1>k, <1>p, <1>d, <1>s, OwnerStays DEF InTransaction
  <1>4. StartSteps'
    BY <1>d, <1>o, <1>p, StartStepsStep
  <1>5. StartHolds'
    BY <1>w DEF StartHolds
  <1>6. Births'
    <2>1. \A l \in Lists : Unborn(l) => Unborn(l)'
      BY <1>k DEF Unborn
    <2> QED BY <1>d, <1>k, <1>p, <2>1, BirthsStep
  <1>7. NextAgrees'
    <2>1. \A l \in Lists : ~Uncommitted(l) /\ ~Uncommitted(l)'
      BY <1>w DEF Uncommitted
    <2> QED BY <1>k, <2>1 DEF NumbersInv, NextAgrees
  <1>8. NumbersInOrder'
    BY <1>k DEF NumbersInv, NumbersInOrder
  <1> QED BY <1>3, <1>4, <1>5, <1>6, <1>7, <1>8 DEF NumbersInv

\* A new row starts at number 0, which has not been handed out.
LEMMA NumbersInsert ==
  ASSUME TypeInv, NumbersInv, NEW t \in Threads, Insert(t)
  PROVE  NumbersInv'
  <1> DEFINE c == calls[t]
             d == [c EXCEPT !.step = "done", !.ok = TRUE]
  <1>c. c \in Calls /\ calls \in [Threads -> Calls]
    BY DEF TypeInv, TypeOK
  <1>s. c.step = "insert" /\ c.step \notin InTransaction
    BY DEF Insert, InTransaction
  <1>l. c.list \in Lists
    BY <1>s DEF TypeInv, ListKnown, NoListSteps
  <1>b. c.op = "create" /\ Unborn(c.list)
    BY <1>s DEF NumbersInv, Births
  <1>r. lists \in [Lists -> Rows]
    BY DEF TypeInv, TypeOK
  <1>k. UNCHANGED <<given, issued, owner, saved>>
    BY DEF Insert, transaction, rest
  <1>i. /\ \A l \in Lists \ {c.list} : lists'[l] = lists[l]
        /\ lists'[c.list].exists /\ lists'[c.list].next = 0
    BY <1>l, <1>r DEF Insert, NoRow
  <1>d. d \in Calls /\ d.step = "done" /\ d.op = c.op /\ d.list = c.list
    BY <1>c, FinishedFields
  <1>p. Put(t, d)
    BY DEF Insert, Finish
  <1> HIDE DEF d
  <1>q. calls' = [calls EXCEPT ![t] = d]
    BY <1>p DEF Put
  <1>3. OwnerInTransaction'
    BY <1>k, <1>p, <1>d, <1>s, OwnerStays DEF InTransaction
  <1>4. StartSteps'
    BY <1>b, <1>d, <1>p, StartStepsStep
  <1>5. StartHolds'
    <2> SUFFICES ASSUME NEW u \in Threads,
                        calls'[u].op = "start", calls'[u].step \in {"write", "commit"}
                 PROVE  /\ lists'[calls'[u].list].exists
                        /\ calls'[u].number = Len(given[calls'[u].list])
      BY <1>k DEF StartHolds
    <2>1. calls'[u] = calls[u]
      BY <1>c, <1>q, <1>d
    <2>2. lists[calls[u].list].exists /\ calls[u].number = Len(given[calls[u].list])
          /\ calls[u].list \in Lists
      BY <2>1 DEF NumbersInv, StartSteps, StartHolds
    <2>3. calls[u].list # c.list
      BY <1>b, <2>2 DEF Unborn
    <2> QED BY <1>i, <2>1, <2>2, <2>3
  <1>6. Births'
    <2>1. \A l \in Lists \ {c.list} : Unborn(l) => Unborn(l)'
      BY <1>k, <1>i DEF Unborn
    <2> QED BY <1>d, <1>k, <1>p, <1>s, <2>1, BirthsStep
  <1>7. NextAgrees'
    <2>1. \A l \in Lists : Uncommitted(l)' <=> Uncommitted(l)
      BY <1>c, <1>q, <1>d, <1>s DEF Uncommitted
    <2>2. ~Uncommitted(c.list) /\ Len(given[c.list]) = 0 /\ ~saved.lists[c.list].exists
      <3>1. ~lists[c.list].exists /\ given[c.list] = <<>> /\ ~saved.lists[c.list].exists
        BY <1>b DEF Unborn
      <3>2. ~Uncommitted(c.list)
        BY <3>1 DEF Uncommitted, NumbersInv, StartHolds
      <3> QED BY <3>1, <3>2
    <2>3. ASSUME NEW l \in Lists \ {c.list}
          PROVE  /\ lists'[l].exists /\ ~Uncommitted(l)' => lists'[l].next = Len(given'[l])
                 /\ lists'[l].exists /\ Uncommitted(l)' => lists'[l].next = Len(given'[l]) + 1
                 /\ saved'.lists[l].exists => saved'.lists[l].next = Len(given'[l])
      BY <1>k, <1>i, <2>1 DEF NumbersInv, NextAgrees
    <2>4. ASSUME NEW l \in Lists, l = c.list
          PROVE  /\ lists'[l].exists /\ ~Uncommitted(l)' => lists'[l].next = Len(given'[l])
                 /\ ~Uncommitted(l)' /\ ~saved'.lists[l].exists
      BY <1>k, <1>i, <2>1, <2>2, <2>4
    <2> QED BY <2>3, <2>4 DEF NextAgrees
  <1>8. NumbersInOrder'
    BY <1>k DEF NumbersInv, NumbersInOrder
  <1> QED BY <1>3, <1>4, <1>5, <1>6, <1>7, <1>8 DEF NumbersInv

\* Every statement keeps the numbers.
LEMMA NumbersStatement ==
  ASSUME TypeInv, NumbersInv, NEW t \in Threads, Statement(t)
  PROVE  NumbersInv'
  <1> DEFINE c == calls[t]
             Same == \A l \in Lists : /\ lists'[l].exists = lists[l].exists
                                      /\ lists'[l].next = lists[l].next
  <1>c. c \in Calls /\ lists \in [Lists -> Rows]
    BY DEF TypeInv, TypeOK
  <1>o. c.op = "start" =>
          c.step \in {"begin", "read", "write", "commit", "rollback", "done"}
    BY DEF NumbersInv, StartSteps
  <1>m. ASSUME NEW step \in Steps, Goto(t, step), Same, UNCHANGED <<owner, saved, given, issued>>,
               c.op # "start", step # "insert",
               step \in InTransaction <=> c.step \in InTransaction
        PROVE  NumbersInv'
    <2> DEFINE d == [c EXCEPT !.step = step]
    <2>1. d \in Calls /\ d.step = step /\ d.op = c.op
      BY <1>c, MovedFields
    <2>2. Put(t, d)
      BY <1>m DEF Goto
    <2> HIDE DEF d
    <2> QED BY <1>m, <2>1, <2>2, QuietStep
  <1>f. ASSUME NEW ok \in BOOLEAN, Finish(t, ok), Same, UNCHANGED <<owner, saved, given, issued>>,
               c.op # "start", c.step \notin InTransaction
        PROVE  NumbersInv'
    <2> DEFINE d == [c EXCEPT !.step = "done", !.ok = ok]
    <2>1. d \in Calls /\ d.step = "done" /\ d.op = c.op
      BY <1>c, FinishedFields
    <2>2. Put(t, d)
      BY <1>f DEF Finish
    <2> HIDE DEF d
    <2> QED BY <1>f, <2>1, <2>2, QuietStep DEF InTransaction
  <1> USE DEF tables, transaction, rest
  <1>1. CASE Collect(t)
    <2> DEFINE d == [c EXCEPT !.payloads = {r \in Records : <<c.list, r>> \in staged},
                              !.step = "erase records"]
    <2>1. d \in Calls /\ d.step = "erase records" /\ d.op = c.op
      BY <1>c DEF Calls, Steps
    <2>2. Put(t, d) /\ c.step = "collect" /\ Same /\ UNCHANGED <<owner, saved, given, issued>>
      BY <1>1 DEF Collect
    <2>3. c.op # "start"
      BY <1>o, <2>2
    <2> HIDE DEF d
    <2> QED BY <2>1, <2>2, <2>3, QuietStep DEF InTransaction
  <1>2. CASE EraseRecords(t)
    <2>1. Goto(t, "erase list") /\ c.step = "erase records" /\ Same
          /\ UNCHANGED <<owner, saved, given, issued>>
      BY <1>2 DEF EraseRecords
    <2> QED BY <1>o, <1>m, <2>1 DEF InTransaction, Steps
  <1>3. CASE Deliver(t)
    <2>1. c.step = "deliver" /\ c.op # "start" /\ Same
          /\ UNCHANGED <<owner, saved, given, issued>>
      BY <1>3, <1>o DEF Deliver
    <2>2. ASSUME NEW r \in c.payloads, Put(t, [c EXCEPT !.payloads = @ \ {r}])
          PROVE  NumbersInv'
      <3> DEFINE d == [c EXCEPT !.payloads = @ \ {r}]
      <3>1. d \in Calls /\ d.step = c.step /\ d.op = c.op
        BY <1>c DEF Calls
      <3>2. Put(t, d)
        BY <2>2
      <3> HIDE DEF d
      <3> QED BY <2>1, <3>1, <3>2, QuietStep DEF InTransaction
    <2>3. CASE Goto(t, "sweep")
      BY <1>m, <2>1, <2>3 DEF InTransaction, Steps
    <2>4. CASE Finish(t, TRUE)
      BY <1>f, <2>1, <2>4 DEF InTransaction
    <2> QED BY <1>3, <2>2, <2>3, <2>4 DEF Deliver
  <1>4. CASE Mark(t)
    <2>1. \A row \in Rows : Begun(row).exists = row.exists /\ Begun(row).next = row.next
      BY DEF Begun, Rows
    <2>2. Finish(t, TRUE) /\ c.step = "mark" /\ UNCHANGED <<owner, saved, given, issued>>
      BY <1>4 DEF Mark
    <2>3. Same
      BY <1>c, <1>4, <2>1 DEF Mark
    <2> QED BY <1>o, <1>f, <2>2, <2>3 DEF InTransaction
  <1>5. CASE ListExists(t)
    <2>1. c.step = "exists" /\ c.op # "start" /\ Same
          /\ UNCHANGED <<owner, saved, given, issued>>
      BY <1>5, <1>o DEF ListExists
    <2> QED BY <1>5, <1>m, <1>f, <2>1 DEF ListExists, InTransaction, Steps
  <1>6. CASE Stage(t)
    <2>1. c.step = "stage" /\ Finish(t, TRUE) /\ Same /\ UNCHANGED <<owner, saved, given, issued>>
      BY <1>6 DEF Stage
    <2> QED BY <1>o, <1>f, <2>1 DEF InTransaction
  <1>7. CASE Reset(t)
    <2>1. \A row \in Rows : Cleared(row).exists = row.exists /\ Cleared(row).next = row.next
      BY DEF Cleared, Rows
    <2>2. Goto(t, "select") /\ c.step = "reset" /\ UNCHANGED <<owner, saved, given, issued>>
      BY <1>7 DEF Reset
    <2>3. Same
      BY <1>c, <1>7, <2>1 DEF Reset
    <2> QED BY <1>o, <1>m, <2>2, <2>3 DEF InTransaction, Steps
  <1>8. CASE SelectExpired(t)
    <2> DEFINE d == [c EXCEPT !.todo = {l \in Lists : lists[l].exists /\ Expired(lists[l], c.now)},
                              !.step = "sweep"]
    <2>1. d \in Calls /\ d.step = "sweep" /\ d.op = c.op
      BY <1>c DEF Calls, Steps
    <2>2. Put(t, d) /\ c.step = "select" /\ Same /\ UNCHANGED <<owner, saved, given, issued>>
      BY <1>8 DEF SelectExpired
    <2>3. c.op # "start"
      BY <1>o, <2>2
    <2> HIDE DEF d
    <2> QED BY <2>1, <2>2, <2>3, QuietStep DEF InTransaction
  <1>9. CASE Sweep(t)
    <2>1. c.step = "sweep" /\ c.op # "start" /\ Same
          /\ UNCHANGED <<owner, saved, given, issued>>
      BY <1>9, <1>o DEF Sweep
    <2>2. ASSUME NEW l \in c.todo,
                 Put(t, [c EXCEPT !.list = l, !.todo = @ \ {l}, !.step = "release"])
          PROVE  NumbersInv'
      <3> DEFINE d == [c EXCEPT !.list = l, !.todo = @ \ {l}, !.step = "release"]
      <3>1. d \in Calls /\ d.step = "release" /\ d.op = c.op
        BY <1>c DEF Calls, Steps
      <3>2. Put(t, d)
        BY <2>2
      <3> HIDE DEF d
      <3> QED BY <2>1, <3>1, <3>2, QuietStep DEF InTransaction
    <2> QED BY <1>9, <1>f, <2>1, <2>2 DEF Sweep, InTransaction
  <1> QED
    BY <1>1, <1>2, <1>3, <1>4, <1>5, <1>6, <1>7, <1>8, <1>9, NumbersBegin, NumbersRead,
       NumbersWrite, NumbersCommit, NumbersRollback, NumbersEraseList, NumbersInsert
       DEF Statement

\* A thread without a call begins one, on a list and other than a creation.
LEMMA NumbersNewCall ==
  ASSUME TypeInv, NumbersInv, NEW t \in Threads, NEW op \in Ops \ {"create"},
         NEW l \in Lists \cup {NoOne}, NEW now \in Nat, NEW started \in BOOLEAN,
         NEW r \in Records \cup {NoOne}, op = "start" => l \in Lists,
         calls[t].step \notin InTransaction,
         Put(t, [Idle EXCEPT !.op = op, !.list = l, !.now = now, !.started = started,
                             !.record = r, !.step = FirstStep(op)]),
         UNCHANGED <<lists, owner, saved, given, issued>>
  PROVE  NumbersInv'
  <1> DEFINE d == [Idle EXCEPT !.op = op, !.list = l, !.now = now, !.started = started,
                               !.record = r, !.step = FirstStep(op)]
  <1>1. /\ FirstStep(op) \in Steps \ {"insert"}
        /\ FirstStep(op) \notin InTransaction
        /\ op = "start" => FirstStep(op) = "begin"
    BY DEF FirstStep, Steps, Ops, InTransaction
  <1>2. d \in Calls /\ d.op = op /\ d.list = l /\ d.step = FirstStep(op)
    BY <1>1 DEF Idle, Calls
  <1>3. Put(t, d)
    OBVIOUS
  <1> HIDE DEF d
  <1>4. ~(calls[t].op = "start" /\ calls[t].step = "commit")
    BY DEF InTransaction
  <1> QED BY <1>1, <1>2, <1>3, <1>4, QuietStep

\* A thread without a call is at no step.
IdleDone == \A t \in Threads : Free(t) => calls[t].step = "done"

\* A statement moves one call on, and only a call that is not over.
LEMMA StatementKeepsOp ==
  ASSUME TypeInv, NEW t \in Threads, Statement(t)
  PROVE  /\ calls[t].step # "done"
         /\ \A u \in Threads : calls'[u].op = calls[u].op
         /\ \A u \in Threads \ {t} : calls'[u] = calls[u]
  <1>c. calls \in [Threads -> Calls]
    BY DEF TypeInv, TypeOK
  <1>p. ASSUME NEW d, d.op = calls[t].op, Put(t, d), calls[t].step # "done"
        PROVE  /\ calls[t].step # "done"
               /\ \A u \in Threads : calls'[u].op = calls[u].op
               /\ \A u \in Threads \ {t} : calls'[u] = calls[u]
    BY <1>c, <1>p DEF Put
  <1>e. calls[t] \in Calls
    BY <1>c
  <1>g. ASSUME NEW step \in Steps, Goto(t, step), calls[t].step # "done"
        PROVE  /\ calls[t].step # "done"
               /\ \A u \in Threads : calls'[u].op = calls[u].op
               /\ \A u \in Threads \ {t} : calls'[u] = calls[u]
    BY <1>e, <1>p, <1>g, MovedFields DEF Goto
  <1>f. ASSUME NEW ok \in BOOLEAN, Finish(t, ok), calls[t].step # "done"
        PROVE  /\ calls[t].step # "done"
               /\ \A u \in Threads : calls'[u].op = calls[u].op
               /\ \A u \in Threads \ {t} : calls'[u] = calls[u]
    BY <1>e, <1>p, <1>f, FinishedFields DEF Finish
  <1>1. CASE Begin(t)
    BY <1>1, <1>g, <1>f DEF Begin, Steps
  <1>2. CASE Read(t)
    <2> DEFINE d == [calls[t] EXCEPT
                       !.number = IF calls[t].op = "start" THEN lists[calls[t].list].next ELSE 0,
                       !.step = AfterRead(calls[t], lists[calls[t].list])]
    <2>1. d.op = calls[t].op
      BY <1>e DEF Calls
    <2>2. Put(t, d) /\ calls[t].step # "done"
      BY <1>2 DEF Read
    <2> HIDE DEF d
    <2> QED BY <1>p, <2>1, <2>2
  <1>3. CASE Write(t) \/ Commit(t) \/ Rollback(t)
    BY <1>3, <1>g, <1>f DEF Write, Commit, Rollback, Steps
  <1>4. CASE Collect(t)
    <2> DEFINE d == [calls[t] EXCEPT
                       !.payloads = {r \in Records : <<calls[t].list, r>> \in staged},
                       !.step = "erase records"]
    <2>1. d.op = calls[t].op
      BY <1>e DEF Calls
    <2>2. Put(t, d) /\ calls[t].step # "done"
      BY <1>4 DEF Collect
    <2> HIDE DEF d
    <2> QED BY <1>p, <2>1, <2>2
  <1>5. CASE EraseRecords(t) \/ EraseList(t)
    BY <1>5, <1>g DEF EraseRecords, EraseList, Steps
  <1>6. CASE Deliver(t)
    <2>1. ASSUME NEW r, Put(t, [calls[t] EXCEPT !.payloads = @ \ {r}]), calls[t].step # "done"
          PROVE  /\ calls[t].step # "done"
                 /\ \A u \in Threads : calls'[u].op = calls[u].op
                 /\ \A u \in Threads \ {t} : calls'[u] = calls[u]
      <3> DEFINE d == [calls[t] EXCEPT !.payloads = @ \ {r}]
      <3>1. d.op = calls[t].op
        BY <1>e DEF Calls
      <3>2. Put(t, d)
        BY <2>1
      <3> HIDE DEF d
      <3> QED BY <1>p, <2>1, <3>1, <3>2
    <2> QED BY <1>6, <2>1, <1>g, <1>f DEF Deliver, Steps
  <1>7. CASE Insert(t) \/ Mark(t) \/ ListExists(t) \/ Stage(t) \/ Reset(t)
    BY <1>7, <1>g, <1>f DEF Insert, Mark, ListExists, Stage, Reset, Steps
  <1>8. CASE SelectExpired(t)
    <2> DEFINE d == [calls[t] EXCEPT
                       !.todo = {l \in Lists : lists[l].exists
                                               /\ Expired(lists[l], calls[t].now)},
                       !.step = "sweep"]
    <2>1. d.op = calls[t].op
      BY <1>e DEF Calls
    <2>2. Put(t, d) /\ calls[t].step # "done"
      BY <1>8 DEF SelectExpired
    <2> HIDE DEF d
    <2> QED BY <1>p, <2>1, <2>2
  <1>9. CASE Sweep(t)
    <2>1. ASSUME NEW l, Put(t, [calls[t] EXCEPT !.list = l, !.todo = @ \ {l}, !.step = "release"]),
                 calls[t].step # "done"
          PROVE  /\ calls[t].step # "done"
                 /\ \A u \in Threads : calls'[u].op = calls[u].op
                 /\ \A u \in Threads \ {t} : calls'[u] = calls[u]
      <3> DEFINE d == [calls[t] EXCEPT !.list = l, !.todo = @ \ {l}, !.step = "release"]
      <3>1. d.op = calls[t].op
        BY <1>e DEF Calls
      <3>2. Put(t, d)
        BY <2>1
      <3> HIDE DEF d
      <3> QED BY <1>p, <2>1, <3>1, <3>2
    <2> QED BY <1>9, <2>1, <1>f DEF Sweep
  <1> QED
    BY <1>1, <1>2, <1>3, <1>4, <1>5, <1>6, <1>7, <1>8, <1>9 DEF Statement

LEMMA IdleDoneNext ==
  ASSUME TypeInv, IdleDone, [Next]_vars
  PROVE  IdleDone'
  <1>c. calls \in [Threads -> Calls]
    BY DEF TypeInv, TypeOK
  <1>1. ASSUME NEW t \in Threads, NEW d, Put(t, d), d.op # "none" \/ d.step = "done"
        PROVE  IdleDone'
    BY <1>c, <1>1 DEF Put, IdleDone, Free
  <1>2. ASSUME NEW t \in Threads, Statement(t)
        PROVE  IdleDone'
    BY <1>2, StatementKeepsOp DEF IdleDone, Free
  <1>3. ASSUME NEW t \in Threads, NEW op \in Ops, NEW l, NEW started, NEW r,
               Call(t, op, l, started, r)
        PROVE  IdleDone'
    <2> DEFINE d == [Idle EXCEPT !.op = op, !.list = l, !.now = clock, !.started = started,
                                 !.record = r, !.step = FirstStep(op)]
    <2>1. d.op = op /\ op # "none"
      BY DEF Idle, Ops
    <2>2. Put(t, d)
      BY <1>3 DEF Call
    <2> HIDE DEF d
    <2> QED BY <1>1, <2>1, <2>2
  <1>4. ASSUME NEW t \in Threads, TakeBack(t)
        PROVE  IdleDone'
    <2> DEFINE d == [Idle EXCEPT !.op = "end", !.list = calls[t].list, !.now = calls[t].now,
                                 !.step = FirstStep("end")]
    <2>1. d.op = "end"
      BY DEF Idle
    <2>2. Put(t, d)
      BY <1>4 DEF TakeBack
    <2> HIDE DEF d
    <2> QED BY <1>1, <2>1, <2>2
  <1>5. ASSUME NEW t \in Threads, Return(t)
        PROVE  IdleDone'
    <2>1. Put(t, Idle) /\ Idle.step = "done"
      BY <1>5 DEF Return, Idle
    <2> QED BY <1>1, <2>1
  <1>6. CASE Crash
    BY <1>6 DEF Crash, IdleDone, Free, Idle
  <1>7. CASE Tick \/ UNCHANGED vars
    BY <1>7 DEF Tick, vars, IdleDone, Free
  <1> QED
    BY <1>2, <1>3, <1>4, <1>5, <1>6, <1>7 DEF Next, StartUp, CreateList, CallOn, Ops

\* The tokens of a new list are fresh, so its row is still to be inserted and no
\* other thread inserts it.
LEMMA NumbersCreate ==
  ASSUME TypeInv, IdleDone, NumbersInv, NEW t \in Threads, NEW l \in Lists, CreateList(t, l)
  PROVE  NumbersInv'
  <1> DEFINE d == [Idle EXCEPT !.op = "create", !.list = l, !.now = clock, !.started = FALSE,
                               !.record = NoOne, !.step = FirstStep("create")]
  <1>c. calls \in [Threads -> Calls] /\ clock \in Nat
    BY DEF TypeInv, TypeOK
  <1>d. d \in Calls /\ d.op = "create" /\ d.list = l /\ d.step = "insert"
    <2>1. FirstStep("create") = "insert"
      BY DEF FirstStep
    <2> QED BY <1>c, <2>1 DEF Idle, Calls, Ops, Steps
  <1>p. Put(t, d) /\ calls[t].step = "done"
    BY DEF CreateList, Call, IdleDone
  <1> HIDE DEF d
  <1>q. calls' = [calls EXCEPT ![t] = d]
    BY <1>p DEF Put
  <1>k. UNCHANGED <<lists, owner, saved, given>> /\ l \notin issued /\ issued' = issued \cup {l}
    BY DEF CreateList, tables, transaction
  <1>1. OwnerInTransaction'
    BY <1>k, <1>p, <1>d, OwnerStays DEF InTransaction
  <1>2. StartSteps'
    BY <1>p, <1>d, StartStepsStep
  <1>3. StartHolds'
    BY <1>c, <1>q, <1>k, <1>d DEF NumbersInv, StartHolds
  <1>u. \A m \in Lists : Unborn(m) => Unborn(m)'
    BY <1>k DEF Unborn
  <1>4. Births'
    <2>1. \A m \in Lists \ issued' : Unborn(m)'
      BY <1>k, <1>u DEF NumbersInv, Births
    <2>2. Unborn(l)'
      BY <1>k, <1>u DEF NumbersInv, Births
    <2>3. \A u \in Threads \ {t} : calls'[u] = calls[u]
      BY <1>c, <1>q
    <2>4. calls'[t] = d
      BY <1>c, <1>q
    <2>5. \A u \in Threads \ {t} : calls[u].step = "insert" =>
             calls[u].op = "create" /\ calls[u].list \in issued /\ calls[u].list # l
      BY <1>k DEF NumbersInv, Births
    <2>6. ASSUME NEW u \in Threads, u # t, calls'[u].step = "insert"
          PROVE  /\ calls'[u].op = "create" /\ calls'[u].list \in issued'
                 /\ Unborn(calls[u].list)'
                 /\ \A v \in Threads \ {u} :
                       calls'[v].step = "insert" => calls'[v].list # calls'[u].list
      <3>1. calls[u].step = "insert" /\ calls'[u] = calls[u]
        BY <2>3, <2>6
      <3>2. calls[u].op = "create" /\ calls[u].list \in issued /\ calls[u].list # l
        BY <2>5, <2>6, <3>1
      <3>3. calls[u].list \in Lists
        BY <3>2 DEF TypeInv, TypeOK
      <3>4. Unborn(calls[u].list)
        BY <3>1 DEF NumbersInv, Births
      <3>5. calls'[u].list = calls[u].list /\ Unborn(calls[u].list)'
        BY <1>k, <3>1, <3>4 DEF Unborn
      <3>6. ASSUME NEW v \in Threads \ {u}, calls'[v].step = "insert"
            PROVE  calls'[v].list # calls[u].list
        <4>1. CASE v = t
          BY <1>d, <2>4, <3>2, <4>1
        <4>2. CASE v # t
          BY <2>3, <3>1, <3>6, <4>2 DEF NumbersInv, Births
        <4> QED BY <4>1, <4>2
      <3> QED BY <1>k, <3>1, <3>2, <3>5, <3>6
    <2>7. /\ calls'[t].op = "create" /\ calls'[t].list = l /\ l \in issued'
          /\ \A v \in Threads \ {t} : calls'[v].step = "insert" => calls'[v].list # l
      BY <1>k, <1>d, <2>3, <2>4, <2>5
    <2> QED BY <1>k, <2>1, <2>2, <2>6, <2>7 DEF Births, Unborn
  <1>5. NextAgrees'
    <2>1. \A m \in Lists : Uncommitted(m)' <=> Uncommitted(m)
      BY <1>c, <1>q, <1>p, <1>d DEF Uncommitted
    <2> QED BY <1>k, <2>1 DEF NumbersInv, NextAgrees
  <1>6. NumbersInOrder'
    BY <1>k DEF NumbersInv, NumbersInOrder
  <1> QED BY <1>1, <1>2, <1>3, <1>4, <1>5, <1>6 DEF NumbersInv

\* A crash is a ROLLBACK of whoever has a transaction open.
LEMMA NumbersCrash ==
  ASSUME TypeInv, NumbersInv, Crash
  PROVE  NumbersInv'
  <1>c. \A t \in Threads : calls'[t].op = "none" /\ calls'[t].step = "done"
    BY DEF Crash, Idle
  <1>k. UNCHANGED <<given, issued>> /\ owner' = NoOne
        /\ lists' = IF owner = NoOne THEN lists ELSE saved.lists
    BY DEF Crash
  <1>e. \A l \in Lists : ~saved'.lists[l].exists
    BY DEF Crash, NoTables, NoRow
  <1>1. OwnerInTransaction' /\ StartSteps' /\ StartHolds'
    BY <1>c, <1>k, NoOneAssumption
       DEF OwnerInTransaction, StartSteps, StartHolds, InTransaction
  <1>2. Births'
    <2>1. \A l \in Lists : Unborn(l) => Unborn(l)'
      BY <1>k, <1>e DEF Unborn
    <2> QED BY <1>c, <1>k, <2>1 DEF NumbersInv, Births
  <1>3. NextAgrees'
    <2>1. \A l \in Lists : ~Uncommitted(l)'
      BY <1>c DEF Uncommitted
    <2>2. owner = NoOne => \A l \in Lists : ~Uncommitted(l)
      BY NoOneAssumption DEF NumbersInv, OwnerInTransaction, InTransaction, Uncommitted
    <2> QED BY <1>k, <1>e, <2>1, <2>2 DEF NumbersInv, NextAgrees
  <1>4. NumbersInOrder'
    BY <1>k DEF NumbersInv, NumbersInOrder
  <1> QED BY <1>1, <1>2, <1>3, <1>4 DEF NumbersInv

\* The numbers are kept by every step.
LEMMA NumbersNext ==
  ASSUME TypeInv, IdleDone, NumbersInv, [Next]_vars
  PROVE  NumbersInv'
  <1> USE DEF tables, transaction, rest
  <1>c. clock \in Nat
    BY DEF TypeInv, TypeOK
  <1>1. ASSUME NEW t \in Threads, NEW op \in Ops \ {"create"}, NEW l \in Lists \cup {NoOne},
               NEW started \in BOOLEAN, NEW r \in Records \cup {NoOne},
               op = "start" => l \in Lists,
               Call(t, op, l, started, r), UNCHANGED <<lists, owner, saved, given, issued>>
        PROVE  NumbersInv'
    <2>1. calls[t].step \notin InTransaction
      BY <1>1 DEF Call, IdleDone, InTransaction
    <2> QED BY <1>c, <1>1, <2>1, NumbersNewCall DEF Call
  <1>2. ASSUME NEW t \in Threads, TakeBack(t)
        PROVE  NumbersInv'
    <2> DEFINE d == [Idle EXCEPT !.op = "end", !.list = calls[t].list, !.now = calls[t].now,
                                 !.step = FirstStep("end")]
    <2>1. calls[t].step = "done" /\ calls[t] \in Calls
      BY <1>2 DEF TakeBack, Returned, TypeInv, TypeOK
    <2>2. FirstStep("end") = "begin"
      BY DEF FirstStep
    <2>3. d \in Calls /\ d.op = "end" /\ d.step = "begin"
      BY <2>1, <2>2 DEF Idle, Calls, Ops, Steps
    <2>4. Put(t, d) /\ UNCHANGED <<lists, owner, saved, given, issued>>
      BY <1>2 DEF TakeBack
    <2> HIDE DEF d
    <2> QED BY <2>1, <2>3, <2>4, QuietStep DEF InTransaction
  <1>3. ASSUME NEW t \in Threads, Return(t), UNCHANGED <<lists, owner, saved, given, issued>>
        PROVE  NumbersInv'
    <2>1. Idle \in Calls /\ Idle.op = "none" /\ Idle.step = "done"
      BY IdleType DEF Idle
    <2>2. Put(t, Idle) /\ calls[t].step = "done"
      BY <1>3 DEF Return
    <2> QED BY <1>3, <2>1, <2>2, QuietStep DEF InTransaction
  <1>4. CASE Tick \/ UNCHANGED vars
    <2>1. UNCHANGED <<lists, owner, saved, given, issued, calls>>
      BY <1>4 DEF Tick, vars
    <2> QED BY <2>1 DEF NumbersInv, OwnerInTransaction, StartSteps, StartHolds, Births, Unborn,
                        NextAgrees, Uncommitted, NumbersInOrder
  <1>5. ASSUME NEW t \in Threads, StartUp(t)
        PROVE  NumbersInv'
    BY <1>1, <1>5 DEF StartUp, Ops
  <1>6. ASSUME NEW t \in Threads, NEW l \in Lists,
               NEW op \in {"start", "extend", "force", "mark", "end", "stage"},
               NEW started \in BOOLEAN, NEW r \in Records \cup {NoOne},
               CallOn(t, op, l, started, r)
        PROVE  NumbersInv'
    BY <1>1, <1>6 DEF CallOn, Ops
  <1> QED
    BY <1>2, <1>3, <1>4, <1>5, <1>6, NumbersStatement, NumbersCreate, NumbersCrash DEF Next

\* StartSession hands out 0, 1, 2 and so on for each list and no number twice,
\* for any number of threads, lists, sessions, crashes and restarts.
THEOREM NumbersInOrderHolds == Spec => []NumbersInOrder
  <1> DEFINE Inv == TypeInv /\ IdleDone /\ NumbersInv
  <1>1. Init => Inv
    <2>1. Init => IdleDone
      BY DEF Init, IdleDone, Idle
    <2> QED BY <2>1, TypeInit, NumbersInit
  <1>2. Inv /\ [Next]_vars => Inv'
    BY TypeNext, IdleDoneNext, NumbersNext
  <1>3. Inv => NumbersInOrder
    BY DEF NumbersInv
  <1> HIDE DEF Inv
  <1> QED BY <1>1, <1>2, <1>3, PTL DEF Spec

-----------------------------------------------------------------------------
(* The statements of a call, field by field                                  *)

\* The thread moves on with its call, the others stay where they are.
Moves(t) ==
    /\ \A u \in Threads \ {t} : calls'[u] = calls[u]
    /\ calls'[t].op = calls[t].op /\ calls'[t].now = calls[t].now
    /\ calls'[t].started = calls[t].started /\ calls'[t].record = calls[t].record

GoesTo(t, step) ==
    /\ Moves(t) /\ calls'[t].step = step
    /\ calls'[t].list = calls[t].list /\ calls'[t].payloads = calls[t].payloads
    /\ calls'[t].todo = calls[t].todo /\ calls'[t].ok = calls[t].ok

Ends(t, ok) ==
    /\ Moves(t) /\ calls'[t].step = "done" /\ calls'[t].ok = ok
    /\ calls'[t].list = calls[t].list /\ calls'[t].payloads = calls[t].payloads

SameTables == UNCHANGED <<lists, staged>>
SameTransaction == UNCHANGED <<owner, saved>>
SameServer == UNCHANGED <<issued, stats, up, clock, crashes>>

LEMMA GotoMoves ==
  ASSUME TypeInv, NEW t \in Threads, NEW step \in Steps, Goto(t, step)
  PROVE  GoesTo(t, step)
  <1> DEFINE d == [calls[t] EXCEPT !.step = step]
  <1>1. calls \in [Threads -> Calls] /\ calls' = [calls EXCEPT ![t] = d]
    BY DEF TypeInv, TypeOK, Goto, Put
  <1>2. /\ d.step = step /\ d.op = calls[t].op /\ d.now = calls[t].now /\ d.list = calls[t].list
        /\ d.started = calls[t].started /\ d.record = calls[t].record /\ d.ok = calls[t].ok
        /\ d.payloads = calls[t].payloads /\ d.todo = calls[t].todo
    BY <1>1 DEF Calls
  <1> HIDE DEF d
  <1> QED BY <1>1, <1>2 DEF GoesTo, Moves

LEMMA FinishMoves ==
  ASSUME TypeInv, NEW t \in Threads, NEW ok \in BOOLEAN, Finish(t, ok)
  PROVE  Ends(t, ok)
  <1> DEFINE d == [calls[t] EXCEPT !.step = "done", !.ok = ok]
  <1>1. calls \in [Threads -> Calls] /\ calls' = [calls EXCEPT ![t] = d]
    BY DEF TypeInv, TypeOK, Finish, Put
  <1>2. /\ d.step = "done" /\ d.op = calls[t].op /\ d.now = calls[t].now /\ d.list = calls[t].list
        /\ d.started = calls[t].started /\ d.record = calls[t].record /\ d.ok = ok
        /\ d.payloads = calls[t].payloads
    BY <1>1 DEF Calls
  <1> HIDE DEF d
  <1> QED BY <1>1, <1>2 DEF Ends, Moves

Began(t) ==
    /\ calls[t].step \in {"begin", "release"} /\ owner = NoOne
    /\ owner' = t /\ saved'.lists = lists /\ saved'.staged = staged
    /\ GoesTo(t, IF calls[t].step = "begin" THEN "read" ELSE "collect")
    /\ SameTables /\ SameServer

NotBegun(t) ==
    /\ calls[t].step \in {"begin", "release"} /\ owner # NoOne
    /\ Ends(t, FALSE) /\ SameTables /\ SameTransaction /\ SameServer

DidRead(t) ==
    /\ calls[t].step = "read"
    /\ GoesTo(t, AfterRead(calls[t], lists[calls[t].list]))
    /\ SameTables /\ SameTransaction /\ SameServer

\* The row before and after an UPDATE of the call.
RowChanges(c, row, new) ==
    /\ new.exists = row.exists
    /\ new.live = IF c.op = "start" THEN row.live + 1
                  ELSE IF c.op = "end" THEN row.live - 1 ELSE row.live
    /\ new.started = IF c.op = "end" /\ c.started /\ row.started > 0 THEN row.started - 1
                     ELSE row.started
    /\ c.op \in {"start", "end"} => new.expires = row.expires

LEMMA UpdatedChanges ==
  ASSUME NEW c \in Calls, NEW row \in Rows, NEW lifetime \in Lifetimes
  PROVE  RowChanges(c, row, Updated(c, row, lifetime))
  <1>1. /\ [row EXCEPT !.next = @ + 1, !.live = @ + 1].exists = row.exists
        /\ [row EXCEPT !.next = @ + 1, !.live = @ + 1].live = row.live + 1
        /\ [row EXCEPT !.next = @ + 1, !.live = @ + 1].started = row.started
        /\ [row EXCEPT !.next = @ + 1, !.live = @ + 1].expires = row.expires
    BY DEF Rows
  <1> DEFINE n == IF c.started /\ row.started > 0 THEN row.started - 1 ELSE row.started
             e == [row EXCEPT !.live = row.live - 1, !.started = n]
  <1>2. Updated(c, row, lifetime) = e \/ c.op # "end"
    BY DEF Updated
  <1>3. n = IF c.started /\ row.started > 0 THEN row.started - 1 ELSE row.started
    OBVIOUS
  <1> HIDE DEF n
  <1>4. /\ e.exists = row.exists /\ e.live = row.live - 1 /\ e.started = n
        /\ e.expires = row.expires
    BY DEF Rows
  <1> HIDE DEF e
  <1>5. CASE c.op = "end"
    BY <1>2, <1>3, <1>4, <1>5 DEF RowChanges
  <1>6. CASE c.op = "start"
    BY <1>1, <1>6 DEF RowChanges, Updated
  <1>7. CASE c.op \notin {"start", "end"}
    BY <1>7 DEF RowChanges, Updated, Rows
  <1> QED BY <1>5, <1>6, <1>7

DidWrite(t) ==
    /\ calls[t].step = "write"
    /\ \A l \in Lists \ {calls[t].list} : lists'[l] = lists[l]
    /\ RowChanges(calls[t], lists[calls[t].list], lists'[calls[t].list])
    /\ GoesTo(t, "commit")
    /\ staged' = staged /\ SameTransaction /\ SameServer

Committed(t) ==
    /\ calls[t].step \in {"commit", "commit, release", "commit, deliver"}
    /\ owner' = NoOne /\ saved' = NoTables
    /\ \/ calls[t].step = "commit" /\ Ends(t, TRUE)
       \/ calls[t].step = "commit, release" /\ GoesTo(t, "release")
       \/ calls[t].step = "commit, deliver" /\ GoesTo(t, "deliver")
    /\ SameTables /\ SameServer

RolledBack(t) ==
    /\ calls[t].step = "rollback"
    /\ lists' = saved.lists /\ staged' = saved.staged
    /\ owner' = NoOne /\ saved' = NoTables
    /\ Ends(t, FALSE) /\ SameServer

Collected(t) ==
    /\ calls[t].step = "collect"
    /\ Moves(t) /\ calls'[t].step = "erase records" /\ calls'[t].list = calls[t].list
    /\ calls'[t].payloads = {r \in Records : <<calls[t].list, r>> \in staged}
    /\ SameTables /\ SameTransaction /\ SameServer

ErasedRecords(t) ==
    /\ calls[t].step = "erase records"
    /\ staged' = {p \in staged : p[1] # calls[t].list}
    /\ GoesTo(t, "erase list")
    /\ lists' = lists /\ SameTransaction /\ SameServer

ErasedList(t) ==
    /\ calls[t].step = "erase list"
    /\ \A l \in Lists \ {calls[t].list} : lists'[l] = lists[l]
    /\ ~lists'[calls[t].list].exists
    /\ GoesTo(t, "commit, deliver")
    /\ staged' = staged /\ SameTransaction /\ SameServer

DeliveredOne(t) ==
    /\ calls[t].step = "deliver" /\ owner = NoOne
    /\ \E r \in calls[t].payloads : /\ stats' = stats \cup {r}
                                    /\ calls'[t].payloads = calls[t].payloads \ {r}
    /\ Moves(t) /\ calls'[t].step = "deliver" /\ calls'[t].list = calls[t].list
    /\ SameTables /\ SameTransaction /\ UNCHANGED <<issued, up, clock, crashes>>

DeliveredAll(t) ==
    /\ calls[t].step = "deliver" /\ calls[t].payloads = {}
    /\ \/ calls[t].op = "startup" /\ GoesTo(t, "sweep")
       \/ calls[t].op # "startup" /\ Ends(t, TRUE)
    /\ SameTables /\ SameTransaction /\ SameServer

Inserted(t) ==
    /\ calls[t].step = "insert"
    /\ \A l \in Lists \ {calls[t].list} : lists'[l] = lists[l]
    /\ LET row == lists'[calls[t].list] IN row.exists /\ row.live = 0 /\ row.started = 0
    /\ Ends(t, TRUE)
    /\ staged' = staged /\ SameTransaction /\ SameServer

Marked(t) ==
    /\ calls[t].step = "mark"
    /\ \A l \in Lists \ {calls[t].list} : lists'[l] = lists[l]
    /\ LET row == lists[calls[t].list]
           new == lists'[calls[t].list]
       IN  /\ new.exists = row.exists /\ new.live = row.live /\ new.expires = row.expires
           /\ row.exists => new.started = row.started + 1
    /\ Ends(t, TRUE)
    /\ staged' = staged /\ SameTransaction /\ SameServer

Looked(t) ==
    /\ calls[t].step = "exists"
    /\ \/ lists[calls[t].list].exists /\ GoesTo(t, "stage")
       \/ ~lists[calls[t].list].exists /\ Ends(t, FALSE)
    /\ SameTables /\ SameTransaction /\ SameServer

Staged(t) ==
    /\ calls[t].step = "stage"
    /\ staged' = staged \cup {<<calls[t].list, calls[t].record>>}
    /\ Ends(t, TRUE)
    /\ lists' = lists /\ SameTransaction /\ SameServer

WasReset(t) ==
    /\ calls[t].step = "reset"
    /\ \A l \in Lists : /\ lists'[l].exists = lists[l].exists
                        /\ lists'[l].expires = lists[l].expires
                        /\ lists'[l].live = 0 /\ lists'[l].started = 0
    /\ GoesTo(t, "select")
    /\ staged' = staged /\ SameTransaction /\ SameServer

\* Startup chooses the lists that have expired, and then one of them.
Chose(t) ==
    /\ \/ calls[t].step = "select" /\ calls'[t].step = "sweep" /\ calls'[t].list = calls[t].list
       \/ /\ calls[t].step = "sweep" /\ calls'[t].step = "release"
          /\ calls'[t].list \in calls[t].todo
    /\ Moves(t) /\ calls'[t].payloads = calls[t].payloads
    /\ SameTables /\ SameTransaction /\ SameServer

Swept(t) ==
    /\ calls[t].step = "sweep"
    /\ Ends(t, TRUE) /\ SameTables /\ SameTransaction /\ SameServer

Effect(t) ==
    \/ Began(t) \/ NotBegun(t) \/ DidRead(t) \/ DidWrite(t) \/ Committed(t) \/ RolledBack(t)
    \/ Collected(t) \/ ErasedRecords(t) \/ ErasedList(t) \/ DeliveredOne(t) \/ DeliveredAll(t)
    \/ Inserted(t) \/ Marked(t) \/ Looked(t) \/ Staged(t)
    \/ WasReset(t) \/ Chose(t) \/ Swept(t)

\* Every statement has one of these effects.
LEMMA StatementEffect == ASSUME TypeInv, NEW t \in Threads, Statement(t) PROVE Effect(t)
  <1> USE DEF SameTables, SameTransaction, SameServer, tables, transaction, rest
  <1>c. /\ calls \in [Threads -> Calls] /\ lists \in [Lists -> Rows] /\ calls[t] \in Calls
        /\ calls[t].step \notin NoListSteps => calls[t].list \in Lists
    BY DEF TypeInv, TypeOK, ListKnown
  <1>a. AfterRead(calls[t], lists[calls[t].list]) \in Steps
    BY DEF AfterRead, Steps
  <1>1. ASSUME Begin(t) PROVE Began(t) \/ NotBegun(t)
    <2>1. (IF calls[t].step = "begin" THEN "read" ELSE "collect") \in Steps
      BY DEF Steps
    <2> DEFINE step == IF calls[t].step = "begin" THEN "read" ELSE "collect"
    <2> HIDE DEF step
    <2>2. CASE owner = NoOne
      <3>1. Goto(t, step) /\ step \in Steps
        BY <1>1, <2>1, <2>2 DEF Begin, step
      <3>2. GoesTo(t, step)
        BY <3>1, GotoMoves
      <3>3. owner' = t /\ saved' = [lists |-> lists, staged |-> staged]
        BY <1>1, <2>2 DEF Begin
      <3>4. Began(t)
        BY <1>1, <2>2, <3>2, <3>3 DEF Begin, Began, step
      <3> QED BY <3>4
    <2>3. CASE owner # NoOne
      BY <1>1, <2>3, FinishMoves DEF Begin, NotBegun
    <2> QED BY <2>2, <2>3
  <1>2. ASSUME Read(t) PROVE DidRead(t)
    <2> DEFINE n == IF calls[t].op = "start" THEN lists[calls[t].list].next ELSE 0
               step == AfterRead(calls[t], lists[calls[t].list])
               d == [calls[t] EXCEPT !.number = n, !.step = step]
    <2>1. calls' = [calls EXCEPT ![t] = d] /\ calls[t].step = "read"
      BY <1>2 DEF Read, Put
    <2> HIDE DEF n, step
    <2>2. /\ d.step = step /\ d.op = calls[t].op /\ d.now = calls[t].now
          /\ d.list = calls[t].list /\ d.started = calls[t].started
          /\ d.record = calls[t].record /\ d.ok = calls[t].ok
          /\ d.payloads = calls[t].payloads /\ d.todo = calls[t].todo
      BY <1>c DEF Calls
    <2> HIDE DEF d
    <2>3. GoesTo(t, step)
      BY <1>c, <2>1, <2>2 DEF GoesTo, Moves
    <2> QED BY <1>2, <2>1, <2>3 DEF step, Read, DidRead
  <1>3. ASSUME Write(t) PROVE DidWrite(t)
    <2>1. PICK lifetime \in Lifetimes :
             lists' = [lists EXCEPT ![calls[t].list] = Updated(calls[t], @, lifetime)]
      BY <1>3 DEF Write
    <2>2. calls[t].list \in Lists /\ lists[calls[t].list] \in Rows
      BY <1>c, <1>3 DEF Write, NoListSteps
    <2>3. lists'[calls[t].list] = Updated(calls[t], lists[calls[t].list], lifetime)
      BY <1>c, <2>1, <2>2
    <2>4. RowChanges(calls[t], lists[calls[t].list], lists'[calls[t].list])
      BY <1>c, <2>2, <2>3, UpdatedChanges
    <2>5. \A l \in Lists \ {calls[t].list} : lists'[l] = lists[l]
      BY <1>c, <2>1
    <2>6. GoesTo(t, "commit")
      BY <1>3, GotoMoves DEF Write, Steps
    <2> QED BY <1>3, <2>4, <2>5, <2>6 DEF Write, DidWrite
  <1>4. ASSUME Commit(t) PROVE Committed(t)
    BY <1>4, GotoMoves, FinishMoves DEF Commit, Committed, Steps
  <1>5. ASSUME Rollback(t) PROVE RolledBack(t)
    BY <1>5, FinishMoves DEF Rollback, RolledBack
  <1>6. ASSUME Collect(t) PROVE Collected(t)
    <2> DEFINE p == {r \in Records : <<calls[t].list, r>> \in staged}
               d == [calls[t] EXCEPT !.payloads = p, !.step = "erase records"]
    <2>1. calls' = [calls EXCEPT ![t] = d]
      BY <1>6 DEF Collect, Put
    <2> HIDE DEF p
    <2>2. /\ d.step = "erase records" /\ d.op = calls[t].op /\ d.now = calls[t].now
          /\ d.list = calls[t].list /\ d.started = calls[t].started
          /\ d.record = calls[t].record /\ d.payloads = p
      BY <1>c DEF Calls
    <2> HIDE DEF d
    <2>3. /\ Moves(t) /\ calls'[t].step = "erase records" /\ calls'[t].list = calls[t].list
          /\ calls'[t].payloads = p
      BY <1>c, <2>1, <2>2 DEF Moves
    <2> QED BY <1>6, <2>3 DEF p, Collect, Collected
  <1>7. ASSUME EraseRecords(t) PROVE ErasedRecords(t)
    BY <1>7, GotoMoves DEF EraseRecords, ErasedRecords, Steps
  <1>8. ASSUME EraseList(t) PROVE ErasedList(t)
    <2>1. GoesTo(t, "commit, deliver") /\ calls[t].list \in Lists
      BY <1>c, <1>8, GotoMoves DEF EraseList, Steps, NoListSteps
    <2> QED BY <1>c, <1>8, <2>1 DEF EraseList, ErasedList, NoRow
  <1>9. ASSUME Deliver(t) PROVE DeliveredOne(t) \/ DeliveredAll(t)
    <2>1. ASSUME NEW r \in calls[t].payloads,
                 Put(t, [calls[t] EXCEPT !.payloads = @ \ {r}])
          PROVE  /\ Moves(t) /\ calls'[t].step = calls[t].step /\ calls'[t].list = calls[t].list
                 /\ calls'[t].payloads = calls[t].payloads \ {r}
      <3> DEFINE d == [calls[t] EXCEPT !.payloads = calls[t].payloads \ {r}]
      <3>1. calls' = [calls EXCEPT ![t] = d]
        BY <2>1 DEF Put
      <3>2. /\ d.step = calls[t].step /\ d.op = calls[t].op /\ d.now = calls[t].now
            /\ d.list = calls[t].list /\ d.started = calls[t].started
            /\ d.record = calls[t].record /\ d.payloads = calls[t].payloads \ {r}
        BY <1>c DEF Calls
      <3> HIDE DEF d
      <3> QED BY <1>c, <3>1, <3>2 DEF Moves
    <2>2. CASE calls[t].payloads = {}
      BY <1>9, <2>2, GotoMoves, FinishMoves DEF Deliver, DeliveredAll, Steps
    <2>3. CASE calls[t].payloads # {}
      BY <1>9, <2>1, <2>3 DEF Deliver, DeliveredOne
    <2> QED BY <2>2, <2>3
  <1>10. ASSUME Insert(t) PROVE Inserted(t)
    <2>1. Ends(t, TRUE) /\ calls[t].list \in Lists
      BY <1>c, <1>10, FinishMoves DEF Insert, NoListSteps
    <2>2. PICK lifetime \in Lifetimes :
             lists' = [lists EXCEPT ![calls[t].list] =
                          [NoRow EXCEPT !.exists = TRUE, !.expires = calls[t].now + lifetime]]
      BY <1>10 DEF Insert
    <2> DEFINE row == [NoRow EXCEPT !.exists = TRUE, !.expires = calls[t].now + lifetime]
    <2>3. row.exists /\ row.live = 0 /\ row.started = 0
      BY DEF NoRow
    <2>4. lists' = [lists EXCEPT ![calls[t].list] = row]
      BY <2>2
    <2> HIDE DEF row
    <2> QED BY <1>c, <1>10, <2>1, <2>3, <2>4 DEF Insert, Inserted
  <1>11. ASSUME Mark(t) PROVE Marked(t)
    <2>1. Ends(t, TRUE) /\ calls[t].list \in Lists
      BY <1>c, <1>11, FinishMoves DEF Mark, NoListSteps
    <2> DEFINE row == lists[calls[t].list]
               new == Begun(row)
    <2>2. row \in Rows
      BY <1>c, <2>1
    <2>3. /\ new.exists = row.exists /\ new.live = row.live /\ new.expires = row.expires
          /\ new.started = row.started + 1
      BY <2>2 DEF Begun, Rows
    <2>4. lists' = [lists EXCEPT ![calls[t].list] = IF row.exists THEN new ELSE row]
      BY <1>11 DEF Mark
    <2> HIDE DEF new
    <2> QED BY <1>c, <1>11, <2>1, <2>3, <2>4 DEF Mark, Marked
  <1>12. ASSUME ListExists(t) PROVE Looked(t)
    BY <1>12, GotoMoves, FinishMoves DEF ListExists, Looked, Steps
  <1>13. ASSUME Stage(t) PROVE Staged(t)
    BY <1>13, FinishMoves DEF Stage, Staged
  <1>14. ASSUME Reset(t) PROVE WasReset(t)
    <2>1. GoesTo(t, "select")
      BY <1>14, GotoMoves DEF Reset, Steps
    <2>2. \A row \in Rows : /\ Cleared(row).exists = row.exists /\ Cleared(row).expires = row.expires
                            /\ Cleared(row).live = 0 /\ Cleared(row).started = 0
      BY DEF Cleared, Rows
    <2>3. \A l \in Lists : lists'[l] = Cleared(lists[l]) /\ lists[l] \in Rows
      BY <1>c, <1>14 DEF Reset
    <2> QED BY <1>14, <2>1, <2>2, <2>3 DEF Reset, WasReset
  <1>15. ASSUME SelectExpired(t) PROVE Chose(t)
    <2> DEFINE p == {l \in Lists : lists[l].exists /\ Expired(lists[l], calls[t].now)}
               d == [calls[t] EXCEPT !.todo = p, !.step = "sweep"]
    <2>1. calls' = [calls EXCEPT ![t] = d]
      BY <1>15 DEF SelectExpired, Put
    <2> HIDE DEF p
    <2>2. /\ d.step = "sweep" /\ d.op = calls[t].op /\ d.now = calls[t].now
          /\ d.list = calls[t].list /\ d.started = calls[t].started
          /\ d.record = calls[t].record /\ d.payloads = calls[t].payloads
      BY <1>c DEF Calls
    <2> HIDE DEF d
    <2>3. /\ Moves(t) /\ calls'[t].step = "sweep" /\ calls'[t].list = calls[t].list
          /\ calls'[t].payloads = calls[t].payloads
      BY <1>c, <2>1, <2>2 DEF Moves
    <2> QED BY <1>15, <2>3 DEF SelectExpired, Chose
  <1>16. ASSUME Sweep(t) PROVE Chose(t) \/ Swept(t)
    <2>1. ASSUME NEW l \in calls[t].todo,
                 Put(t, [calls[t] EXCEPT !.list = l, !.todo = @ \ {l}, !.step = "release"])
          PROVE  /\ Moves(t) /\ calls'[t].step = "release" /\ calls'[t].list = l
                 /\ calls'[t].payloads = calls[t].payloads
      <3> DEFINE left == calls[t].todo \ {l}
                 d == [calls[t] EXCEPT !.list = l, !.todo = left, !.step = "release"]
      <3>1. calls' = [calls EXCEPT ![t] = d]
        BY <2>1 DEF Put
      <3> HIDE DEF left
      <3>2. /\ d.step = "release" /\ d.op = calls[t].op /\ d.now = calls[t].now
            /\ d.list = l /\ d.started = calls[t].started
            /\ d.record = calls[t].record /\ d.payloads = calls[t].payloads
        BY <1>c DEF Calls
      <3> HIDE DEF d
      <3> QED BY <1>c, <3>1, <3>2 DEF Moves
    <2> QED BY <1>16, <2>1, FinishMoves DEF Sweep, Chose, Swept
  <1> QED
    BY <1>1, <1>2, <1>3, <1>4, <1>5, <1>6, <1>7, <1>8, <1>9, <1>10, <1>11, <1>12, <1>13,
       <1>14, <1>15, <1>16 DEF Statement, Effect

\* A thread that is in no call begins or takes up one, or returns from one.
Enters(t) ==
    /\ \A u \in Threads \ {t} : calls'[u] = calls[u]
    /\ calls[t].step = "done"
    /\ calls'[t].step \in {"insert", "mark", "exists", "reset", "begin", "done"}
    /\ calls'[t].payloads = {} /\ ~calls'[t].ok
    /\ calls'[t].step = "insert" => calls'[t].list \notin issued
    /\ \/ calls'[t].op = "none" /\ calls'[t].step = "done"
       \/ calls'[t].op \in Ops /\ calls'[t].step = FirstStep(calls'[t].op)
    /\ issued \subseteq issued' /\ SameTables /\ SameTransaction /\ UNCHANGED crashes
    /\ \/ stats' = stats
       \/ /\ Returned(t, "stage") /\ ~calls[t].ok /\ owner = NoOne
          /\ stats' = stats \cup {calls[t].record}

Crashes ==
    /\ \A t \in Threads : /\ calls'[t].op = "none" /\ calls'[t].step = "done"
                          /\ calls'[t].payloads = {} /\ ~calls'[t].ok
    /\ lists' = IF owner = NoOne THEN lists ELSE saved.lists
    /\ staged' = IF owner = NoOne THEN staged ELSE saved.staged
    /\ owner' = NoOne /\ saved' = NoTables /\ crashes' = crashes + 1
    /\ UNCHANGED <<issued, stats>>

Rests == SameTables /\ SameTransaction /\ UNCHANGED <<calls, issued, stats, crashes>>

\* What a new call is.
Placed(t, op, l, now, started, r) ==
    /\ \A u \in Threads \ {t} : calls'[u] = calls[u]
    /\ calls'[t].op = op /\ calls'[t].list = l /\ calls'[t].now = now
    /\ calls'[t].started = started /\ calls'[t].record = r
    /\ calls'[t].step = FirstStep(op) /\ ~calls'[t].ok /\ calls'[t].payloads = {}

LEMMA CallPlaces ==
  ASSUME TypeInv, NEW t \in Threads, NEW op, NEW l, NEW started, NEW r,
         Call(t, op, l, started, r)
  PROVE  Placed(t, op, l, clock, started, r) /\ Free(t)
  <1> DEFINE step == FirstStep(op)
             d == [Idle EXCEPT !.op = op, !.list = l, !.now = clock, !.started = started,
                               !.record = r, !.step = step]
  <1>1. calls \in [Threads -> Calls] /\ calls' = [calls EXCEPT ![t] = d] /\ Free(t)
    BY DEF TypeInv, TypeOK, Call, Put
  <1> HIDE DEF step
  <1>2. /\ d.op = op /\ d.list = l /\ d.now = clock /\ d.started = started /\ d.record = r
        /\ d.step = step /\ d.ok = FALSE /\ d.payloads = {}
    BY DEF Idle
  <1> HIDE DEF d
  <1>3. calls'[t] = d /\ \A u \in Threads \ {t} : calls'[u] = calls[u]
    BY <1>1
  <1> QED BY <1>1, <1>2, <1>3 DEF Placed, step

LEMMA TakeBackPlaces ==
  ASSUME TypeInv, NEW t \in Threads, TakeBack(t)
  PROVE  Placed(t, "end", calls[t].list, calls[t].now, FALSE, NoOne)
  <1> DEFINE step == FirstStep("end")
             l == calls[t].list
             now == calls[t].now
             d == [Idle EXCEPT !.op = "end", !.list = l, !.now = now, !.step = step]
  <1>1. calls \in [Threads -> Calls] /\ calls' = [calls EXCEPT ![t] = d]
    BY DEF TypeInv, TypeOK, TakeBack, Put
  <1> HIDE DEF step, l, now
  <1>2. /\ d.op = "end" /\ d.list = l /\ d.now = now /\ d.started = FALSE /\ d.record = NoOne
        /\ d.step = step /\ d.ok = FALSE /\ d.payloads = {}
    BY DEF Idle
  <1> HIDE DEF d
  <1>3. calls'[t] = d /\ \A u \in Threads \ {t} : calls'[u] = calls[u]
    BY <1>1
  <1> QED BY <1>1, <1>2, <1>3 DEF Placed, step, l, now

LEMMA ReturnPlaces ==
  ASSUME TypeInv, NEW t \in Threads, Return(t)
  PROVE  /\ \A u \in Threads \ {t} : calls'[u] = calls[u]
         /\ calls'[t].op = "none" /\ calls'[t].step = "done" /\ calls'[t].payloads = {}
         /\ ~calls'[t].ok /\ calls[t].step = "done" /\ calls[t].op # "none"
  <1>1. calls \in [Threads -> Calls] /\ calls' = [calls EXCEPT ![t] = Idle]
    BY DEF TypeInv, TypeOK, Return, Put
  <1>2. Idle.op = "none" /\ Idle.step = "done" /\ Idle.payloads = {} /\ ~Idle.ok
    BY DEF Idle
  <1> QED BY <1>1, <1>2 DEF Return

LEMMA FirstSteps ==
  /\ \A op : FirstStep(op) \in {"insert", "mark", "exists", "reset", "begin"}
  /\ \A op : FirstStep(op) = "insert" <=> op = "create"
  /\ FirstStep("startup") = "reset" /\ FirstStep("stage") = "exists" /\ FirstStep("mark") = "mark"
  /\ FirstStep("start") = "begin" /\ FirstStep("end") = "begin"
  BY DEF FirstStep

\* A step of the store is a statement, the beginning or the end of a call, a
\* crash, or none of these.
LEMMA StepEffect ==
  ASSUME TypeInv, IdleDone, [Next]_vars
  PROVE  \/ \E t \in Threads : Effect(t) \/ Enters(t)
         \/ Crashes
         \/ Rests
  <1> USE DEF SameTables, SameTransaction, tables, transaction, rest
  <1>1. ASSUME NEW t \in Threads, Statement(t) PROVE Effect(t)
    BY <1>1, StatementEffect
  <1>2. ASSUME NEW t \in Threads, NEW op \in Ops, NEW l, NEW started, NEW r,
               Call(t, op, l, started, r), op # "create" \/ l \notin issued,
               issued \subseteq issued', UNCHANGED <<tables, transaction, stats, crashes>>
        PROVE  Enters(t)
    <2>1. Placed(t, op, l, clock, started, r) /\ Free(t)
      BY <1>2, CallPlaces
    <2>2. calls[t].step = "done"
      BY <2>1 DEF IdleDone
    <2> QED BY <1>2, <2>1, <2>2, FirstSteps DEF Placed, Enters
  <1>3. ASSUME NEW t \in Threads, TakeBack(t) PROVE Enters(t)
    <2>1. Placed(t, "end", calls[t].list, calls[t].now, FALSE, NoOne)
      BY <1>3, TakeBackPlaces
    <2> QED BY <1>3, <2>1, FirstSteps DEF TakeBack, Returned, Placed, Enters, Ops
  <1>4. ASSUME NEW t \in Threads, Return(t),
               Bypass(t) \/ ((~Returned(t, "stage") \/ calls[t].ok) /\ UNCHANGED stats),
               UNCHANGED <<tables, transaction, issued, given, clock, crashes>>
        PROVE  Enters(t)
    BY <1>4, ReturnPlaces DEF Bypass, Enters
  <1>5. ASSUME Crash PROVE Crashes
    <2>1. Idle.op = "none" /\ Idle.step = "done" /\ Idle.payloads = {} /\ ~Idle.ok
      BY DEF Idle
    <2> QED BY <1>5, <2>1 DEF Crash, Crashes
  <1>6. ASSUME Tick \/ UNCHANGED vars PROVE Rests
    BY <1>6 DEF Tick, vars, Rests
  <1>7. ASSUME NEW t \in Threads, StartUp(t) PROVE Enters(t)
    BY <1>2, <1>7 DEF StartUp, Ops
  <1>8. ASSUME NEW t \in Threads, NEW l \in Lists, CreateList(t, l) PROVE Enters(t)
    BY <1>2, <1>8 DEF CreateList, Ops
  <1>9. ASSUME NEW t \in Threads, NEW l \in Lists,
               NEW op \in {"start", "extend", "force", "mark", "end", "stage"},
               NEW started, NEW r, CallOn(t, op, l, started, r)
        PROVE  Enters(t)
    BY <1>2, <1>9 DEF CallOn, Ops
  <1>10. CASE Next
    <2>1. CASE \E t \in Threads : StartUp(t) \/ Statement(t) \/ TakeBack(t)
      BY <2>1, <1>1, <1>3, <1>7
    <2>2. CASE \E t \in Threads, l \in Lists :
                  \/ CreateList(t, l)
                  \/ \E op \in {"start", "extend", "force", "mark"} : CallOn(t, op, l, FALSE, NoOne)
                  \/ \E started \in BOOLEAN : CallOn(t, "end", l, started, NoOne)
                  \/ \E r \in Records : CallOn(t, "stage", l, FALSE, r)
      BY <2>2, <1>8, <1>9
    <2>3. CASE \E t \in Threads :
                  /\ Return(t)
                  /\ \/ Bypass(t)
                     \/ (~Returned(t, "stage") \/ calls[t].ok) /\ UNCHANGED stats
                  /\ UNCHANGED <<tables, transaction, issued, given, clock, crashes>>
      BY <2>3, <1>4
    <2> QED BY <1>10, <2>1, <2>2, <2>3, <1>5, <1>6 DEF Next
  <1> QED BY <1>6, <1>10

-----------------------------------------------------------------------------
(* The routes that calls take                                                *)

Releasing == {"release", "collect", "erase records", "erase list", "commit, deliver", "deliver"}

StepsOf(op) ==
    CASE op = "create" -> {"insert", "done"}
      [] op = "mark" -> {"mark", "done"}
      [] op = "stage" -> {"exists", "stage", "done"}
      [] op = "start" -> {"begin", "read", "write", "commit", "rollback", "done"}
      [] op = "extend" -> {"begin", "read", "write", "commit", "rollback", "done"}
      [] op = "end" -> {"begin", "read", "write", "commit", "commit, release", "done"} \cup Releasing
      [] op = "force" -> {"begin", "read", "write", "commit", "rollback", "commit, release", "done"}
                         \cup Releasing
      [] op = "startup" -> {"reset", "select", "sweep", "done"} \cup Releasing
      [] OTHER -> {"done"}

RoutesInv == \A t \in Threads : calls[t].step \in StepsOf(calls[t].op)

LEMMA RoutesInit == Init => RoutesInv
  <1>1. "done" \in StepsOf("none")
    BY DEF StepsOf
  <1>2. Idle.op = "none" /\ Idle.step = "done"
    BY DEF Idle
  <1>3. Init => \A t \in Threads : calls[t] = Idle
    BY DEF Init
  <1> QED BY <1>1, <1>2, <1>3 DEF RoutesInv

LEMMA IdleIsDone == ASSUME TypeInv, RoutesInv PROVE IdleDone
  BY DEF RoutesInv, StepsOf, IdleDone, Free

\* What Read decides.
LEMMA ReadChoices ==
  ASSUME TypeInv, RoutesInv, NEW t \in Threads, calls[t].step = "read"
  PROVE  LET c == calls[t]
             row == lists[c.list]
             next == AfterRead(c, row)
         IN  /\ next \in {"rollback", "commit", "commit, release", "write"}
             /\ c.op \in {"start", "end", "extend", "force"}
             /\ c.op = "end" => next # "rollback"
             /\ c.op \in {"start", "extend"} => next \in {"rollback", "write"}
             /\ c.op = "force" => next # "commit"
             /\ next = "write" => row.exists
  <1>1. calls[t].step \in StepsOf(calls[t].op) /\ calls[t].op \in Ops \cup {"none"}
    BY DEF RoutesInv, TypeInv, TypeOK, Calls
  <1>2. calls[t].op \in {"start", "end", "extend", "force"}
    BY <1>1 DEF StepsOf, Releasing, Ops
  <1> QED BY <1>2 DEF AfterRead, Refused, Destroys

\* The other threads stay where they are.
LEMMA OthersStay ==
  ASSUME NEW t \in Threads, Effect(t) \/ Enters(t)
  PROVE  \A u \in Threads \ {t} : calls'[u] = calls[u]
  <1> USE DEF Moves, GoesTo, Ends
  <1>1. CASE Effect(t)
    <2>1. CASE Began(t) \/ NotBegun(t) \/ DidRead(t) \/ DidWrite(t) \/ Committed(t) \/ RolledBack(t)
      BY <2>1 DEF Began, NotBegun, DidRead, DidWrite, Committed, RolledBack
    <2>2. CASE \/ Collected(t) \/ ErasedRecords(t) \/ ErasedList(t) \/ DeliveredOne(t)
               \/ DeliveredAll(t) \/ Inserted(t) \/ Marked(t)
      BY <2>2 DEF Collected, ErasedRecords, ErasedList, DeliveredOne, DeliveredAll, Inserted, Marked
    <2>3. CASE Looked(t) \/ Staged(t) \/ WasReset(t) \/ Chose(t) \/ Swept(t)
      BY <2>3 DEF Looked, Staged, WasReset, Chose, Swept
    <2> QED BY <1>1, <2>1, <2>2, <2>3 DEF Effect
  <1>2. CASE Enters(t)
    BY <1>2 DEF Enters
  <1> QED BY <1>1, <1>2

LEMMA RoutesStep ==
  ASSUME TypeInv, RoutesInv, [Next]_vars
  PROVE  RoutesInv'
  <1>0. IdleDone
    BY IdleIsDone
  <1>1. ASSUME NEW t \in Threads, Effect(t) PROVE calls'[t].step \in StepsOf(calls'[t].op)
    <2> DEFINE op == calls[t].op
               step == calls[t].step
    <2>1. step \in StepsOf(op) /\ op \in Ops \cup {"none"}
      BY DEF RoutesInv, TypeInv, TypeOK, Calls
    <2> USE DEF Moves, GoesTo, Ends
    <2>2. ASSUME calls'[t].op = op, calls'[t].step = "done" PROVE calls'[t].step \in StepsOf(calls'[t].op)
      BY <2>1, <2>2 DEF StepsOf, Ops
    <2>3. CASE Began(t)
      BY <2>1, <2>3 DEF Began, StepsOf, Releasing, Ops
    <2>4. CASE DidRead(t)
      <3>1. step = "read" /\ calls'[t].op = op
            /\ calls'[t].step = AfterRead(calls[t], lists[calls[t].list])
        BY <2>4 DEF DidRead
      <3> QED BY <3>1, ReadChoices DEF StepsOf, Releasing
    <2>5. CASE DidWrite(t) \/ Committed(t)
      BY <2>1, <2>2, <2>5 DEF DidWrite, Committed, StepsOf, Releasing, Ops
    <2>6. CASE Collected(t) \/ ErasedRecords(t) \/ ErasedList(t) \/ DeliveredOne(t)
      BY <2>1, <2>6 DEF Collected, ErasedRecords, ErasedList, DeliveredOne, StepsOf, Releasing, Ops
    <2>7. CASE DeliveredAll(t)
      BY <2>1, <2>2, <2>7 DEF DeliveredAll, StepsOf, Releasing, Ops
    <2>8. CASE Looked(t) \/ WasReset(t) \/ Chose(t)
      BY <2>1, <2>2, <2>8 DEF Looked, WasReset, Chose, StepsOf, Releasing, Ops
    <2>9. CASE NotBegun(t) \/ RolledBack(t) \/ Inserted(t) \/ Marked(t) \/ Staged(t) \/ Swept(t)
      BY <2>2, <2>9 DEF NotBegun, RolledBack, Inserted, Marked, Staged, Swept
    <2> QED BY <1>1, <2>3, <2>4, <2>5, <2>6, <2>7, <2>8, <2>9 DEF Effect
  <1>2. ASSUME NEW t \in Threads, Enters(t) PROVE calls'[t].step \in StepsOf(calls'[t].op)
    <2>1. \A op \in Ops : FirstStep(op) \in StepsOf(op)
      BY DEF Ops, FirstStep, StepsOf
    <2>2. "done" \in StepsOf("none")
      BY DEF StepsOf
    <2>3. CASE calls'[t].op = "none"
      BY <1>2, <2>2, <2>3 DEF Enters, Ops
    <2>4. CASE calls'[t].op \in Ops /\ calls'[t].step = FirstStep(calls'[t].op)
      BY <2>1, <2>4
    <2> QED BY <1>2, <2>3, <2>4 DEF Enters
  <1>3. CASE \E t \in Threads : Effect(t) \/ Enters(t)
    BY <1>1, <1>2, <1>3, OthersStay DEF RoutesInv
  <1>4. CASE Crashes
    BY <1>4 DEF Crashes, RoutesInv, StepsOf
  <1>5. CASE Rests
    BY <1>5 DEF Rests, RoutesInv
  <1> QED BY <1>0, <1>3, <1>4, <1>5, StepEffect

-----------------------------------------------------------------------------
(* Lists that are gone, and records on their way out of the tables           *)


\* The row of the list has been inserted; nobody will insert it again.
Settled(l) ==
    l \in issued /\ \A t \in Threads : calls[t].step = "insert" => calls[t].list # l

\* The list is gone for good: no rollback brings it back.
Buried(l) == ~lists[l].exists /\ ~saved.lists[l].exists

\* Rows to roll back to differ from those there are only where the owner of
\* the transaction has just erased a list.
SavedInv ==
    /\ owner = NoOne => saved = NoTables
    /\ \A l \in Lists : saved.lists[l].exists /\ ~lists[l].exists =>
         \E t \in Threads : owner = t /\ calls[t].step = "commit, deliver" /\ calls[t].list = l

\* Payloads are held from their SELECT until the last of them is delivered, and
\* after the COMMIT the list they belong to is gone.
PayloadsInv ==
    \A t \in Threads :
      LET c == calls[t] IN
      c.payloads # {} =>
        /\ c.step \in {"erase records", "erase list", "commit, deliver", "deliver"}
        /\ c.step = "commit, deliver" => ~lists[c.list].exists
        /\ c.step = "deliver" => Buried(c.list)

LEMMA SettledKept ==
  ASSUME TypeInv, IdleDone, [Next]_vars, NEW l \in Lists, Settled(l)
  PROVE  Settled(l)'
  <1>1. ASSUME NEW t \in Threads, Effect(t)
        PROVE  /\ \A u \in Threads \ {t} : calls'[u] = calls[u]
               /\ calls'[t].step # "insert" /\ issued' = issued
    <2> USE DEF Moves, GoesTo, Ends, SameServer
    <2>1. AfterRead(calls[t], lists[calls[t].list]) # "insert"
      BY DEF AfterRead
    <2>2. CASE Began(t) \/ NotBegun(t) \/ DidRead(t) \/ DidWrite(t) \/ Committed(t) \/ RolledBack(t)
      BY <2>1, <2>2 DEF Began, NotBegun, DidRead, DidWrite, Committed, RolledBack
    <2>3. CASE \/ Collected(t) \/ ErasedRecords(t) \/ ErasedList(t) \/ DeliveredOne(t)
               \/ DeliveredAll(t) \/ Inserted(t) \/ Marked(t)
      BY <2>3 DEF Collected, ErasedRecords, ErasedList, DeliveredOne, DeliveredAll, Inserted, Marked
    <2>4. CASE Looked(t) \/ Staged(t) \/ WasReset(t) \/ Chose(t) \/ Swept(t)
      BY <2>4 DEF Looked, Staged, WasReset, Chose, Swept
    <2> QED BY <1>1, <2>2, <2>3, <2>4 DEF Effect
  <1>2. ASSUME NEW t \in Threads, Effect(t) PROVE Settled(l)'
    BY <1>1, <1>2 DEF Settled
  <1>3. ASSUME NEW t \in Threads, Enters(t) PROVE Settled(l)'
    BY <1>3 DEF Settled, Enters
  <1>4. CASE Crashes
    BY <1>4 DEF Settled, Crashes
  <1>5. CASE Rests
    BY <1>5 DEF Settled, Rests
  <1> QED BY <1>2, <1>3, <1>4, <1>5, StepEffect

\* A statement makes a list exist only when it inserts its row or rolls back.
LEMMA RowsAppear ==
  ASSUME TypeInv, NEW t \in Threads, Effect(t), NEW l \in Lists, ~lists[l].exists, Settled(l)
  PROVE  ~lists'[l].exists \/ (RolledBack(t) /\ saved.lists[l].exists)
  <1> USE DEF SameTables
  <1>1. CASE \/ Began(t) \/ NotBegun(t) \/ DidRead(t) \/ Committed(t) \/ Collected(t)
             \/ ErasedRecords(t) \/ DeliveredOne(t) \/ DeliveredAll(t) \/ Looked(t) \/ Staged(t)
             \/ Chose(t) \/ Swept(t)
    BY <1>1 DEF Began, NotBegun, DidRead, Committed, Collected, ErasedRecords, DeliveredOne,
                DeliveredAll, Looked, Staged, Chose, Swept
  <1>2. CASE DidWrite(t) \/ ErasedList(t) \/ Marked(t) \/ WasReset(t)
    BY <1>2 DEF DidWrite, RowChanges, ErasedList, Marked, WasReset
  <1>3. CASE Inserted(t)
    BY <1>3 DEF Inserted, Settled
  <1>4. CASE RolledBack(t)
    BY <1>4 DEF RolledBack
  <1> QED BY <1>1, <1>2, <1>3, <1>4 DEF Effect

\* The transaction changes when it begins and when it ends.
LEMMA TransactionChanges ==
  ASSUME TypeInv, NEW t \in Threads, Effect(t)
  PROVE  \/ SameTransaction
         \/ Began(t)
         \/ (Committed(t) \/ RolledBack(t)) /\ owner' = NoOne /\ saved' = NoTables
  BY DEF Effect, NotBegun, DidRead, DidWrite, Committed, RolledBack, Collected, ErasedRecords,
         ErasedList, DeliveredOne, DeliveredAll, Inserted, Marked, Looked, Staged, WasReset,
         Chose, Swept

LEMMA NothingSaved == \A l \in Lists : ~NoTables.lists[l].exists
  BY DEF NoTables, NoRow

\* No step brings a list back that is gone for good ...
LEMMA BuriedKept ==
  ASSUME TypeInv, IdleDone, [Next]_vars, NEW l \in Lists, Settled(l), Buried(l)
  PROVE  Buried(l)'
  <1>1. ASSUME NEW t \in Threads, Effect(t) PROVE Buried(l)'
    <2>1. ~lists'[l].exists
      BY <1>1, RowsAppear DEF Buried
    <2>2. CASE SameTransaction
      BY <2>1, <2>2 DEF SameTransaction, Buried
    <2>3. CASE Began(t)
      BY <2>1, <2>3 DEF Began, Buried
    <2>4. CASE saved' = NoTables
      BY <2>1, <2>4, NothingSaved DEF Buried
    <2> QED BY <1>1, <2>2, <2>3, <2>4, TransactionChanges
  <1>2. ASSUME NEW t \in Threads, Enters(t) PROVE Buried(l)'
    BY <1>2 DEF Enters, SameTables, SameTransaction, Buried
  <1>3. CASE Crashes
    BY <1>3, NothingSaved DEF Crashes, Buried
  <1>4. CASE Rests
    BY <1>4 DEF Rests, SameTables, SameTransaction, Buried
  <1> QED BY <1>1, <1>2, <1>3, <1>4, StepEffect

\* ... nor one that is just erased, unless the server crashes.
LEMMA AbsentKept ==
  ASSUME TypeInv, IdleDone, NumbersInv, SavedInv, [Next]_vars, ~Crashes,
         NEW l \in Lists, Settled(l), ~lists[l].exists
  PROVE  ~lists'[l].exists
  <1>1. ASSUME NEW t \in Threads, Effect(t) PROVE ~lists'[l].exists
    <2>1. CASE RolledBack(t) /\ saved.lists[l].exists
      <3>1. PICK u \in Threads : owner = u /\ calls[u].step = "commit, deliver"
        BY <2>1 DEF SavedInv
      <3>2. owner = t /\ calls[t].step = "rollback"
        BY <2>1 DEF RolledBack, NumbersInv, OwnerInTransaction, InTransaction
      <3> QED BY <3>1, <3>2
    <2> QED BY <1>1, <2>1, RowsAppear
  <1>2. ASSUME NEW t \in Threads, Enters(t) PROVE ~lists'[l].exists
    BY <1>2 DEF Enters, SameTables
  <1>3. CASE Rests
    BY <1>3 DEF Rests, SameTables
  <1> QED BY <1>1, <1>2, <1>3, StepEffect

\* Only the DELETE of a row and a rollback make a list go.
LEMMA RowsVanish ==
  ASSUME TypeInv, NEW t \in Threads, Effect(t), NEW l \in Lists,
         lists[l].exists, ~lists'[l].exists
  PROVE  (ErasedList(t) /\ l = calls[t].list) \/ RolledBack(t)
  <1> USE DEF SameTables
  <1>1. CASE \/ Began(t) \/ NotBegun(t) \/ DidRead(t) \/ Committed(t) \/ Collected(t)
             \/ ErasedRecords(t) \/ DeliveredOne(t) \/ DeliveredAll(t) \/ Looked(t) \/ Staged(t)
             \/ Chose(t) \/ Swept(t)
    BY <1>1 DEF Began, NotBegun, DidRead, Committed, Collected, ErasedRecords, DeliveredOne,
                DeliveredAll, Looked, Staged, Chose, Swept
  <1>2. CASE DidWrite(t) \/ Marked(t) \/ WasReset(t) \/ Inserted(t)
    BY <1>2 DEF DidWrite, RowChanges, Marked, WasReset, Inserted
  <1>3. CASE ErasedList(t)
    BY <1>3 DEF ErasedList
  <1> QED BY <1>1, <1>2, <1>3 DEF Effect

LEMMA SavedStep ==
  ASSUME TypeInv, IdleDone, NumbersInv, SavedInv, [Next]_vars
  PROVE  SavedInv'
  <1>1. ASSUME NEW t \in Threads, Effect(t) PROVE SavedInv'
    <2>1. CASE Began(t)
      BY <2>1, NoOneAssumption DEF Began, SameTables, SavedInv
    <2>2. CASE owner' = NoOne /\ saved' = NoTables
      BY <2>2, NothingSaved DEF SavedInv
    <2>3. CASE SameTransaction /\ ~Began(t) /\ ~Committed(t) /\ ~RolledBack(t)
      <3>1. ASSUME NEW l \in Lists, saved'.lists[l].exists, ~lists'[l].exists
            PROVE  \E u \in Threads : /\ owner' = u /\ calls'[u].step = "commit, deliver"
                                      /\ calls'[u].list = l
        <4>1. CASE ~lists[l].exists
          <5>1. PICK u \in Threads : /\ owner = u /\ calls[u].step = "commit, deliver"
                                     /\ calls[u].list = l
            BY <2>3, <3>1, <4>1 DEF SavedInv, SameTransaction
          <5>2. u # t
            BY <1>1, <2>3, <5>1 DEF Effect, NotBegun, DidRead, DidWrite, Collected, ErasedRecords,
               ErasedList, DeliveredOne, DeliveredAll, Inserted, Marked, Looked, Staged, WasReset,
               Chose, Swept
          <5> QED BY <1>1, <2>3, <5>1, <5>2, OthersStay DEF SameTransaction
        <4>2. CASE lists[l].exists
          <5>1. ErasedList(t) /\ l = calls[t].list
            BY <1>1, <2>3, <3>1, <4>2, RowsVanish
          <5>2. owner = t
            BY <5>1 DEF ErasedList, NumbersInv, OwnerInTransaction, InTransaction
          <5> QED BY <5>1, <5>2 DEF ErasedList, GoesTo, SameTransaction
        <4> QED BY <4>1, <4>2
      <3> QED BY <2>3, <3>1 DEF SavedInv, SameTransaction
    <2> QED BY <1>1, <2>1, <2>2, <2>3, TransactionChanges DEF Committed, RolledBack
  <1>2. ASSUME NEW t \in Threads, Enters(t) PROVE SavedInv'
    <2>1. \A u \in Threads : calls[u].step = "commit, deliver" => calls'[u] = calls[u]
      BY <1>2 DEF Enters
    <2>2. UNCHANGED <<lists, owner, saved>>
      BY <1>2 DEF Enters, SameTables, SameTransaction
    <2>3. ASSUME NEW l \in Lists, saved.lists[l].exists, ~lists[l].exists
          PROVE  \E u \in Threads : /\ owner = u /\ calls'[u].step = "commit, deliver"
                                    /\ calls'[u].list = l
      <3>1. PICK u \in Threads : /\ owner = u /\ calls[u].step = "commit, deliver"
                                 /\ calls[u].list = l
        BY <2>3 DEF SavedInv
      <3> QED BY <2>1, <3>1
    <2> QED BY <2>2, <2>3 DEF SavedInv
  <1>3. CASE Crashes
    BY <1>3, NothingSaved DEF Crashes, SavedInv
  <1>4. CASE Rests
    BY <1>4 DEF Rests, SameTables, SameTransaction, SavedInv
  <1> QED BY <1>1, <1>2, <1>3, <1>4, StepEffect

\* The lists of payloads are settled.
PayloadLists == \A t \in Threads : calls[t].payloads # {} => calls[t].list \in Lists /\ Settled(calls[t].list)

LEMMA PayloadsStep ==
  ASSUME TypeInv, IdleDone, NumbersInv, SavedInv, PayloadsInv, PayloadLists, [Next]_vars
  PROVE  PayloadsInv'
  <1> DEFINE Holds(u) ==
        calls'[u].payloads # {} =>
          /\ calls'[u].step \in {"erase records", "erase list", "commit, deliver", "deliver"}
          /\ calls'[u].step = "commit, deliver" => ~lists'[calls'[u].list].exists
          /\ calls'[u].step = "deliver" =>
               ~lists'[calls'[u].list].exists /\ ~saved'.lists[calls'[u].list].exists
  <1>0. ASSUME NEW u \in Threads, calls'[u] = calls[u], ~Crashes PROVE Holds(u)
    <2>1. CASE calls[u].payloads # {}
      <3>1. calls[u].list \in Lists /\ Settled(calls[u].list)
        BY <2>1 DEF PayloadLists
      <3>2. ~lists[calls[u].list].exists => ~lists'[calls[u].list].exists
        BY <1>0, <3>1, AbsentKept
      <3>3. ASSUME Buried(calls[u].list)
            PROVE  ~lists'[calls[u].list].exists /\ ~saved'.lists[calls[u].list].exists
        <4> DEFINE l == calls[u].list
        <4>1. l \in Lists /\ Settled(l) /\ Buried(l)
          BY <3>1, <3>3
        <4>2. \A m \in Lists : Settled(m) /\ Buried(m) => Buried(m)'
          BY BuriedKept
        <4>3. \A m \in Lists : Settled(m) /\ Buried(m) =>
                ~lists'[m].exists /\ ~saved'.lists[m].exists
          BY <4>2 DEF Buried
        <4> QED BY <4>1, <4>3
      <3> QED BY <1>0, <2>1, <3>2, <3>3 DEF PayloadsInv, Buried
    <2> QED BY <1>0, <2>1
  <1>1. ASSUME NEW t \in Threads, Effect(t) PROVE Holds(t)
    <2> USE DEF GoesTo, Ends, PayloadsInv
    <2>1. CASE Began(t) \/ NotBegun(t) \/ RolledBack(t) \/ Inserted(t) \/ Marked(t) \/ Looked(t)
      BY <2>1 DEF Began, NotBegun, RolledBack, Inserted, Marked, Looked
    <2>2. CASE DidRead(t) \/ DidWrite(t) \/ Staged(t) \/ WasReset(t) \/ Chose(t) \/ Swept(t)
               \/ DeliveredAll(t)
      BY <2>2 DEF DidRead, DidWrite, Staged, WasReset, Chose, Swept, DeliveredAll
    <2>3. CASE Collected(t) \/ ErasedRecords(t) \/ ErasedList(t)
      BY <2>3 DEF Collected, ErasedRecords, ErasedList
    <2>4. CASE DeliveredOne(t)
      BY <2>4 DEF DeliveredOne, SameTables, SameTransaction, Buried
    <2>5. CASE Committed(t)
      <3>1. CASE calls'[t].payloads = {}
        BY <3>1
      <3>2. CASE calls[t].payloads # {} /\ calls'[t].payloads = calls[t].payloads
        <4>1. calls[t].list \in Lists /\ calls[t].step = "commit, deliver"
              /\ ~lists[calls[t].list].exists
          BY <2>5, <3>2 DEF Committed, PayloadLists
        <4> QED BY <2>5, <4>1, NothingSaved DEF Committed, SameTables, Buried
      <3> QED BY <2>5, <3>1, <3>2 DEF Committed
    <2> QED BY <1>1, <2>1, <2>2, <2>3, <2>4, <2>5 DEF Effect
  <1>2. ASSUME NEW t \in Threads, Enters(t) PROVE Holds(t)
    BY <1>2 DEF Enters
  <1>3. ASSUME NEW u \in Threads PROVE Holds(u)
    <2>1. CASE Crashes
      BY <2>1 DEF Crashes
    <2>2. ASSUME NEW t \in Threads, Effect(t) \/ Enters(t), ~Crashes PROVE Holds(u)
      <3>1. CASE u = t
        BY <1>1, <1>2, <2>2, <3>1
      <3>2. CASE u # t
        BY <1>0, <2>2, <3>2, OthersStay
      <3> QED BY <3>1, <3>2
    <2>3. CASE Rests /\ ~Crashes
      BY <1>0, <2>3 DEF Rests
    <2> QED BY <2>1, <2>2, <2>3, StepEffect
  <1> QED BY <1>3 DEF PayloadsInv, Buried

\* A list that exists, or existed when the transaction began, is settled.
LEMMA RowsSettled ==
  ASSUME TypeInv, NumbersInv, NEW l \in Lists, lists[l].exists \/ saved.lists[l].exists
  PROVE  Settled(l)
  BY DEF NumbersInv, Births, Unborn, Settled

\* What the store holds of records comes from records that are being staged.
LEMMA StagedFrom ==
  ASSUME TypeInv, RoutesInv, [Next]_vars, NEW p \in staged' \cup saved'.staged
  PROVE  \/ p \in staged \cup saved.staged
         \/ \E t \in Threads : calls[t].op = "stage" /\ p = <<calls[t].list, calls[t].record>>
  <1>0. IdleDone /\ NoTables.staged = {}
    BY IdleIsDone DEF NoTables
  <1>1. ASSUME NEW t \in Threads, Effect(t)
        PROVE  \/ p \in staged \cup saved.staged
               \/ calls[t].op = "stage" /\ p = <<calls[t].list, calls[t].record>>
    <2>1. \/ staged' \subseteq staged \cup saved.staged
          \/ Staged(t)
      BY <1>1 DEF Effect, Began, NotBegun, DidRead, DidWrite, Committed, RolledBack, Collected,
         ErasedRecords, ErasedList, DeliveredOne, DeliveredAll, Inserted, Marked, Looked, WasReset,
         Chose, Swept, SameTables
    <2>2. saved'.staged \subseteq staged \cup saved.staged
      BY <1>0, <1>1, TransactionChanges DEF SameTransaction, Began
    <2>3. Staged(t) => calls[t].op = "stage"
      BY DEF Staged, TypeInv, RecordKnown
    <2> QED BY <2>1, <2>2, <2>3 DEF Staged
  <1>2. ASSUME NEW t \in Threads, Enters(t) PROVE p \in staged \cup saved.staged
    BY <1>2 DEF Enters, SameTables, SameTransaction
  <1>3. CASE Crashes
    BY <1>0, <1>3 DEF Crashes
  <1>4. CASE Rests
    BY <1>4 DEF Rests, SameTables, SameTransaction
  <1> QED BY <1>0, <1>1, <1>2, <1>3, <1>4, StepEffect

LEMMA PayloadsFrom ==
  ASSUME TypeInv, RoutesInv, PayloadsInv, [Next]_vars, NEW u \in Threads,
         NEW r \in calls'[u].payloads
  PROVE  /\ calls'[u].list = calls[u].list
         /\ r \in calls[u].payloads \/ (r \in Records /\ <<calls[u].list, r>> \in staged)
  <1> DEFINE Goal == /\ calls'[u].list = calls[u].list
                     /\ \/ r \in calls[u].payloads
                        \/ r \in Records /\ <<calls[u].list, r>> \in staged
  <1>1. ASSUME Effect(u) PROVE Goal
    <2> USE DEF Moves, GoesTo, Ends
    <2>1. CASE Began(u) \/ NotBegun(u) \/ DidRead(u) \/ DidWrite(u) \/ Committed(u) \/ RolledBack(u)
      BY <2>1 DEF Began, NotBegun, DidRead, DidWrite, Committed, RolledBack
    <2>2. CASE Collected(u) \/ ErasedRecords(u) \/ ErasedList(u) \/ DeliveredOne(u) \/ DeliveredAll(u)
      BY <2>2 DEF Collected, ErasedRecords, ErasedList, DeliveredOne, DeliveredAll
    <2>3. CASE Inserted(u) \/ Marked(u) \/ Looked(u) \/ Staged(u) \/ WasReset(u) \/ Swept(u)
      BY <2>3 DEF Inserted, Marked, Looked, Staged, WasReset, Swept
    <2>4. CASE Chose(u)
      BY <2>4 DEF Chose, PayloadsInv
    <2> QED BY <1>1, <2>1, <2>2, <2>3, <2>4 DEF Effect
  <1>2. ASSUME Enters(u) PROVE Goal
    BY <1>2 DEF Enters
  <1>3. CASE Crashes
    BY <1>3 DEF Crashes
  <1>4. CASE Rests
    BY <1>4 DEF Rests
  <1>5. ASSUME NEW t \in Threads, Effect(t) \/ Enters(t), t # u PROVE Goal
    BY <1>5, OthersStay
  <1>6. IdleDone
    BY IdleIsDone
  <1> QED BY <1>1, <1>2, <1>3, <1>4, <1>5, <1>6, StepEffect
=============================================================================
