------------------------------ MODULE SeedLists ------------------------------
(* The store of seed lists for duplicate games: DuplicateManager on its       *)
(* single SQLite connection. A seed list is a row of one table, the records   *)
(* of its games wait in another until the list is destroyed and are then      *)
(* handed to the statistics. The manager has no lock: the threads of the      *)
(* server (request handlers, collector, session timers, record writer) issue  *)
(* the statements of their calls in any interleaving, and SQLite serialises   *)
(* one statement at a time. What a connection makes of a transaction is       *)
(* modelled as it is: BEGIN fails while any thread has a transaction open on  *)
(* the connection, and a statement another thread issues meanwhile belongs to *)
(* that transaction and disappears with its ROLLBACK.                         *)
(*                                                                            *)
(* Disk errors and busy time-outs of statements are left out. Tokens are      *)
(* random and never drawn twice; both tokens of a list stand for the list.    *)
EXTENDS Integers, Sequences, FiniteSets

CONSTANTS
    Lists,       \* seed lists that may ever be created
    Records,     \* round records that may ever be staged
    Threads,     \* threads that call the manager
    NoOne,       \* owner of the transaction when none is open
    Lifetimes,   \* times until expiry that a user may choose
    MaxCalls,    \* bound: calls in flight at once
    MaxClock,    \* bound: ticks of the clock
    MaxCrashes   \* bound: crashes of the server

ASSUME NoOneAssumption == NoOne \notin Threads
ASSUME LifetimesAssumption == Lifetimes \subseteq Nat \ {0}
ASSUME BoundsAssumption == MaxCalls \in Nat /\ MaxClock \in Nat /\ MaxCrashes \in Nat

VARIABLES
    lists,    \* table duplicate_seed_lists
    staged,   \* table duplicate_staged_records: pairs of a list and a record
    owner,    \* thread whose transaction is open on the connection
    saved,    \* both tables as they were at its BEGIN
    calls,    \* thread -> its call of the manager and how far it has got
    issued,   \* lists whose tokens have been drawn
    given,    \* list -> session numbers that StartSession has handed out
    stats,    \* records that reached the statistics
    up,       \* OnServerStartup is over
    clock,
    crashes

vars == <<lists, staged, owner, saved, calls, issued, given, stats, up, clock, crashes>>
tables == <<lists, staged>>
transaction == <<owner, saved>>
rest == <<issued, given, stats, up, clock, crashes>>

-----------------------------------------------------------------------------
(* Rows and calls                                                            *)

NoRow == [exists |-> FALSE, expires |-> 0, next |-> 0, live |-> 0, started |-> 0]

NoTables == [lists |-> [l \in Lists |-> NoRow], staged |-> {}]

Ops == {"create", "start", "end", "extend", "force", "mark", "stage", "startup"}

Idle == [op |-> "none", list |-> NoOne, now |-> 0, started |-> FALSE, record |-> NoOne,
         step |-> "done", ok |-> FALSE, number |-> 0, payloads |-> {}, todo |-> {}]

\* Mutant: startup does not reset the counters.
FirstStepNoReset(op) ==
    CASE op = "create" -> "insert"
      [] op = "mark" -> "mark"
      [] op = "stage" -> "exists"
      [] op = "startup" -> "select"
      [] OTHER -> "begin"

\* Mutant: records are staged without a look at the list.
FirstStepBlindStage(op) ==
    CASE op = "create" -> "insert"
      [] op = "mark" -> "mark"
      [] op = "stage" -> "stage"
      [] op = "startup" -> "reset"
      [] OTHER -> "begin"

\* Where a call starts: its first statement.
FirstStep(op) ==
    CASE op = "create" -> "insert"
      [] op = "mark" -> "mark"
      [] op = "stage" -> "exists"
      [] op = "startup" -> "reset"
      [] OTHER -> "begin"

Free(t) == calls[t].op = "none"
InFlight == {t \in Threads : ~Free(t)}
BoundedCalls == Cardinality(InFlight) < MaxCalls
Returned(t, op) == calls[t].op = op /\ calls[t].step = "done"

\* The call of t becomes c.
Put(t, c) == calls' = [calls EXCEPT ![t] = c]

\* A thread calls the manager; the caller reads the clock before the call.
Call(t, op, l, started, r) ==
    /\ Free(t) /\ BoundedCalls
    /\ Put(t, [Idle EXCEPT !.op = op, !.list = l, !.now = clock, !.started = started,
                           !.record = r, !.step = FirstStep(op)])

\* The thread takes the result and goes on.
Return(t) ==
    /\ calls[t].op # "none" /\ calls[t].step = "done"
    /\ Put(t, Idle)
    /\ up' = (up \/ calls[t].op = "startup")

Goto(t, step) == Put(t, [calls[t] EXCEPT !.step = step])

Finish(t, ok) == Put(t, [calls[t] EXCEPT !.step = "done", !.ok = ok])

Rows == [exists : BOOLEAN, expires : Nat, next : Nat, live : Int, started : Nat]

Tables == [lists : [Lists -> Rows], staged : SUBSET (Lists \X Records)]

Steps == {"begin", "read", "write", "commit", "commit, release", "commit, deliver", "rollback",
          "release", "collect", "erase records", "erase list", "deliver", "insert", "mark",
          "exists", "stage", "reset", "select", "sweep", "done"}

Calls == [op : Ops \cup {"none"}, list : Lists \cup {NoOne}, now : Nat, started : BOOLEAN,
          record : Records \cup {NoOne}, step : Steps, ok : BOOLEAN, number : Nat,
          payloads : SUBSET Records, todo : SUBSET Lists]

\* The tables and calls have their shapes.
TypeOK ==
    /\ lists \in [Lists -> Rows]
    /\ staged \subseteq Lists \X Records
    /\ owner \in Threads \cup {NoOne}
    /\ saved \in Tables
    /\ calls \in [Threads -> Calls]
    /\ issued \subseteq Lists
    /\ given \in [Lists -> Seq(Nat)]
    /\ stats \subseteq Records
    /\ up \in BOOLEAN
    /\ clock \in Nat
    /\ crashes \in Nat

-----------------------------------------------------------------------------
(* Transactions of StartSession, EndSession, ExtendExpiry and ForceExpire    *)

\* Mutant: no transaction.
BeginNested(t) ==
    /\ calls[t].step \in {"begin", "release"}
    /\ owner' = t
    /\ saved' = [lists |-> lists, staged |-> staged]
    /\ Goto(t, IF calls[t].step = "begin" THEN "read" ELSE "collect")
    /\ UNCHANGED <<tables, rest>>

\* BEGIN IMMEDIATE: refused while a transaction is open on the connection,
\* whoever opened it.
Begin(t) ==
    /\ calls[t].step \in {"begin", "release"}
    /\ \/ /\ owner = NoOne
          /\ owner' = t
          /\ saved' = [lists |-> lists, staged |-> staged]
          /\ Goto(t, IF calls[t].step = "begin" THEN "read" ELSE "collect")
       \/ /\ owner # NoOne
          /\ Finish(t, FALSE)
          /\ UNCHANGED transaction
    /\ UNCHANGED <<tables, rest>>

Expired(row, now) == row.expires <= now

\* The calls that leave without a write and so roll back.
Refused(c, row) == c.op # "end" /\ (~row.exists \/ Expired(row, c.now))

\* Mutant: the session that ends is taken for one that stays.
DestroysLate(c, row) ==
    /\ row.exists
    /\ \/ c.op = "end" /\ Expired(row, c.now) /\ row.live <= 0
       \/ c.op = "force" /\ row.live <= 0

\* The calls that destroy the list: the last session of an expired list ends,
\* or a list without sessions is expired by its master.
Destroys(c, row) ==
    /\ row.exists
    /\ \/ c.op = "end" /\ Expired(row, c.now) /\ row.live <= 1
       \/ c.op = "force" /\ row.live <= 0

AfterRead(c, row) ==
    IF Refused(c, row) THEN "rollback"
    ELSE IF Destroys(c, row) THEN "commit, release"
    ELSE IF row.exists THEN "write" ELSE "commit"

\* SELECT of the row, and what the call decides on it.
Read(t) ==
    LET c == calls[t] IN
    LET row == lists[c.list] IN
    /\ c.step = "read"
    /\ Put(t, [c EXCEPT !.number = IF c.op = "start" THEN row.next ELSE 0,
                        !.step = AfterRead(c, row)])
    /\ UNCHANGED <<tables, transaction, rest>>

Updated(c, row, lifetime) ==
    CASE c.op = "start" -> [row EXCEPT !.next = @ + 1, !.live = @ + 1]
      [] c.op = "end" -> [row EXCEPT !.live = @ - 1,
                                     !.started = IF c.started /\ @ > 0 THEN @ - 1 ELSE @]
      [] c.op = "extend" -> [row EXCEPT !.expires = c.now + lifetime]
      [] OTHER -> [row EXCEPT !.expires = c.now]

\* UPDATE of the row.
Write(t) ==
    /\ calls[t].step = "write"
    /\ \E lifetime \in Lifetimes :
          lists' = [lists EXCEPT ![calls[t].list] = Updated(calls[t], @, lifetime)]
    /\ Goto(t, "commit")
    /\ UNCHANGED <<staged, transaction, rest>>

\* COMMIT, and the session number that StartSession returns.
Commit(t) ==
    LET c == calls[t] IN
    /\ c.step \in {"commit", "commit, release", "commit, deliver"}
    /\ owner' = NoOne
    /\ saved' = NoTables
    /\ CASE c.step = "commit" -> Finish(t, TRUE)
         [] c.step = "commit, release" -> Goto(t, "release")
         [] OTHER -> Goto(t, "deliver")
    /\ given' = IF c.op = "start" THEN [given EXCEPT ![c.list] = Append(@, c.number)]
                                  ELSE given
    /\ UNCHANGED <<tables, issued, stats, up, clock, crashes>>

\* ROLLBACK by the destructor of the transaction.
Rollback(t) ==
    /\ calls[t].step = "rollback"
    /\ lists' = saved.lists
    /\ staged' = saved.staged
    /\ owner' = NoOne
    /\ saved' = NoTables
    /\ Finish(t, FALSE)
    /\ UNCHANGED rest

-----------------------------------------------------------------------------
(* ReleaseSeedList: after its BEGIN                                          *)

\* SELECT of the staged records.
Collect(t) ==
    /\ calls[t].step = "collect"
    /\ Put(t, [calls[t] EXCEPT !.payloads = {r \in Records : <<calls[t].list, r>> \in staged},
                               !.step = "erase records"])
    /\ UNCHANGED <<tables, transaction, rest>>

\* Mutant: erase_seed_row is false.
EraseRecordsOnly(t) ==
    /\ calls[t].step = "erase records"
    /\ staged' = {p \in staged : p[1] # calls[t].list}
    /\ Goto(t, "commit, deliver")
    /\ UNCHANGED <<lists, transaction, rest>>

\* DELETE of the staged records: of those that are there now.
EraseRecords(t) ==
    /\ calls[t].step = "erase records"
    /\ staged' = {p \in staged : p[1] # calls[t].list}
    /\ Goto(t, "erase list")
    /\ UNCHANGED <<lists, transaction, rest>>

\* DELETE of the list.
EraseList(t) ==
    /\ calls[t].step = "erase list"
    /\ lists' = [lists EXCEPT ![calls[t].list] = NoRow]
    /\ Goto(t, "commit, deliver")
    /\ UNCHANGED <<staged, transaction, rest>>

\* A write to the statistics uses another connection to the same file and
\* waits until no transaction is open.
Deliver(t) ==
    LET c == calls[t] IN
    /\ c.step = "deliver"
    /\ \/ \E r \in c.payloads :
             /\ owner = NoOne
             /\ stats' = stats \cup {r}
             /\ Put(t, [c EXCEPT !.payloads = @ \ {r}])
       \/ /\ c.payloads = {}
          /\ IF c.op = "startup" THEN Goto(t, "sweep") ELSE Finish(t, TRUE)
          /\ UNCHANGED stats
    /\ UNCHANGED <<tables, transaction, issued, given, up, clock, crashes>>

-----------------------------------------------------------------------------
(* Calls that use no transaction of their own                                *)

\* CreateSeedList.
Insert(t) ==
    LET c == calls[t] IN
    /\ c.step = "insert"
    /\ \E lifetime \in Lifetimes :
          lists' = [lists EXCEPT ![c.list] =
                       [NoRow EXCEPT !.exists = TRUE, !.expires = c.now + lifetime]]
    /\ Finish(t, TRUE)
    /\ UNCHANGED <<staged, transaction, rest>>

Begun(row) == [row EXCEPT !.started = @ + 1]

\* MarkSessionStarted: the UPDATE finds no row when the list is gone.
Mark(t) ==
    LET c == calls[t] IN
    /\ c.step = "mark"
    /\ lists' = [lists EXCEPT ![c.list] = IF @.exists THEN Begun(@) ELSE @]
    /\ Finish(t, TRUE)
    /\ UNCHANGED <<staged, transaction, rest>>

\* StageRecord: first a SELECT for the list, then the INSERT OR REPLACE. The
\* result FALSE tells the caller to write the record to the statistics.
ListExists(t) ==
    LET c == calls[t] IN
    /\ c.step = "exists"
    /\ IF lists[c.list].exists THEN Goto(t, "stage") ELSE Finish(t, FALSE)
    /\ UNCHANGED <<tables, transaction, rest>>

Stage(t) ==
    LET c == calls[t] IN
    /\ c.step = "stage"
    /\ staged' = staged \cup {<<c.list, c.record>>}
    /\ Finish(t, TRUE)
    /\ UNCHANGED <<lists, transaction, rest>>

Cleared(row) == [row EXCEPT !.live = 0, !.started = 0]

\* OnServerStartup: no session survives a restart, so the counters are reset.
Reset(t) ==
    /\ calls[t].step = "reset"
    /\ lists' = [l \in Lists |-> Cleared(lists[l])]
    /\ Goto(t, "select")
    /\ UNCHANGED <<staged, transaction, rest>>

SelectExpired(t) ==
    LET c == calls[t] IN
    /\ c.step = "select"
    /\ Put(t, [c EXCEPT !.todo = {l \in Lists : lists[l].exists /\ Expired(lists[l], c.now)},
                        !.step = "sweep"])
    /\ UNCHANGED <<tables, transaction, rest>>

\* Each expired list in turn goes through ReleaseSeedList.
Sweep(t) ==
    LET c == calls[t] IN
    /\ c.step = "sweep"
    /\ \/ \E l \in c.todo :
             Put(t, [c EXCEPT !.list = l, !.todo = @ \ {l}, !.step = "release"])
       \/ c.todo = {} /\ Finish(t, TRUE)
    /\ UNCHANGED <<tables, transaction, rest>>

-----------------------------------------------------------------------------
(* The server                                                                *)

\* One statement, or the code between two.
Statement(t) ==
    \/ Begin(t) \/ Read(t) \/ Write(t) \/ Commit(t) \/ Rollback(t)
    \/ Collect(t) \/ EraseRecords(t) \/ EraseList(t) \/ Deliver(t)
    \/ Insert(t) \/ Mark(t) \/ ListExists(t) \/ Stage(t)
    \/ Reset(t) \/ SelectExpired(t) \/ Sweep(t)

\* The process dies: SQLite rolls the open transaction back at the next start.
Crash ==
    /\ crashes < MaxCrashes
    /\ crashes' = crashes + 1
    /\ lists' = IF owner = NoOne THEN lists ELSE saved.lists
    /\ staged' = IF owner = NoOne THEN staged ELSE saved.staged
    /\ owner' = NoOne
    /\ saved' = NoTables
    /\ calls' = [t \in Threads |-> Idle]
    /\ up' = FALSE
    /\ UNCHANGED <<issued, given, stats, clock>>

Tick ==
    /\ clock < MaxClock
    /\ clock' = clock + 1
    /\ UNCHANGED <<tables, transaction, calls, issued, given, stats, up, crashes>>

\* The server starts before it serves any request.
StartUp(t) ==
    /\ ~up /\ InFlight = {}
    /\ Call(t, "startup", NoOne, FALSE, NoOne)
    /\ UNCHANGED <<tables, transaction, rest>>

\* A user asks for a new list; its tokens are fresh.
CreateList(t, l) ==
    /\ up /\ l \notin issued
    /\ Call(t, "create", l, FALSE, NoOne)
    /\ issued' = issued \cup {l}
    /\ UNCHANGED <<tables, transaction, given, stats, up, clock, crashes>>

\* Any other call on a list whose tokens are known.
CallOn(t, op, l, started, r) ==
    /\ up /\ l \in issued
    /\ Call(t, op, l, started, r)
    /\ UNCHANGED <<tables, transaction, rest>>

\* Mutant: a record that is not staged is dropped.
BypassNothing(t) ==
    /\ Returned(t, "stage") /\ ~calls[t].ok
    /\ owner = NoOne
    /\ UNCHANGED stats

\* A caller takes back what its call has done, with the time it had read.
TakeBack(t) ==
    /\ Returned(t, "start") /\ calls[t].ok
    /\ Put(t, [Idle EXCEPT !.op = "end", !.list = calls[t].list, !.now = calls[t].now,
                           !.step = FirstStep("end")])
    /\ UNCHANGED <<tables, transaction, rest>>

\* The thread that wrote a record puts one that is not staged into the
\* statistics itself (runtime_state.cc).
Bypass(t) ==
    /\ Returned(t, "stage") /\ ~calls[t].ok
    /\ owner = NoOne
    /\ stats' = stats \cup {calls[t].record}

Init ==
    /\ lists = [l \in Lists |-> NoRow]
    /\ staged = {}
    /\ owner = NoOne
    /\ saved = NoTables
    /\ calls = [t \in Threads |-> Idle]
    /\ issued = {}
    /\ given = [l \in Lists |-> <<>>]
    /\ stats = {}
    /\ up = FALSE
    /\ clock = 0
    /\ crashes = 0

Next ==
    \/ \E t \in Threads :
          \/ StartUp(t)
          \/ Statement(t)
          \/ TakeBack(t)
          \/ \E l \in Lists :
                \/ CreateList(t, l)
                \/ \E op \in {"start", "extend", "force", "mark"} :
                      CallOn(t, op, l, FALSE, NoOne)
                \/ \E started \in BOOLEAN : CallOn(t, "end", l, started, NoOne)
                \/ \E r \in Records : CallOn(t, "stage", l, FALSE, r)
          \/ /\ Return(t)
             /\ \/ Bypass(t)
                \/ (~Returned(t, "stage") \/ calls[t].ok) /\ UNCHANGED stats
             /\ UNCHANGED <<tables, transaction, issued, given, clock, crashes>>
    \/ Tick
    \/ Crash

Spec == Init /\ [][Next]_vars

\* The numbers that StartSession hands out for a list are 0, 1, 2 and so on,
\* none twice, whatever the threads, crashes and restarts do: two tables of one
\* list never play under the same number.
NumbersInOrder == \A l \in Lists : \A i \in 1..Len(given[l]) : given[l][i] = i - 1
=============================================================================
