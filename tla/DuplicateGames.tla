--------------------------- MODULE DuplicateGames ---------------------------
(* Duplicate games around the store of seed lists: the hub counts a session   *)
(* on its list when it is created and takes it off when it ends or its        *)
(* waiting room is collected; the records of its rounds go through the queue  *)
(* of the record manager, whose thread writes the file and stages the record. *)
(*                                                                            *)
(* The hub appears only as far as its calls of the store go: who sits where   *)
(* is left to its own module, the course of a game to Session.                *)
EXTENDS SeedLists

CONSTANTS
    Sessions,    \* ids of duplicate sessions that may be created
    Rounds,      \* rounds of a game
    Workers,     \* threads of request handlers, session timers and collector
    Recorder     \* thread of the record manager

ASSUME RoundsAssumption == Rounds \in Nat \ {0}
ASSUME ThreadsAssumption == Threads = Workers \cup {Recorder} /\ Recorder \notin Workers
ASSUME RecordsAssumption == Records = Sessions \X (1..Rounds)

VARIABLES
    stage,       \* session -> how far it has got
    listOf,      \* session -> its seed list
    round,       \* session -> its round
    counted,     \* duplicate_session_tokens_: sessions that count on their list
    marked,      \* duplicate_started_sessions_
    serving,     \* worker -> the session its call of the store is about
    tasks,       \* tasks_ of the record manager
    files,       \* records on disk
    overlapped,  \* history: two calls of the store were in flight at once
    abandoned    \* history: create_session gave up after StartSession

hub == <<stage, listOf, round, counted, marked, serving>>
recording == <<tasks, files>>
history == <<overlapped, abandoned>>
allVars == <<vars, hub, recording, history>>

Stages == {"none", "creating", "pending", "active", "ending", "gone"}

\* The hub and the record manager have their shapes.
GamesTypeOK ==
    /\ TypeOK
    /\ stage \in [Sessions -> Stages]
    /\ listOf \in [Sessions -> Lists \cup {NoOne}]
    /\ round \in [Sessions -> 1..Rounds]
    /\ counted \subseteq Sessions
    /\ marked \subseteq Sessions
    /\ serving \in [Workers -> Sessions \cup {NoOne}]
    /\ tasks \in Seq(Records)
    /\ files \subseteq Records
    /\ overlapped \in BOOLEAN
    /\ abandoned \in BOOLEAN

-----------------------------------------------------------------------------
(* Calls of the store                                                        *)

NoteOverlap(t) == overlapped' = (overlapped \/ InFlight \ {t} # {})

CallStore(t, op, l, started, r) ==
    /\ CallOn(t, op, l, started, r)
    /\ NoteOverlap(t)

\* The worker goes on with the next call, or with none.
ReturnStore(t) ==
    /\ Return(t)
    /\ UNCHANGED <<tables, transaction, issued, given, stats, clock, crashes>>

\* HTTP handlers of the lists' owners.
MasterCalls(t, l) ==
    /\ \/ CreateList(t, l) /\ NoteOverlap(t)
       \/ \E op \in {"extend", "force"} : CallStore(t, op, l, FALSE, NoOne)
    /\ UNCHANGED <<hub, recording, abandoned>>

MasterCallReturns(t) ==
    /\ calls[t].op \in {"create", "extend", "force"}
    /\ ReturnStore(t)
    /\ UNCHANGED <<hub, recording, history>>

-----------------------------------------------------------------------------
(* The hub                                                                   *)

\* The mutex of the hub: start_active_session holds it while it calls the store.
HubFree == \A t \in Workers : calls[t].op # "mark"

\* create_session, up to StartSession.
CreateSession(t, s, l) ==
    /\ stage[s] = "none"
    /\ CallStore(t, "start", l, FALSE, NoOne)
    /\ stage' = [stage EXCEPT ![s] = "creating"]
    /\ listOf' = [listOf EXCEPT ![s] = l]
    /\ serving' = [serving EXCEPT ![t] = s]
    /\ UNCHANGED <<round, counted, marked, recording, abandoned>>

\* StartSession has returned. The owner may be in another session, or no id be
\* left, and then create_session just leaves.
SessionCreated(t) ==
    LET s == serving[t] IN
    /\ Returned(t, "start") /\ HubFree
    /\ \/ /\ calls[t].ok
          /\ stage' = [stage EXCEPT ![s] = "pending"]
          /\ counted' = counted \cup {s}
          /\ UNCHANGED abandoned
       \/ /\ stage' = [stage EXCEPT ![s] = "gone"]
          /\ abandoned' = (abandoned \/ calls[t].ok)
          /\ UNCHANGED counted
    /\ serving' = [serving EXCEPT ![t] = NoOne]
    /\ ReturnStore(t)
    /\ UNCHANGED <<listOf, round, marked, recording, overlapped>>

\* The list has another number of rounds: the session is taken off again.
WrongRounds(t) ==
    /\ TakeBack(t)
    /\ UNCHANGED <<hub, recording, history>>

\* start_active_session.
StartActive(t, s) ==
    /\ stage[s] = "pending" /\ HubFree
    /\ CallStore(t, "mark", listOf[s], FALSE, NoOne)
    /\ stage' = [stage EXCEPT ![s] = "active"]
    /\ serving' = [serving EXCEPT ![t] = s]
    /\ UNCHANGED <<listOf, round, counted, marked, recording, abandoned>>

SessionMarked(t) ==
    /\ Returned(t, "mark")
    /\ marked' = marked \cup {serving[t]}
    /\ serving' = [serving EXCEPT ![t] = NoOne]
    /\ ReturnStore(t)
    /\ UNCHANGED <<stage, listOf, round, counted, recording, history>>

\* Mutant: the token of the session is not erased.
CompleteSessionKeepsToken(t, s) ==
    /\ \/ stage[s] = "active"
       \/ stage[s] = "pending" /\ HubFree
    /\ s \in counted
    /\ CallStore(t, "end", listOf[s], s \in marked, NoOne)
    /\ stage' = [stage EXCEPT ![s] = IF @ = "pending" THEN "gone" ELSE "ending"]
    /\ counted' = counted
    /\ marked' = marked \ {s}
    /\ serving' = [serving EXCEPT ![t] = s]
    /\ UNCHANGED <<listOf, round, recording, abandoned>>

\* complete_session, for a session that ends or a waiting room that the
\* collector has removed.
CompleteSession(t, s) ==
    /\ \/ stage[s] = "active"
       \/ stage[s] = "pending" /\ HubFree
    /\ s \in counted
    /\ CallStore(t, "end", listOf[s], s \in marked, NoOne)
    /\ stage' = [stage EXCEPT ![s] = IF @ = "pending" THEN "gone" ELSE "ending"]
    /\ counted' = counted \ {s}
    /\ marked' = marked \ {s}
    /\ serving' = [serving EXCEPT ![t] = s]
    /\ UNCHANGED <<listOf, round, recording, abandoned>>

\* EndSession has returned: an active session enqueues its last record.
SessionCompleted(t) ==
    LET s == serving[t] IN
    /\ Returned(t, "end")
    /\ IF stage[s] = "ending" THEN tasks' = Append(tasks, <<s, round[s]>>) ELSE UNCHANGED tasks
    /\ stage' = [stage EXCEPT ![s] = "gone"]
    /\ serving' = [serving EXCEPT ![t] = NoOne]
    /\ ReturnStore(t)
    /\ UNCHANGED <<listOf, round, counted, marked, files, history>>

\* A round is over and another follows.
NextRound(s) ==
    /\ stage[s] = "active" /\ round[s] < Rounds
    /\ tasks' = Append(tasks, <<s, round[s]>>)
    /\ round' = [round EXCEPT ![s] = @ + 1]
    /\ UNCHANGED <<vars, stage, listOf, counted, marked, serving, files, history>>

-----------------------------------------------------------------------------
(* The record manager and the observer of its writes                         *)

\* worker_loop takes a task and writes its file; the observer of the write then
\* stages the record. A file that cannot be written ends the task.
TakeTask ==
    /\ tasks # <<>> /\ Free(Recorder)
    /\ tasks' = Tail(tasks)
    /\ LET r == Head(tasks) IN
          \/ /\ files' = files \cup {r}
             /\ CallStore(Recorder, "stage", listOf[r[1]], FALSE, r)
          \/ UNCHANGED <<vars, files, overlapped>>
    /\ UNCHANGED <<hub, abandoned>>

\* Mutant: the record goes to the statistics also when it is staged.
TaskStagedTwice ==
    /\ Returned(Recorder, "stage")
    /\ stats' = stats \cup {calls[Recorder].record}
    /\ Return(Recorder)
    /\ UNCHANGED <<tables, transaction, issued, given, clock, crashes,
                   hub, recording, history>>

\* It is staged, or its list is destroyed and it goes to the statistics.
TaskStaged ==
    /\ Returned(Recorder, "stage")
    /\ \/ calls[Recorder].ok /\ UNCHANGED stats
       \/ Bypass(Recorder)
    /\ Return(Recorder)
    /\ UNCHANGED <<tables, transaction, issued, given, clock, crashes,
                   hub, recording, history>>

\* LoadSessionRecords: a replay shows the files of its session, whoever asks.
Replays == files

\* IsTokenActive, which only the statistics ask.
TokenActive(l) == lists[l].exists /\ ~Expired(lists[l], clock)

-----------------------------------------------------------------------------
(* The server                                                                *)

Statements(t) == Statement(t) /\ UNCHANGED <<hub, recording, history>>

ServerStarts(t) == StartUp(t) /\ UNCHANGED <<hub, recording, history>>

ServerUp(t) ==
    /\ Returned(t, "startup")
    /\ ReturnStore(t)
    /\ UNCHANGED <<hub, recording, history>>

\* Sessions, tasks and what the hub knows are lost; tables and files stay.
ServerCrashes ==
    /\ Crash
    /\ stage' = [s \in Sessions |-> IF stage[s] = "none" THEN "none" ELSE "gone"]
    /\ counted' = {}
    /\ marked' = {}
    /\ serving' = [t \in Workers |-> NoOne]
    /\ tasks' = <<>>
    /\ UNCHANGED <<listOf, round, files, history>>

TimePasses == Tick /\ UNCHANGED <<hub, recording, history>>

GamesInit ==
    /\ Init
    /\ stage = [s \in Sessions |-> "none"]
    /\ listOf = [s \in Sessions |-> NoOne]
    /\ round = [s \in Sessions |-> 1]
    /\ counted = {}
    /\ marked = {}
    /\ serving = [t \in Workers |-> NoOne]
    /\ tasks = <<>>
    /\ files = {}
    /\ overlapped = FALSE
    /\ abandoned = FALSE

GamesNext ==
    \/ \E t \in Workers :
          \/ \E l \in Lists : MasterCalls(t, l)
          \/ MasterCallReturns(t)
          \/ \E s \in Sessions :
                \/ \E l \in Lists : CreateSession(t, s, l)
                \/ StartActive(t, s)
                \/ CompleteSession(t, s)
          \/ SessionCreated(t)
          \/ WrongRounds(t)
          \/ SessionMarked(t)
          \/ SessionCompleted(t)
          \/ ServerStarts(t)
          \/ ServerUp(t)
    \/ \E t \in Threads : Statements(t)
    \/ \E s \in Sessions : NextRound(s)
    \/ TakeTask
    \/ TaskStaged
    \/ ServerCrashes
    \/ TimePasses

GamesSpec == GamesInit /\ [][GamesNext]_allVars

\* The hub and the record manager use the store as SeedLists allows, so what is
\* proved of the store holds here.
UsesStore == Spec

-----------------------------------------------------------------------------
(* Properties                                                                *)

Live(l) == {s \in Sessions : s \in counted /\ listOf[s] = l}

\* No call is being served and every record has been dealt with.
Quiet == up /\ InFlight = {} /\ tasks = <<>>

\* The count of live sessions of a list is never below the sessions that will
\* still be taken off it, so the end of one game cannot destroy the list under
\* another: failed calls, races and restarts only leave it too high.
NeverUndercounted == \A l \in Lists : lists[l].exists => lists[l].live >= Cardinality(Live(l))

\* A record reaches the statistics only when its list is destroyed: while the
\* other tables may still play the same walls, no total and no table of rounds
\* counts a deal. (Of the files of the records this says nothing.)
HiddenFromStatistics == \A r \in stats : ~lists[listOf[r[1]]].exists

\* "True while the token exists and has not expired - duplicate sessions stay
\* invisible to stats/replays during this window" (IsTokenActive): no record of
\* such a list is found by the statistics or as a replay.
InvisibleWhileActive == \A r \in stats \cup Replays : ~TokenActive(listOf[r[1]])

\* Without overlapping calls, a record on disk is on its way to the store,
\* staged, about to be delivered or in the statistics; also when the last
\* record of a game comes after the end of the game has destroyed its list.
RecordsKept ==
    ~overlapped /\ crashes = 0 =>
        \A r \in files :
            \/ r = calls[Recorder].record
            \/ <<listOf[r[1]], r>> \in staged
            \/ r \in stats
            \/ \E t \in Threads : r \in calls[t].payloads

\* Without overlapping calls, no staged record is left without its list, even
\* by a crash in the middle of a release: only the list can release it.
NoOrphans == ~overlapped => \A p \in staged : lists[p[1]].exists

\* Without overlapping calls and abandoned creations, the counters of a list
\* agree with the hub whenever no call is in flight, also after a restart.
CountersExact ==
    ~overlapped /\ ~abandoned /\ Quiet =>
        \A l \in Lists : lists[l].exists =>
            /\ lists[l].live = Cardinality(Live(l))
            /\ lists[l].started = Cardinality(Live(l) \cap marked)

\* When EndSession returns to the last session of a list that was expired at
\* the time of the call, the list is gone.
ExpiredListsGo ==
    \A t \in Workers :
        LET l == calls[t].list IN
        Returned(t, "end") /\ InFlight = {t} /\ Live(l) = {} /\ lists[l].exists =>
            lists[l].expires > calls[t].now

\* The same, without overlapping calls and abandoned creations.
ExpiredListsGoIfOrderly == ~overlapped /\ ~abandoned => ExpiredListsGo
=============================================================================
