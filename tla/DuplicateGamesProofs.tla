------------------------- MODULE DuplicateGamesProofs -------------------------
(* Duplicate games implement the store of seed lists: the hub and the record  *)
(* manager call it as SeedLists allows, so its theorems hold for them. Then,  *)
(* each on top of the ones before:                                            *)
(*   - where the records of a list may be while it is played (HiddenInv);     *)
(*   - that a list counts every session that will be taken off it, whatever   *)
(*     overlaps, fails or crashes (CountInv);                                 *)
(*   - with calls one at a time (Sole), that staged records keep their list   *)
(*     (OrphansInv), no record on disk gets lost (FilesInv), the counters are *)
(*     exact and expired lists go (OrderInv).                                 *)
(* StepEffect of SeedListsProofs says what a step does to the store, and      *)
(* GamesEffect below what it does to store, hub and calls, field by field.    *)
EXTENDS DuplicateGames, SeedListsProofs, FiniteSetTheorems

\* A worker whose call of the store is about a session serves that session.
Serves ==
    \A t \in Workers : calls[t].op \in {"start", "end", "mark"} => serving[t] \in Sessions

\* The hub and the queue name sessions, rounds and records that exist.
HubInv ==
    /\ round \in [Sessions -> 1..Rounds]
    /\ serving \in [Workers -> Sessions \cup {NoOne}]
    /\ tasks \in Seq(Records)
    /\ Serves

GamesInv == TypeInv /\ HubInv

LEMMA WorkersAreThreads == Workers \subseteq Threads /\ Recorder \in Threads /\ Recorder \notin Workers
  BY ThreadsAssumption

LEMMA HubInit == GamesInit => HubInv
  <1> SUFFICES ASSUME GamesInit PROVE HubInv
    OBVIOUS
  <1>1. round \in [Sessions -> 1..Rounds]
    BY RoundsAssumption DEF GamesInit
  <1>2. serving \in [Workers -> Sessions \cup {NoOne}] /\ tasks \in Seq(Records)
    BY DEF GamesInit
  <1>3. Serves
    BY WorkersAreThreads DEF GamesInit, Init, Serves, Idle
  <1> QED BY <1>1, <1>2, <1>3 DEF HubInv

-----------------------------------------------------------------------------
(* Every step is one of the store, or none                                   *)

LEMMA StoreCall ==
  ASSUME TypeInv, NEW t \in Threads, NEW op, NEW l, NEW started, NEW r,
         CallStore(t, op, l, started, r),
         \/ op \in {"start", "extend", "force", "mark"} /\ started = FALSE /\ r = NoOne
         \/ op = "end" /\ started \in BOOLEAN /\ r = NoOne
         \/ op = "stage" /\ started = FALSE /\ r \in Records
  PROVE  Next
  <1>1. CallOn(t, op, l, started, r)
    BY DEF CallStore
  <1>2. l \in Lists
    BY <1>1 DEF CallOn, TypeInv, TypeOK
  <1> QED BY <1>1, <1>2 DEF Next

LEMMA StoreReturn ==
  ASSUME NEW t \in Threads, ReturnStore(t), ~Returned(t, "stage")
  PROVE  Next
  <1>1. Return(t) /\ UNCHANGED <<tables, transaction, issued, given, stats, clock, crashes>>
    BY DEF ReturnStore
  <1> QED BY <1>1 DEF Next

\* Whatever the hub and the record manager do, the store takes a step of its
\* own or none.
LEMMA StepsOfStore == GamesInv /\ [GamesNext]_allVars => [Next]_vars
  <1> SUFFICES ASSUME GamesInv, [GamesNext]_allVars PROVE [Next]_vars
    OBVIOUS
  <1>i. TypeInv /\ tasks \in Seq(Records)
    BY DEF GamesInv, HubInv
  <1>1. ASSUME NEW t \in Workers, NEW l \in Lists, MasterCalls(t, l) PROVE Next
    <2>1. CASE CreateList(t, l)
      BY <2>1, WorkersAreThreads DEF Next
    <2>2. CASE \E op \in {"extend", "force"} : CallStore(t, op, l, FALSE, NoOne)
      BY <1>i, <2>2, StoreCall, WorkersAreThreads
    <2> QED BY <1>1, <2>1, <2>2 DEF MasterCalls
  <1>2. ASSUME NEW t \in Workers, MasterCallReturns(t) PROVE Next
    <2>1. ~Returned(t, "stage")
      BY <1>2 DEF MasterCallReturns, Returned
    <2> QED BY <1>2, <2>1, StoreReturn, WorkersAreThreads DEF MasterCallReturns
  <1>3. ASSUME NEW t \in Workers, NEW s \in Sessions, NEW l \in Lists, CreateSession(t, s, l)
        PROVE  Next
    BY <1>i, <1>3, StoreCall, WorkersAreThreads DEF CreateSession
  <1>4. ASSUME NEW t \in Workers, NEW s \in Sessions, StartActive(t, s) PROVE Next
    BY <1>i, <1>4, StoreCall, WorkersAreThreads DEF StartActive
  <1>5. ASSUME NEW t \in Workers, NEW s \in Sessions, CompleteSession(t, s) PROVE Next
    <2>1. CallStore(t, "end", listOf[s], s \in marked, NoOne) /\ (s \in marked) \in BOOLEAN
      BY <1>5 DEF CompleteSession
    <2> QED BY <1>i, <2>1, StoreCall, WorkersAreThreads
  <1>6. ASSUME NEW t \in Workers, SessionCreated(t) PROVE Next
    <2>1. ~Returned(t, "stage")
      BY <1>6 DEF SessionCreated, Returned
    <2> QED BY <1>6, <2>1, StoreReturn, WorkersAreThreads DEF SessionCreated
  <1>7. ASSUME NEW t \in Workers, WrongRounds(t) PROVE Next
    BY <1>7, WorkersAreThreads DEF WrongRounds, Next
  <1>8. ASSUME NEW t \in Workers, SessionMarked(t) PROVE Next
    <2>1. ~Returned(t, "stage")
      BY <1>8 DEF SessionMarked, Returned
    <2> QED BY <1>8, <2>1, StoreReturn, WorkersAreThreads DEF SessionMarked
  <1>9. ASSUME NEW t \in Workers, SessionCompleted(t) PROVE Next
    <2>1. ~Returned(t, "stage")
      BY <1>9 DEF SessionCompleted, Returned
    <2> QED BY <1>9, <2>1, StoreReturn, WorkersAreThreads DEF SessionCompleted
  <1>10. ASSUME NEW t \in Workers, ServerStarts(t) PROVE Next
    BY <1>10, WorkersAreThreads DEF ServerStarts, Next
  <1>11. ASSUME NEW t \in Workers, ServerUp(t) PROVE Next
    <2>1. ~Returned(t, "stage")
      BY <1>11 DEF ServerUp, Returned
    <2> QED BY <1>11, <2>1, StoreReturn, WorkersAreThreads DEF ServerUp
  <1>12. ASSUME NEW t \in Threads, Statements(t) PROVE Next
    BY <1>12 DEF Statements, Next
  <1>13. ASSUME NEW s \in Sessions, NextRound(s) PROVE UNCHANGED vars
    BY <1>13 DEF NextRound
  <1>14. CASE TakeTask
    <2>1. Head(tasks) \in Records
      BY <1>i, <1>14 DEF TakeTask
    <2>2. UNCHANGED vars
          \/ CallStore(Recorder, "stage", listOf[Head(tasks)[1]], FALSE, Head(tasks))
      BY <1>14 DEF TakeTask
    <2>3. CASE UNCHANGED vars
      BY <2>3
    <2>4. CASE CallStore(Recorder, "stage", listOf[Head(tasks)[1]], FALSE, Head(tasks))
      BY <1>i, <2>1, <2>4, StoreCall, WorkersAreThreads
    <2> QED BY <2>2, <2>3, <2>4
  <1>15. CASE TaskStaged
    <2>1. /\ Return(Recorder)
          /\ Bypass(Recorder) \/ (calls[Recorder].ok /\ UNCHANGED stats)
          /\ UNCHANGED <<tables, transaction, issued, given, clock, crashes>>
      BY <1>15 DEF TaskStaged
    <2> QED BY <2>1, WorkersAreThreads DEF Next
  <1>16. CASE ServerCrashes
    BY <1>16 DEF ServerCrashes, Next
  <1>17. CASE TimePasses
    BY <1>17 DEF TimePasses, Next
  <1>18. CASE UNCHANGED allVars
    BY <1>18 DEF allVars
  <1> QED
    BY <1>1, <1>2, <1>3, <1>4, <1>5, <1>6, <1>7, <1>8, <1>9, <1>10, <1>11, <1>12,
       <1>13, <1>14, <1>15, <1>16, <1>17, <1>18 DEF GamesNext

-----------------------------------------------------------------------------
(* The hub names what exists                                                 *)

\* A call begins for a worker that serves a session, or about none.
LEMMA ServesCall ==
  ASSUME GamesInv, NEW t \in Threads, NEW op, NEW l, NEW started, NEW r,
         CallStore(t, op, l, started, r),
         \A u \in Workers \ {t} : serving'[u] = serving[u],
         t \in Workers /\ op \in {"start", "end", "mark"} => serving'[t] \in Sessions
  PROVE  Serves'
  <1> DEFINE d == [Idle EXCEPT !.op = op, !.list = l, !.now = clock, !.started = started,
                               !.record = r, !.step = FirstStep(op)]
  <1>1. Put(t, d)
    BY DEF CallStore, CallOn, Call
  <1>2. d.op = op
    BY DEF Idle
  <1> HIDE DEF d
  <1>3. calls' = [calls EXCEPT ![t] = d] /\ calls \in [Threads -> Calls]
    BY <1>1 DEF Put, GamesInv, TypeInv, TypeOK
  <1> QED BY <1>2, <1>3, WorkersAreThreads DEF GamesInv, HubInv, Serves

LEMMA ServesReturn ==
  ASSUME GamesInv, NEW t \in Threads, Return(t),
         \A u \in Workers \ {t} : serving'[u] = serving[u]
  PROVE  Serves'
  <1>1. calls' = [calls EXCEPT ![t] = Idle] /\ calls \in [Threads -> Calls]
    BY DEF Return, Put, GamesInv, TypeInv, TypeOK
  <1>2. Idle.op = "none"
    BY DEF Idle
  <1> QED BY <1>1, <1>2, WorkersAreThreads DEF GamesInv, HubInv, Serves

\* A record of a session that exists may be enqueued.
LEMMA Enqueued ==
  ASSUME HubInv, NEW s \in Sessions
  PROVE  Append(tasks, <<s, round[s]>>) \in Seq(Records)
  <1>1. <<s, round[s]>> \in Records
    BY RecordsAssumption DEF HubInv
  <1> QED BY <1>1 DEF HubInv

LEMMA HubNext == GamesInv /\ [GamesNext]_allVars => HubInv'
  <1> SUFFICES ASSUME GamesInv, [GamesNext]_allVars PROVE HubInv'
    OBVIOUS
  <1>i. /\ round \in [Sessions -> 1..Rounds]
        /\ serving \in [Workers -> Sessions \cup {NoOne}]
        /\ tasks \in Seq(Records)
        /\ Serves
    BY DEF GamesInv, HubInv
  <1>r. Rounds \in Nat
    BY RoundsAssumption
  <1>k. ASSUME UNCHANGED <<round, serving, tasks>>, Serves' PROVE HubInv'
    BY <1>i, <1>k DEF HubInv
  <1>s. ASSUME NEW t \in Workers, NEW s \in Sessions \cup {NoOne},
               serving' = [serving EXCEPT ![t] = s], UNCHANGED <<round, tasks>>, Serves'
        PROVE  HubInv'
    BY <1>i, <1>s DEF HubInv
  <1>o. ASSUME NEW t \in Workers, NEW s, serving' = [serving EXCEPT ![t] = s]
        PROVE  (\A u \in Workers \ {t} : serving'[u] = serving[u]) /\ serving'[t] = s
    BY <1>i, <1>o
  <1> USE DEF hub, recording, history
  <1>1. ASSUME NEW t \in Workers, NEW l \in Lists, MasterCalls(t, l) PROVE HubInv'
    <2>1. UNCHANGED <<round, serving, tasks>>
      BY <1>1 DEF MasterCalls
    <2>2. CASE CreateList(t, l)
      <3> DEFINE d == [Idle EXCEPT !.op = "create", !.list = l, !.now = clock,
                         !.started = FALSE, !.record = NoOne, !.step = FirstStep("create")]
      <3>1. Put(t, d) /\ d.op = "create"
        BY <2>2 DEF CreateList, Call, Idle
      <3> HIDE DEF d
      <3>2. calls' = [calls EXCEPT ![t] = d] /\ calls \in [Threads -> Calls]
        BY <3>1 DEF Put, GamesInv, TypeInv, TypeOK
      <3>3. Serves'
        BY <1>i, <2>1, <3>1, <3>2, WorkersAreThreads DEF Serves
      <3> QED BY <1>k, <2>1, <3>3
    <2>3. ASSUME NEW op \in {"extend", "force"}, CallStore(t, op, l, FALSE, NoOne)
          PROVE  HubInv'
      <3>1. Serves'
        BY <2>1, <2>3, ServesCall, WorkersAreThreads
      <3> QED BY <1>k, <2>1, <3>1
    <2> QED BY <1>1, <2>2, <2>3 DEF MasterCalls
  <1>2. ASSUME NEW t \in Workers, MasterCallReturns(t) \/ ServerUp(t) PROVE HubInv'
    <2>1. Return(t) /\ UNCHANGED <<round, serving, tasks>>
      BY <1>2 DEF MasterCallReturns, ServerUp, ReturnStore
    <2> QED BY <1>k, <2>1, ServesReturn, WorkersAreThreads
  <1>3. ASSUME NEW t \in Workers, NEW s \in Sessions, NEW op, NEW l, NEW started, NEW r,
               CallStore(t, op, l, started, r), serving' = [serving EXCEPT ![t] = s],
               UNCHANGED <<round, tasks>>
        PROVE  HubInv'
    <2>1. Serves'
      BY <1>3, <1>o, ServesCall, WorkersAreThreads
    <2> QED BY <1>3, <1>s, <2>1
  <1>4. ASSUME NEW t \in Workers, NEW s \in Sessions,
               (\E l \in Lists : CreateSession(t, s, l)) \/ StartActive(t, s)
               \/ CompleteSession(t, s)
        PROVE  HubInv'
    BY <1>3, <1>4 DEF CreateSession, StartActive, CompleteSession
  <1>5. ASSUME NEW t \in Workers, SessionCreated(t) \/ SessionMarked(t) PROVE HubInv'
    <2>1. Return(t) /\ serving' = [serving EXCEPT ![t] = NoOne] /\ UNCHANGED <<round, tasks>>
      BY <1>5 DEF SessionCreated, SessionMarked, ReturnStore
    <2>2. Serves'
      BY <1>o, <2>1, ServesReturn, WorkersAreThreads
    <2> QED BY <1>s, <2>1, <2>2
  <1>6. ASSUME NEW t \in Workers, WrongRounds(t) PROVE HubInv'
    <2> DEFINE d == [Idle EXCEPT !.op = "end", !.list = calls[t].list, !.now = calls[t].now,
                                 !.step = FirstStep("end")]
    <2>1. Put(t, d) /\ d.op = "end" /\ calls[t].op = "start"
          /\ UNCHANGED <<round, serving, tasks>>
      BY <1>6 DEF WrongRounds, TakeBack, Returned, Idle
    <2> HIDE DEF d
    <2>2. calls' = [calls EXCEPT ![t] = d] /\ calls \in [Threads -> Calls]
      BY <2>1 DEF Put, GamesInv, TypeInv, TypeOK
    <2>3. Serves'
      BY <1>i, <2>1, <2>2, WorkersAreThreads DEF Serves
    <2> QED BY <1>k, <2>1, <2>3
  <1>7. ASSUME NEW t \in Workers, SessionCompleted(t) PROVE HubInv'
    <2>1. /\ Return(t) /\ serving' = [serving EXCEPT ![t] = NoOne] /\ UNCHANGED round
          /\ tasks' = tasks \/ tasks' = Append(tasks, <<serving[t], round[serving[t]]>>)
      BY <1>7 DEF SessionCompleted, ReturnStore
    <2>2. serving[t] \in Sessions
      BY <1>i, <1>7 DEF SessionCompleted, Returned, Serves
    <2>3. tasks' \in Seq(Records)
      BY <1>i, <2>1, <2>2, Enqueued DEF GamesInv
    <2>4. Serves'
      BY <1>o, <2>1, ServesReturn, WorkersAreThreads
    <2> QED BY <1>i, <2>1, <2>3, <2>4 DEF HubInv
  <1>8. ASSUME NEW t \in Workers, ServerStarts(t) PROVE HubInv'
    <2> DEFINE d == [Idle EXCEPT !.op = "startup", !.list = NoOne, !.now = clock,
                       !.started = FALSE, !.record = NoOne, !.step = FirstStep("startup")]
    <2>1. Put(t, d) /\ d.op = "startup" /\ UNCHANGED <<round, serving, tasks>>
      BY <1>8 DEF ServerStarts, StartUp, Call, Idle
    <2> HIDE DEF d
    <2>2. calls' = [calls EXCEPT ![t] = d] /\ calls \in [Threads -> Calls]
      BY <2>1 DEF Put, GamesInv, TypeInv, TypeOK
    <2>3. Serves'
      BY <1>i, <2>1, <2>2, WorkersAreThreads DEF Serves
    <2> QED BY <1>k, <2>1, <2>3
  <1>9. ASSUME NEW t \in Threads, Statements(t) PROVE HubInv'
    <2>1. Statement(t) /\ UNCHANGED <<round, serving, tasks>>
      BY <1>9 DEF Statements
    <2>2. Serves'
      BY <1>i, <2>1, StatementKeepsOp, WorkersAreThreads DEF GamesInv, Serves
    <2> QED BY <1>k, <2>1, <2>2
  <1>10. ASSUME NEW s \in Sessions, NextRound(s) PROVE HubInv'
    <2>1. /\ round[s] < Rounds /\ round' = [round EXCEPT ![s] = @ + 1]
          /\ tasks' = Append(tasks, <<s, round[s]>>) /\ UNCHANGED <<calls, serving>>
      BY <1>10 DEF NextRound, vars
    <2>2. round' \in [Sessions -> 1..Rounds]
      BY <1>i, <1>r, <2>1
    <2>3. tasks' \in Seq(Records)
      BY <2>1, Enqueued DEF GamesInv
    <2> QED BY <1>i, <2>1, <2>2, <2>3 DEF HubInv, Serves
  <1>11. CASE TakeTask
    <2>1. /\ UNCHANGED <<round, serving>> /\ tasks' = Tail(tasks) /\ tasks # <<>>
          /\ UNCHANGED vars
             \/ CallStore(Recorder, "stage", listOf[Head(tasks)[1]], FALSE, Head(tasks))
      BY <1>11 DEF TakeTask
    <2>2. tasks' \in Seq(Records)
      BY <1>i, <2>1
    <2>3. CASE UNCHANGED vars
      BY <1>i, <2>1, <2>2, <2>3 DEF HubInv, Serves, vars
    <2>4. CASE CallStore(Recorder, "stage", listOf[Head(tasks)[1]], FALSE, Head(tasks))
      <3>1. Serves'
        BY <2>1, <2>4, ServesCall, WorkersAreThreads
      <3> QED BY <1>i, <2>1, <2>2, <3>1 DEF HubInv
    <2> QED BY <2>1, <2>3, <2>4
  <1>12. CASE TaskStaged
    <2>1. Return(Recorder) /\ UNCHANGED <<round, serving, tasks>>
      BY <1>12 DEF TaskStaged
    <2> QED BY <1>k, <2>1, ServesReturn, WorkersAreThreads
  <1>13. CASE ServerCrashes
    <2>1. /\ UNCHANGED round /\ serving' = [t \in Workers |-> NoOne] /\ tasks' = <<>>
          /\ calls' = [t \in Threads |-> Idle]
      BY <1>13 DEF ServerCrashes, Crash
    <2>2. Serves'
      BY <2>1, WorkersAreThreads DEF Serves, Idle
    <2> QED BY <1>i, <2>1, <2>2 DEF HubInv
  <1>14. CASE TimePasses
    BY <1>i, <1>14 DEF TimePasses, Tick, HubInv, Serves
  <1>15. CASE UNCHANGED allVars
    BY <1>i, <1>15 DEF allVars, vars, HubInv, Serves
  <1> QED
    BY <1>1, <1>2, <1>4, <1>5, <1>6, <1>7, <1>8, <1>9, <1>10, <1>11, <1>12,
       <1>13, <1>14, <1>15 DEF GamesNext

-----------------------------------------------------------------------------
(* The refinement                                                            *)

LEMMA GamesInvHolds == GamesSpec => []GamesInv
  <1>1. GamesInit => GamesInv
    BY TypeInit, HubInit DEF GamesInit, GamesInv
  <1>2. GamesInv /\ [GamesNext]_allVars => GamesInv'
    BY StepsOfStore, TypeNext, HubNext DEF GamesInv
  <1> QED BY <1>1, <1>2, PTL DEF GamesSpec

\* Duplicate games use the store as SeedLists allows, for any number of
\* sessions, rounds, lists, threads and crashes.
THEOREM GamesUseStore == GamesSpec => UsesStore
  <1>1. GamesInit => Init
    BY DEF GamesInit
  <1>2. GamesInv /\ [GamesNext]_allVars => [Next]_vars
    BY StepsOfStore
  <1> QED BY <1>1, <1>2, GamesInvHolds, PTL DEF GamesSpec, UsesStore, Spec

\* No two tables of a list ever get the same session number.
THEOREM GamesNumbersInOrder == GamesSpec => []NumbersInOrder
  BY GamesUseStore, NumbersInOrderHolds, PTL DEF UsesStore

-----------------------------------------------------------------------------
(* The hub's part                                                            *)

HubTyped ==
    /\ stage \in [Sessions -> Stages]
    /\ listOf \in [Sessions -> Lists \cup {NoOne}]
    /\ counted \subseteq Sessions /\ marked \subseteq Sessions
    /\ files \subseteq Records
    /\ overlapped \in BOOLEAN /\ abandoned \in BOOLEAN

LEMMA HubTypedInit == GamesInit => HubTyped
  BY DEF GamesInit, HubTyped, Stages

LEMMA HubTypedStep ==
  ASSUME GamesInv, HubTyped, [GamesNext]_allVars
  PROVE  HubTyped'
  <1> USE DEF hub, recording, history, Stages
  <1>i. tasks \in Seq(Records) /\ Serves
    BY DEF GamesInv, HubInv
  <1>o. \A t \in Threads : NoteOverlap(t) => overlapped' \in BOOLEAN
    BY DEF NoteOverlap, HubTyped
  <1>1. ASSUME NEW t \in Workers, NEW l \in Lists, MasterCalls(t, l) PROVE HubTyped'
    BY <1>1, <1>o, WorkersAreThreads DEF MasterCalls, CallStore, HubTyped
  <1>2. ASSUME NEW t \in Workers,
               MasterCallReturns(t) \/ ServerUp(t) \/ ServerStarts(t) \/ WrongRounds(t)
        PROVE  HubTyped'
    BY <1>2 DEF MasterCallReturns, ServerUp, ServerStarts, WrongRounds, HubTyped
  <1>3. ASSUME NEW t \in Workers, NEW s \in Sessions, NEW l \in Lists, CreateSession(t, s, l)
        PROVE  HubTyped'
    BY <1>3, <1>o, WorkersAreThreads DEF CreateSession, CallStore, HubTyped
  <1>4. ASSUME NEW t \in Workers, NEW s \in Sessions, StartActive(t, s) \/ CompleteSession(t, s)
        PROVE  HubTyped'
    <2>1. overlapped' \in BOOLEAN
      BY <1>4, <1>o, WorkersAreThreads DEF StartActive, CompleteSession, CallStore
    <2>2. stage' \in [Sessions -> Stages]
      BY <1>4 DEF StartActive, CompleteSession, HubTyped
    <2> QED BY <1>4, <2>1, <2>2 DEF StartActive, CompleteSession, HubTyped
  <1>5. ASSUME NEW t \in Workers, SessionCreated(t) PROVE HubTyped'
    <2>1. serving[t] \in Sessions
      BY <1>i, <1>5 DEF SessionCreated, Returned, Serves
    <2>2. calls[t].ok \in BOOLEAN
      BY WorkersAreThreads DEF GamesInv, TypeInv, TypeOK, Calls
    <2> QED BY <1>5, <2>1, <2>2 DEF SessionCreated, HubTyped
  <1>6. ASSUME NEW t \in Workers, SessionMarked(t) \/ SessionCompleted(t) PROVE HubTyped'
    <2>1. serving[t] \in Sessions
      BY <1>i, <1>6 DEF SessionMarked, SessionCompleted, Returned, Serves
    <2> QED BY <1>6, <2>1 DEF SessionMarked, SessionCompleted, HubTyped
  <1>7. ASSUME NEW t \in Threads, Statements(t) PROVE HubTyped'
    BY <1>7 DEF Statements, HubTyped
  <1>8. ASSUME NEW s \in Sessions, NextRound(s) PROVE HubTyped'
    BY <1>8 DEF NextRound, HubTyped
  <1>9. CASE TakeTask
    <2>1. Head(tasks) \in Records
      BY <1>i, <1>9 DEF TakeTask
    <2> QED BY <1>9, <2>1, <1>o, WorkersAreThreads DEF TakeTask, CallStore, HubTyped
  <1>10. CASE TaskStaged \/ TimePasses
    BY <1>10 DEF TaskStaged, TimePasses, HubTyped
  <1>11. CASE ServerCrashes
    BY <1>11 DEF ServerCrashes, HubTyped
  <1>12. CASE UNCHANGED allVars
    BY <1>12 DEF allVars, HubTyped
  <1> QED
    BY <1>1, <1>2, <1>3, <1>4, <1>5, <1>6, <1>7, <1>8, <1>9, <1>10, <1>11, <1>12 DEF GamesNext

\* A session that has begun to exist keeps its list.
LEMMA SessionsStay ==
  ASSUME GamesInv, HubTyped, [GamesNext]_allVars, NEW s \in Sessions, stage[s] # "none"
  PROVE  stage'[s] # "none" /\ listOf'[s] = listOf[s]
  <1> USE DEF hub, recording, history, HubTyped
  <1>1. ASSUME NEW t \in Workers, NEW l \in Lists, MasterCalls(t, l) PROVE UNCHANGED <<stage, listOf>>
    BY <1>1 DEF MasterCalls
  <1>2. ASSUME NEW t \in Workers,
               \/ MasterCallReturns(t) \/ ServerUp(t) \/ ServerStarts(t) \/ WrongRounds(t)
               \/ SessionMarked(t)
        PROVE  UNCHANGED <<stage, listOf>>
    BY <1>2 DEF MasterCallReturns, ServerUp, ServerStarts, WrongRounds, SessionMarked
  <1>3. ASSUME NEW t \in Workers, NEW u \in Sessions, NEW l \in Lists, CreateSession(t, u, l)
        PROVE  stage'[s] # "none" /\ listOf'[s] = listOf[s]
    BY <1>3 DEF CreateSession
  <1>4. ASSUME NEW t \in Workers, NEW u \in Sessions, StartActive(t, u) \/ CompleteSession(t, u)
        PROVE  stage'[s] # "none" /\ listOf'[s] = listOf[s]
    BY <1>4 DEF StartActive, CompleteSession
  <1>5. ASSUME NEW t \in Workers, SessionCreated(t) \/ SessionCompleted(t)
        PROVE  stage'[s] # "none" /\ listOf'[s] = listOf[s]
    BY <1>5 DEF SessionCreated, SessionCompleted
  <1>6. ASSUME NEW t \in Threads, Statements(t) PROVE UNCHANGED <<stage, listOf>>
    BY <1>6 DEF Statements
  <1>7. ASSUME NEW u \in Sessions, NextRound(u) PROVE UNCHANGED <<stage, listOf>>
    BY <1>7 DEF NextRound
  <1>8. CASE TakeTask \/ TaskStaged \/ TimePasses \/ UNCHANGED allVars
    BY <1>8 DEF TakeTask, TaskStaged, TimePasses, allVars
  <1>9. CASE ServerCrashes
    BY <1>9 DEF ServerCrashes
  <1> QED BY <1>1, <1>2, <1>3, <1>4, <1>5, <1>6, <1>7, <1>8, <1>9 DEF GamesNext

-----------------------------------------------------------------------------
(* Records and the lists they belong to                                      *)


\* The record belongs to a session of the list.
Known(l, r) ==
    /\ r \in Records /\ l \in Lists
    /\ stage[r[1]] # "none" /\ listOf[r[1]] = l /\ Settled(l)

\* Wherever a record is, its session and list are known.
KnownInv ==
    /\ \A p \in staged \cup saved.staged : Known(p[1], p[2])
    /\ \A t \in Threads : \A r \in calls[t].payloads : Known(calls[t].list, r)
    /\ \A t \in Threads : calls[t].op = "stage" =>
         /\ Known(calls[t].list, calls[t].record)
         /\ calls[t].step = "done" /\ ~calls[t].ok => ~lists[calls[t].list].exists
    /\ \A i \in 1..Len(tasks) : Known(listOf[tasks[i][1]], tasks[i])
    /\ \A r \in stats : Known(listOf[r[1]], r) /\ Buried(listOf[r[1]])

\* A session in play has a list, and so has a session about to be created.
PlayInv ==
    /\ \A s \in Sessions : stage[s] \in {"pending", "active", "ending"} => Settled(listOf[s])
    /\ \A s \in Sessions : stage[s] # "none" => listOf[s] \in Lists
    /\ \A t \in Workers : calls[t].op = "start" =>
         /\ stage[serving[t]] # "none" /\ listOf[serving[t]] = calls[t].list
         /\ calls[t].step \in {"write", "commit"} \/ (calls[t].step = "done" /\ calls[t].ok) =>
              Settled(calls[t].list)
    /\ \A t \in Workers : calls[t].op = "end" => stage[serving[t]] # "none"

HiddenInv == SavedInv /\ PayloadsInv /\ KnownInv /\ PlayInv

LEMMA KnownKept ==
  ASSUME GamesInv, HubTyped, RoutesInv, [GamesNext]_allVars, NEW l, NEW r, Known(l, r)
  PROVE  Known(l, r)'
  <1>1. r[1] \in Sessions
    BY RecordsAssumption DEF Known
  <1>2. IdleDone /\ TypeInv
    BY IdleIsDone DEF GamesInv
  <1>3. Settled(l)'
    BY <1>2, StepsOfStore, SettledKept DEF Known
  <1> QED BY <1>1, <1>3, SessionsStay DEF Known

\* A record that is being staged was the first of the queue.
LEMMA StageCalls ==
  ASSUME GamesInv, RoutesInv, [GamesNext]_allVars, NEW u \in Threads, calls'[u].op = "stage"
  PROVE  \/ /\ calls[u].op = "stage" /\ calls'[u].list = calls[u].list
            /\ calls'[u].record = calls[u].record
         \/ /\ tasks # <<>> /\ calls'[u].step = "exists"
            /\ calls'[u].record = Head(tasks) /\ calls'[u].list = listOf[Head(tasks)[1]]
  <1> DEFINE Goal == \/ /\ calls[u].op = "stage" /\ calls'[u].list = calls[u].list
                        /\ calls'[u].record = calls[u].record
                     \/ /\ tasks # <<>> /\ calls'[u].step = "exists"
                        /\ calls'[u].record = Head(tasks) /\ calls'[u].list = listOf[Head(tasks)[1]]
  <1>i. TypeInv
    BY DEF GamesInv
  <1>k. ASSUME calls'[u] = calls[u] PROVE Goal
    BY <1>k
  <1>0. ASSUME NEW t \in Threads, NEW op, NEW l, NEW now, NEW started, NEW r,
               Placed(t, op, l, now, started, r), op # "stage"
        PROVE  Goal
    BY <1>0 DEF Placed
  <1>c. ASSUME NEW t \in Threads, NEW op, NEW l, NEW started, NEW r,
               CallStore(t, op, l, started, r), op # "stage"
        PROVE  Goal
    BY <1>i, <1>c, <1>0, CallPlaces DEF CallStore, CallOn
  <1>r. ASSUME NEW t \in Threads, Return(t) PROVE Goal
    BY <1>i, <1>r, ReturnPlaces
  <1> HIDE DEF Goal
  <1>1. ASSUME NEW t \in Workers, NEW l \in Lists, MasterCalls(t, l) PROVE Goal
    <2>1. CASE CreateList(t, l)
      <3>1. Call(t, "create", l, FALSE, NoOne)
        BY <2>1 DEF CreateList
      <3>2. Placed(t, "create", l, clock, FALSE, NoOne)
        BY <1>i, <3>1, CallPlaces, WorkersAreThreads
      <3> QED BY <3>2, <1>0, WorkersAreThreads
    <2> QED BY <1>1, <2>1, <1>c, WorkersAreThreads DEF MasterCalls
  <1>2. ASSUME NEW t \in Workers,
               \/ MasterCallReturns(t) \/ ServerUp(t) \/ SessionCreated(t) \/ SessionMarked(t)
               \/ SessionCompleted(t)
        PROVE  Goal
    BY <1>2, <1>r, WorkersAreThreads
       DEF MasterCallReturns, ServerUp, SessionCreated, SessionMarked, SessionCompleted, ReturnStore
  <1>3. ASSUME NEW t \in Workers, ServerStarts(t) PROVE Goal
    <2>1. Call(t, "startup", NoOne, FALSE, NoOne)
      BY <1>3 DEF ServerStarts, StartUp
    <2>2. Placed(t, "startup", NoOne, clock, FALSE, NoOne)
      BY <1>i, <2>1, CallPlaces, WorkersAreThreads
    <2> QED BY <2>2, <1>0, WorkersAreThreads
  <1>4. ASSUME NEW t \in Workers, WrongRounds(t) PROVE Goal
    BY <1>i, <1>4, <1>0, TakeBackPlaces, WorkersAreThreads DEF WrongRounds
  <1>5. ASSUME NEW t \in Workers, NEW s \in Sessions,
               (\E l \in Lists : CreateSession(t, s, l)) \/ StartActive(t, s)
               \/ CompleteSession(t, s)
        PROVE  Goal
    BY <1>5, <1>c, WorkersAreThreads DEF CreateSession, StartActive, CompleteSession
  <1>6. ASSUME NEW t \in Threads, Statements(t) PROVE Goal
    <2>1. Effect(t)
      BY <1>i, <1>6, StatementEffect DEF Statements
    <2>2. CASE u # t
      BY <2>1, <2>2, <1>k, OthersStay
    <2>3. CASE u = t
      <3>1. calls'[t].op = calls[t].op
        BY <1>i, <1>6, StatementKeepsOp DEF Statements
      <3>2. calls[t].op = "stage" /\ calls[t].step \in {"exists", "stage", "done"}
        BY <2>3, <3>1 DEF RoutesInv, StepsOf
      <3>3. Looked(t) \/ Staged(t)
        BY <2>1, <3>2
        DEF Effect, Began, NotBegun, DidRead, DidWrite, Committed, RolledBack, Collected,
            ErasedRecords, ErasedList, DeliveredOne, DeliveredAll, Inserted, Marked, WasReset,
            Chose, Swept
      <3> QED BY <2>3, <3>2, <3>3 DEF Looked, Staged, GoesTo, Ends, Moves, Goal
    <2> QED BY <2>2, <2>3
  <1>7. CASE (\E s \in Sessions : NextRound(s)) \/ TimePasses \/ UNCHANGED allVars
    BY <1>7, <1>k DEF NextRound, TimePasses, Tick, allVars, vars
  <1>8. CASE TakeTask
    <2>1. CASE UNCHANGED vars
      BY <2>1, <1>k DEF vars
    <2>2. CASE CallStore(Recorder, "stage", listOf[Head(tasks)[1]], FALSE, Head(tasks))
      <3>1. Placed(Recorder, "stage", listOf[Head(tasks)[1]], clock, FALSE, Head(tasks))
        BY <1>i, <2>2, CallPlaces, WorkersAreThreads DEF CallStore, CallOn
      <3> QED BY <1>8, <3>1, <1>k, FirstSteps, WorkersAreThreads DEF Placed, TakeTask, Goal
    <2> QED BY <1>8, <2>1, <2>2 DEF TakeTask
  <1>9. ASSUME TaskStaged PROVE Goal
    <2>1. Return(Recorder)
      BY <1>9 DEF TaskStaged
    <2> QED BY <2>1, <1>r, WorkersAreThreads
  <1>10. CASE ServerCrashes
    BY <1>10 DEF ServerCrashes, Crash, Idle
  <1> QED
    BY <1>1, <1>2, <1>3, <1>4, <1>5, <1>6, <1>7, <1>8, <1>9, <1>10 DEF GamesNext, Goal

\* The queue loses its first record, or gets one of a session in play.
LEMMA TasksChange ==
  ASSUME GamesInv, [GamesNext]_allVars
  PROVE  \/ tasks' = tasks \/ tasks' = <<>>
         \/ tasks # <<>> /\ tasks' = Tail(tasks)
         \/ \E s \in Sessions : /\ stage[s] \in {"active", "ending"}
                                /\ tasks' = Append(tasks, <<s, round[s]>>)
  <1> USE DEF hub, recording, history
  <1>1. ASSUME NEW t \in Workers, NEW l \in Lists, MasterCalls(t, l) PROVE tasks' = tasks
    BY <1>1 DEF MasterCalls
  <1>2. ASSUME NEW t \in Workers,
               \/ MasterCallReturns(t) \/ ServerUp(t) \/ ServerStarts(t) \/ WrongRounds(t)
               \/ SessionMarked(t) \/ SessionCreated(t)
        PROVE  tasks' = tasks
    BY <1>2 DEF MasterCallReturns, ServerUp, ServerStarts, WrongRounds, SessionMarked, SessionCreated
  <1>3. ASSUME NEW t \in Workers, NEW s \in Sessions,
               (\E l \in Lists : CreateSession(t, s, l)) \/ StartActive(t, s)
               \/ CompleteSession(t, s)
        PROVE  tasks' = tasks
    BY <1>3 DEF CreateSession, StartActive, CompleteSession
  <1>4. ASSUME NEW t \in Workers, SessionCompleted(t)
        PROVE  \/ tasks' = tasks
               \/ \E s \in Sessions : /\ stage[s] \in {"active", "ending"}
                                      /\ tasks' = Append(tasks, <<s, round[s]>>)
    <2>1. serving[t] \in Sessions
      BY <1>4 DEF SessionCompleted, Returned, GamesInv, HubInv, Serves
    <2> QED BY <1>4, <2>1 DEF SessionCompleted
  <1>5. ASSUME NEW t \in Threads, Statements(t) PROVE tasks' = tasks
    BY <1>5 DEF Statements
  <1>6. ASSUME NEW s \in Sessions, NextRound(s)
        PROVE  stage[s] \in {"active", "ending"} /\ tasks' = Append(tasks, <<s, round[s]>>)
    BY <1>6 DEF NextRound
  <1>7. CASE TakeTask \/ TaskStaged \/ ServerCrashes \/ TimePasses \/ UNCHANGED allVars
    BY <1>7 DEF TakeTask, TaskStaged, ServerCrashes, TimePasses, allVars
  <1> QED BY <1>1, <1>2, <1>3, <1>4, <1>5, <1>6, <1>7 DEF GamesNext

\* Records reach the statistics from a list that is gone for good.
LEMMA StatsFrom ==
  ASSUME TypeInv, RoutesInv, SavedInv, PayloadsInv, KnownInv, [Next]_vars,
         NEW r \in stats', r \notin stats
  PROVE  \E l \in Lists : Known(l, r) /\ Buried(l)
  <1>0. IdleDone
    BY IdleIsDone
  <1>1. ASSUME NEW t \in Threads, Effect(t) PROVE DeliveredOne(t)
    BY <1>1 DEF Effect, Began, NotBegun, DidRead, DidWrite, Committed, RolledBack, Collected,
       ErasedRecords, ErasedList, DeliveredAll, Inserted, Marked, Looked, Staged, WasReset,
       Chose, Swept, SameServer
  <1>2. ASSUME NEW t \in Threads, DeliveredOne(t) PROVE \E l \in Lists : Known(l, r) /\ Buried(l)
    <2>1. r \in calls[t].payloads /\ calls[t].step = "deliver"
      BY <1>2 DEF DeliveredOne
    <2>2. Known(calls[t].list, r) /\ Buried(calls[t].list)
      BY <2>1 DEF KnownInv, PayloadsInv
    <2> QED BY <2>2 DEF Known
  <1>3. ASSUME NEW t \in Threads, Enters(t) PROVE \E l \in Lists : Known(l, r) /\ Buried(l)
    <2>1. /\ calls[t].op = "stage" /\ calls[t].step = "done" /\ ~calls[t].ok /\ owner = NoOne
          /\ r = calls[t].record
      BY <1>3 DEF Enters, Returned
    <2>2. Known(calls[t].list, r) /\ ~lists[calls[t].list].exists
      BY <2>1 DEF KnownInv
    <2>3. Buried(calls[t].list)
      BY <2>1, <2>2, NothingSaved DEF SavedInv, Buried, Known
    <2> QED BY <2>2, <2>3 DEF Known
  <1>4. CASE Crashes \/ Rests
    BY <1>4 DEF Crashes, Rests
  <1> QED BY <1>0, <1>1, <1>2, <1>3, <1>4, StepEffect

\* A staging call that is refused has found no list.
LEMMA RefusedStaging ==
  ASSUME TypeInv, RoutesInv, NumbersInv, SavedInv, KnownInv, [Next]_vars, NEW u \in Threads,
         calls[u].op = "stage", calls'[u].op = "stage", calls'[u].list = calls[u].list,
         calls'[u].step = "done", ~calls'[u].ok
  PROVE  ~lists'[calls[u].list].exists
  <1>0. IdleDone /\ ~Crashes
    BY IdleIsDone DEF Crashes
  <1>1. calls[u].list \in Lists /\ Settled(calls[u].list)
    BY DEF KnownInv, Known
  <1>2. CASE calls[u].step = "done" /\ ~calls[u].ok
    <2>1. ~lists[calls[u].list].exists
      BY <1>2 DEF KnownInv
    <2> QED BY <1>0, <1>1, <2>1, AbsentKept
  <1>3. CASE ~(calls[u].step = "done" /\ ~calls[u].ok)
    <2>1. Effect(u)
      <3>1. ~Enters(u)
        BY FirstSteps DEF Enters, Ops
      <3> QED BY <1>0, <1>3, <3>1, StepEffect, OthersStay DEF Rests
    <2>2. calls[u].step \in {"exists", "stage", "done"}
      BY DEF RoutesInv, StepsOf
    <2>3. Looked(u) \/ Staged(u)
      BY <2>1, <2>2
      DEF Effect, Began, NotBegun, DidRead, DidWrite, Committed, RolledBack, Collected,
          ErasedRecords, ErasedList, DeliveredOne, DeliveredAll, Inserted, Marked, WasReset,
          Chose, Swept
    <2> QED BY <2>3 DEF Looked, Staged, GoesTo, Ends, SameTables
  <1> QED BY <1>2, <1>3

\* What is known after a step, of whatever the step leaves.
KnownNext(l, r) ==
    /\ r \in Records /\ l \in Lists /\ stage'[r[1]] # "none" /\ listOf'[r[1]] = l
    /\ l \in issued' /\ \A t \in Threads : calls'[t].step = "insert" => calls'[t].list # l

BuriedNext(l) == ~lists'[l].exists /\ ~saved'.lists[l].exists

LEMMA KnownStays ==
  ASSUME GamesInv, HubTyped, RoutesInv, [GamesNext]_allVars
  PROVE  \A l, r : Known(l, r) => KnownNext(l, r)
  <1>1. \A l, r : Known(l, r) => Known(l, r)'
    BY KnownKept
  <1> QED BY <1>1 DEF Known, Settled, KnownNext

LEMMA KnownStep ==
  ASSUME GamesInv, HubTyped, RoutesInv, NumbersInv, HiddenInv, [GamesNext]_allVars
  PROVE  KnownInv'
  <1>0. /\ TypeInv /\ IdleDone /\ [Next]_vars
        /\ SavedInv /\ PayloadsInv /\ KnownInv /\ PlayInv
    BY IdleIsDone, StepsOfStore DEF GamesInv, HiddenInv
  <1>k. \A l, r : Known(l, r) => KnownNext(l, r)
    BY KnownStays
  <1>1. ASSUME NEW p \in staged' \cup saved'.staged PROVE KnownNext(p[1], p[2])
    <2>1. CASE p \in staged \cup saved.staged
      BY <1>0, <1>k, <2>1 DEF KnownInv
    <2>2. ASSUME NEW t \in Threads, calls[t].op = "stage", p = <<calls[t].list, calls[t].record>>
          PROVE  KnownNext(p[1], p[2])
      <3>1. Known(calls[t].list, calls[t].record)
        BY <1>0, <2>2 DEF KnownInv
      <3>2. Known(p[1], p[2])
        BY <2>2, <3>1
      <3> QED BY <1>k, <3>2
    <2> QED BY <1>0, <2>1, <2>2, StagedFrom
  <1>2. ASSUME NEW u \in Threads, NEW r \in calls'[u].payloads
        PROVE  KnownNext(calls'[u].list, r)
    <2>1. /\ calls'[u].list = calls[u].list
          /\ r \in calls[u].payloads \/ (r \in Records /\ <<calls[u].list, r>> \in staged)
      BY <1>0, <1>2, PayloadsFrom
    <2>2. Known(calls[u].list, r)
      <3>1. CASE r \in calls[u].payloads
        BY <1>0, <3>1 DEF KnownInv
      <3>2. CASE <<calls[u].list, r>> \in staged
        BY <1>0, <3>2 DEF KnownInv
      <3> QED BY <2>1, <3>1, <3>2
    <2> QED BY <1>k, <2>1, <2>2
  <1>3. ASSUME NEW u \in Threads, calls'[u].op = "stage"
        PROVE  /\ KnownNext(calls'[u].list, calls'[u].record)
               /\ calls'[u].step = "done" /\ ~calls'[u].ok => ~lists'[calls'[u].list].exists
    <2>1. CASE /\ calls[u].op = "stage" /\ calls'[u].list = calls[u].list
               /\ calls'[u].record = calls[u].record
      <3>1. Known(calls[u].list, calls[u].record)
        BY <1>0, <2>1 DEF KnownInv
      <3> QED BY <1>0, <1>k, <1>3, <2>1, <3>1, RefusedStaging
    <2>2. CASE /\ tasks # <<>> /\ calls'[u].step = "exists"
               /\ calls'[u].record = Head(tasks) /\ calls'[u].list = listOf[Head(tasks)[1]]
      <3>1. Len(tasks) >= 1 /\ Head(tasks) = tasks[1] /\ Len(tasks) \in Nat
        BY <2>2 DEF GamesInv, HubInv
      <3>2. Known(listOf[Head(tasks)[1]], Head(tasks))
        BY <1>0, <3>1 DEF KnownInv
      <3> QED BY <1>k, <2>2, <3>2
    <2> QED BY <1>3, <2>1, <2>2, StageCalls
  <1>4. ASSUME NEW i \in 1..Len(tasks')
        PROVE  KnownNext(listOf'[tasks'[i][1]], tasks'[i])
    <2>0. tasks \in Seq(Records)
      BY DEF GamesInv, HubInv
    <2>1. ASSUME NEW r, NEW l, Known(l, r) PROVE KnownNext(listOf'[r[1]], r)
      <3>1. KnownNext(l, r)
        BY <1>k, <2>1
      <3>2. listOf'[r[1]] = l
        BY <3>1 DEF KnownNext
      <3> QED BY <3>1, <3>2
    <2>2. CASE tasks' = tasks
      BY <1>0, <2>1, <2>2 DEF KnownInv
    <2>3. CASE tasks' = <<>>
      BY <2>3
    <2>4. CASE tasks # <<>> /\ tasks' = Tail(tasks)
      <3>1. i + 1 \in 1..Len(tasks) /\ tasks'[i] = tasks[i + 1]
        BY <2>0, <2>4
      <3> QED BY <1>0, <2>1, <3>1 DEF KnownInv
    <2>5. ASSUME NEW s \in Sessions, stage[s] \in {"active", "ending"},
                 tasks' = Append(tasks, <<s, round[s]>>)
          PROVE  KnownNext(listOf'[tasks'[i][1]], tasks'[i])
      <3>1. CASE i \in 1..Len(tasks)
        <4>1. tasks'[i] = tasks[i]
          BY <2>0, <2>5, <3>1
        <4> QED BY <1>0, <2>1, <3>1, <4>1 DEF KnownInv
      <3>2. CASE i \notin 1..Len(tasks)
        <4>1. tasks'[i] = <<s, round[s]>>
          BY <2>0, <2>5, <3>2
        <4>2. <<s, round[s]>> \in Records
          BY RecordsAssumption DEF GamesInv, HubInv
        <4>3. Known(listOf[s], <<s, round[s]>>)
          BY <1>0, <2>5, <4>2 DEF PlayInv, Known
        <4> QED BY <2>1, <4>1, <4>3
      <3> QED BY <3>1, <3>2
    <2> QED BY <2>2, <2>3, <2>4, <2>5, TasksChange
  <1>5. ASSUME NEW r \in stats'
        PROVE  KnownNext(listOf'[r[1]], r) /\ BuriedNext(listOf'[r[1]])
    <2>1. PICK l \in Lists : Known(l, r) /\ Buried(l)
      <3>1. CASE r \in stats
        BY <1>0, <3>1 DEF KnownInv, Known
      <3>2. CASE r \notin stats
        BY <1>0, <3>2, StatsFrom
      <3> QED BY <3>1, <3>2
    <2>2. KnownNext(l, r)
      BY <1>k, <2>1
    <2>3. Buried(l)'
      BY <1>0, <2>1, BuriedKept DEF Known
    <2>4. l = listOf'[r[1]]
      BY <2>2 DEF KnownNext
    <2> QED BY <2>2, <2>3, <2>4 DEF Buried, BuriedNext
  <1>6. (\A p \in staged \cup saved.staged : Known(p[1], p[2]))'
    BY <1>1 DEF Known, KnownNext, Settled
  <1>7. (\A t \in Threads : \A r \in calls[t].payloads : Known(calls[t].list, r))'
    BY <1>2 DEF Known, KnownNext, Settled
  <1>8. (\A t \in Threads : calls[t].op = "stage" =>
            /\ Known(calls[t].list, calls[t].record)
            /\ calls[t].step = "done" /\ ~calls[t].ok => ~lists[calls[t].list].exists)'
    BY <1>3 DEF Known, KnownNext, Settled
  <1>9. (\A i \in 1..Len(tasks) : Known(listOf[tasks[i][1]], tasks[i]))'
    BY <1>4 DEF Known, KnownNext, Settled
  <1>10. (\A r \in stats : Known(listOf[r[1]], r) /\ Buried(listOf[r[1]]))'
    BY <1>5 DEF Known, KnownNext, Settled, Buried, BuriedNext
  <1> QED BY <1>6, <1>7, <1>8, <1>9, <1>10 DEF KnownInv

\* A session that begins to exist has a list.
LEMMA ListsChosen ==
  ASSUME GamesInv, HubTyped, PlayInv, [GamesNext]_allVars, NEW s \in Sessions,
         stage[s] = "none", stage'[s] # "none"
  PROVE  listOf'[s] \in Lists
  <1> USE DEF hub, recording, history, HubTyped
  <1>0. Serves /\ TypeInv
    BY DEF GamesInv, HubInv
  <1>1. ASSUME NEW t \in Workers, NEW l \in Lists, MasterCalls(t, l) PROVE FALSE
    BY <1>1 DEF MasterCalls
  <1>2. ASSUME NEW t \in Workers,
               \/ MasterCallReturns(t) \/ ServerUp(t) \/ ServerStarts(t) \/ WrongRounds(t)
               \/ SessionMarked(t)
        PROVE  FALSE
    BY <1>2 DEF MasterCallReturns, ServerUp, ServerStarts, WrongRounds, SessionMarked
  <1>3. ASSUME NEW t \in Workers, NEW u \in Sessions, NEW l \in Lists, CreateSession(t, u, l)
        PROVE  listOf'[s] \in Lists
    BY <1>3 DEF CreateSession
  <1>4. ASSUME NEW t \in Workers, NEW u \in Sessions, StartActive(t, u) \/ CompleteSession(t, u)
        PROVE  FALSE
    BY <1>4 DEF StartActive, CompleteSession
  <1>5. ASSUME NEW t \in Workers, SessionCreated(t) \/ SessionCompleted(t)
        PROVE  FALSE
    <2>1. serving[t] = s
      BY <1>5 DEF SessionCreated, SessionCompleted
    <2>2. stage[serving[t]] # "none"
      BY <1>5 DEF SessionCreated, SessionCompleted, Returned, PlayInv
    <2> QED BY <2>1, <2>2
  <1>7. ASSUME NEW t \in Threads, Statements(t) PROVE FALSE
    BY <1>7 DEF Statements
  <1>8. ASSUME NEW u \in Sessions, NextRound(u) PROVE FALSE
    BY <1>8 DEF NextRound
  <1>9. ASSUME TakeTask \/ TaskStaged \/ TimePasses \/ UNCHANGED allVars PROVE FALSE
    BY <1>9 DEF TakeTask, TaskStaged, TimePasses, allVars
  <1>10. ASSUME ServerCrashes PROVE FALSE
    BY <1>10 DEF ServerCrashes
  <1> QED
    BY <1>1, <1>2, <1>3, <1>4, <1>5, <1>7, <1>8, <1>9, <1>10 DEF GamesNext

\* A session in play was in play before, or its StartSession has succeeded.
LEMMA PlayBegins ==
  ASSUME GamesInv, HubTyped, [GamesNext]_allVars, NEW s \in Sessions,
         stage'[s] \in {"pending", "active", "ending"},
         stage[s] \notin {"pending", "active", "ending"}
  PROVE  \E t \in Workers : Returned(t, "start") /\ calls[t].ok /\ serving[t] = s
  <1> DEFINE Goal == \E t \in Workers : Returned(t, "start") /\ calls[t].ok /\ serving[t] = s
  <1> USE DEF hub, recording, history, HubTyped
  <1>1. ASSUME NEW t \in Workers, NEW l \in Lists, MasterCalls(t, l) PROVE FALSE
    BY <1>1 DEF MasterCalls
  <1>2. ASSUME NEW t \in Workers,
               \/ MasterCallReturns(t) \/ ServerUp(t) \/ ServerStarts(t) \/ WrongRounds(t)
               \/ SessionMarked(t)
        PROVE  FALSE
    BY <1>2 DEF MasterCallReturns, ServerUp, ServerStarts, WrongRounds, SessionMarked
  <1>3. ASSUME NEW t \in Workers, NEW u \in Sessions, NEW l \in Lists, CreateSession(t, u, l)
        PROVE  FALSE
    BY <1>3 DEF CreateSession
  <1>4. ASSUME NEW t \in Workers, NEW u \in Sessions, StartActive(t, u) \/ CompleteSession(t, u)
        PROVE  FALSE
    BY <1>4 DEF StartActive, CompleteSession
  <1>5. ASSUME NEW t \in Workers, SessionCreated(t) PROVE Goal
    BY <1>5 DEF SessionCreated
  <1>6. ASSUME NEW t \in Workers, SessionCompleted(t) PROVE FALSE
    BY <1>6 DEF SessionCompleted
  <1>7. ASSUME NEW t \in Threads, Statements(t) PROVE FALSE
    BY <1>7 DEF Statements
  <1>8. ASSUME NEW u \in Sessions, NextRound(u) PROVE FALSE
    BY <1>8 DEF NextRound
  <1>9. ASSUME TakeTask \/ TaskStaged \/ TimePasses \/ UNCHANGED allVars PROVE FALSE
    BY <1>9 DEF TakeTask, TaskStaged, TimePasses, allVars
  <1>10. ASSUME ServerCrashes PROVE FALSE
    BY <1>10 DEF ServerCrashes
  <1> QED
    BY <1>1, <1>2, <1>3, <1>4, <1>5, <1>6, <1>7, <1>8, <1>9, <1>10 DEF GamesNext

\* A call of StartSession serves a session with that list.
LEMMA StartCalls ==
  ASSUME GamesInv, HubTyped, RoutesInv, [GamesNext]_allVars, NEW u \in Workers,
         calls'[u].op = "start"
  PROVE  \/ /\ calls[u].op = "start" /\ serving'[u] = serving[u]
            /\ calls'[u] = calls[u] \/ Effect(u)
         \/ /\ calls'[u].step = "begin"
            /\ stage'[serving'[u]] # "none" /\ listOf'[serving'[u]] = calls'[u].list
  <1> DEFINE Old == /\ calls[u].op = "start" /\ serving'[u] = serving[u]
                    /\ calls'[u] = calls[u] \/ Effect(u)
             New == /\ calls'[u].step = "begin"
                    /\ stage'[serving'[u]] # "none" /\ listOf'[serving'[u]] = calls'[u].list
  <1> USE DEF hub, recording, history
  <1>i. TypeInv /\ serving \in [Workers -> Sessions \cup {NoOne}] /\ u \in Threads
    BY WorkersAreThreads DEF GamesInv, HubInv
  <1>k. ASSUME calls'[u] = calls[u], serving'[u] = serving[u] PROVE Old
    BY <1>k
  <1>0. ASSUME NEW t \in Threads, NEW op, NEW l, NEW now, NEW started, NEW r,
               Placed(t, op, l, now, started, r), op # "start",
               \A v \in Workers \ {t} : serving'[v] = serving[v]
        PROVE  Old
    BY <1>i, <1>0 DEF Placed
  <1>c. ASSUME NEW t \in Threads, NEW op, NEW l, NEW started, NEW r,
               CallStore(t, op, l, started, r)
        PROVE  Placed(t, op, l, clock, started, r)
    BY <1>i, <1>c, CallPlaces DEF CallStore, CallOn
  <1>r. ASSUME NEW t \in Threads, Return(t), \A v \in Workers \ {t} : serving'[v] = serving[v]
        PROVE  Old
    <2>1. /\ \A v \in Threads \ {t} : calls'[v] = calls[v]
          /\ calls'[t].op = "none"
      BY <1>i, <1>r, ReturnPlaces
    <2> QED BY <1>i, <1>r, <2>1
  <1> HIDE DEF Old
  <1>1. ASSUME NEW t \in Workers, NEW l \in Lists, MasterCalls(t, l) PROVE Old
    <2>1. serving' = serving
      BY <1>1 DEF MasterCalls
    <2>2. CASE CreateList(t, l)
      <3>1. Call(t, "create", l, FALSE, NoOne)
        BY <2>2 DEF CreateList
      <3>2. Placed(t, "create", l, clock, FALSE, NoOne)
        BY <1>i, <3>1, CallPlaces, WorkersAreThreads
      <3> QED BY <2>1, <3>2, <1>0, WorkersAreThreads
    <2>3. ASSUME NEW op \in {"extend", "force"}, CallStore(t, op, l, FALSE, NoOne) PROVE Old
      <3>1. Placed(t, op, l, clock, FALSE, NoOne)
        BY <2>3, <1>c, WorkersAreThreads
      <3> QED BY <2>1, <3>1, <1>0, WorkersAreThreads
    <2> QED BY <1>1, <2>2, <2>3 DEF MasterCalls
  <1>2. ASSUME NEW t \in Workers,
               \/ MasterCallReturns(t) \/ ServerUp(t) \/ SessionCreated(t) \/ SessionMarked(t)
               \/ SessionCompleted(t)
        PROVE  Old
    <2>1. Return(t)
      BY <1>2 DEF MasterCallReturns, ServerUp, SessionCreated, SessionMarked, SessionCompleted,
                  ReturnStore
    <2>2. \A v \in Workers \ {t} : serving'[v] = serving[v]
      BY <1>i, <1>2
      DEF MasterCallReturns, ServerUp, SessionCreated, SessionMarked, SessionCompleted
    <2> QED BY <2>1, <2>2, <1>r, WorkersAreThreads
  <1>3. ASSUME NEW t \in Workers, ServerStarts(t) PROVE Old
    <2>1. Call(t, "startup", NoOne, FALSE, NoOne) /\ serving' = serving
      BY <1>3 DEF ServerStarts, StartUp
    <2>2. Placed(t, "startup", NoOne, clock, FALSE, NoOne)
      BY <1>i, <2>1, CallPlaces, WorkersAreThreads
    <2> QED BY <2>1, <2>2, <1>0, WorkersAreThreads
  <1>4. ASSUME NEW t \in Workers, WrongRounds(t) PROVE Old
    <2>1. Placed(t, "end", calls[t].list, calls[t].now, FALSE, NoOne) /\ serving' = serving
      BY <1>i, <1>4, TakeBackPlaces, WorkersAreThreads DEF WrongRounds
    <2> QED BY <2>1, <1>0, WorkersAreThreads
  <1>5. ASSUME NEW t \in Workers, NEW s \in Sessions, NEW l \in Lists, CreateSession(t, s, l)
        PROVE  Old \/ New
    <2>1. /\ Placed(t, "start", l, clock, FALSE, NoOne)
          /\ serving'[t] = s /\ (\A v \in Workers \ {t} : serving'[v] = serving[v])
          /\ stage'[s] = "creating" /\ listOf'[s] = l
      BY <1>i, <1>5, <1>c, WorkersAreThreads DEF CreateSession, HubTyped
    <2>2. CASE u = t
      BY <2>1, <2>2, FirstSteps DEF Placed
    <2>3. CASE u # t
      BY <1>i, <2>1, <2>3, <1>k DEF Placed
    <2> QED BY <2>2, <2>3
  <1>6. ASSUME NEW t \in Workers, NEW s \in Sessions, StartActive(t, s) \/ CompleteSession(t, s)
        PROVE  Old
    <2>1. ASSUME NEW op \in {"mark", "end"}, NEW l, NEW started,
                 CallStore(t, op, l, started, NoOne),
                 \A v \in Workers \ {t} : serving'[v] = serving[v]
          PROVE  Old
      <3>1. Placed(t, op, l, clock, started, NoOne)
        BY <2>1, <1>c, WorkersAreThreads
      <3> QED BY <2>1, <3>1, <1>0, WorkersAreThreads
    <2>2. \A v \in Workers \ {t} : serving'[v] = serving[v]
      BY <1>i, <1>6 DEF StartActive, CompleteSession
    <2>3. CASE StartActive(t, s)
      BY <2>1, <2>2, <2>3 DEF StartActive
    <2>4. CASE CompleteSession(t, s)
      BY <2>1, <2>2, <2>4 DEF CompleteSession
    <2> QED BY <1>6, <2>3, <2>4
  <1>7. ASSUME NEW t \in Threads, Statements(t) PROVE Old
    <2>1. Effect(t) /\ serving' = serving /\ calls'[u].op = calls[u].op
      BY <1>i, <1>7, StatementEffect, StatementKeepsOp DEF Statements
    <2>2. CASE u # t
      BY <1>i, <2>1, <2>2, <1>k, OthersStay
    <2>3. CASE u = t
      BY <2>1, <2>3 DEF Old
    <2> QED BY <2>2, <2>3
  <1>8. ASSUME (\E s \in Sessions : NextRound(s)) \/ TimePasses \/ UNCHANGED allVars PROVE Old
    BY <1>8, <1>k DEF NextRound, TimePasses, Tick, allVars, vars
  <1>9. ASSUME TakeTask PROVE Old
    <2>1. serving' = serving
      BY <1>9 DEF TakeTask
    <2>2. CASE UNCHANGED vars
      BY <2>1, <2>2, <1>k DEF vars
    <2>3. CASE CallStore(Recorder, "stage", listOf[Head(tasks)[1]], FALSE, Head(tasks))
      <3>1. Placed(Recorder, "stage", listOf[Head(tasks)[1]], clock, FALSE, Head(tasks))
        BY <2>3, <1>c, WorkersAreThreads
      <3> QED BY <2>1, <3>1, <1>0, WorkersAreThreads
    <2> QED BY <1>9, <2>2, <2>3 DEF TakeTask
  <1>10. ASSUME TaskStaged PROVE Old
    <2>1. Return(Recorder) /\ serving' = serving
      BY <1>10 DEF TaskStaged
    <2> QED BY <2>1, <1>r, WorkersAreThreads
  <1>11. ASSUME ServerCrashes PROVE FALSE
    BY <1>11, <1>i DEF ServerCrashes, Crash, Idle
  <1>12. Old \/ New
    BY <1>1, <1>2, <1>3, <1>4, <1>5, <1>6, <1>7, <1>8, <1>9, <1>10, <1>11 DEF GamesNext
  <1> QED BY <1>12 DEF Old

\* A call of EndSession serves a session that exists.
LEMMA EndCalls ==
  ASSUME GamesInv, HubTyped, RoutesInv, [GamesNext]_allVars, NEW u \in Workers,
         calls'[u].op = "end"
  PROVE  \/ calls[u].op \in {"start", "end"} /\ serving'[u] = serving[u]
         \/ stage'[serving'[u]] # "none"
  <1> DEFINE Old == calls[u].op \in {"start", "end"} /\ serving'[u] = serving[u]
  <1> USE DEF hub, recording, history
  <1>i. TypeInv /\ serving \in [Workers -> Sessions \cup {NoOne}] /\ u \in Threads
    BY WorkersAreThreads DEF GamesInv, HubInv
  <1>k. ASSUME calls'[u] = calls[u], serving'[u] = serving[u] PROVE Old
    BY <1>k
  <1>0. ASSUME NEW t \in Threads, NEW op, NEW l, NEW now, NEW started, NEW r,
               Placed(t, op, l, now, started, r), op # "end",
               \A v \in Workers \ {t} : serving'[v] = serving[v]
        PROVE  Old
    BY <1>i, <1>0 DEF Placed
  <1>c. ASSUME NEW t \in Threads, NEW op, NEW l, NEW started, NEW r,
               CallStore(t, op, l, started, r)
        PROVE  Placed(t, op, l, clock, started, r)
    BY <1>i, <1>c, CallPlaces DEF CallStore, CallOn
  <1>r. ASSUME NEW t \in Threads, Return(t), \A v \in Workers \ {t} : serving'[v] = serving[v]
        PROVE  Old
    <2>1. /\ \A v \in Threads \ {t} : calls'[v] = calls[v]
          /\ calls'[t].op = "none"
      BY <1>i, <1>r, ReturnPlaces
    <2> QED BY <1>i, <1>r, <2>1
  <1> HIDE DEF Old
  <1>1. ASSUME NEW t \in Workers, NEW l \in Lists, MasterCalls(t, l) PROVE Old
    <2>1. serving' = serving
      BY <1>1 DEF MasterCalls
    <2>2. CASE CreateList(t, l)
      <3>1. Call(t, "create", l, FALSE, NoOne)
        BY <2>2 DEF CreateList
      <3>2. Placed(t, "create", l, clock, FALSE, NoOne)
        BY <1>i, <3>1, CallPlaces, WorkersAreThreads
      <3> QED BY <2>1, <3>2, <1>0, WorkersAreThreads
    <2>3. ASSUME NEW op \in {"extend", "force"}, CallStore(t, op, l, FALSE, NoOne) PROVE Old
      <3>1. Placed(t, op, l, clock, FALSE, NoOne)
        BY <2>3, <1>c, WorkersAreThreads
      <3> QED BY <2>1, <3>1, <1>0, WorkersAreThreads
    <2> QED BY <1>1, <2>2, <2>3 DEF MasterCalls
  <1>2. ASSUME NEW t \in Workers,
               \/ MasterCallReturns(t) \/ ServerUp(t) \/ SessionCreated(t) \/ SessionMarked(t)
               \/ SessionCompleted(t)
        PROVE  Old
    <2>1. Return(t)
      BY <1>2 DEF MasterCallReturns, ServerUp, SessionCreated, SessionMarked, SessionCompleted,
                  ReturnStore
    <2>2. \A v \in Workers \ {t} : serving'[v] = serving[v]
      BY <1>i, <1>2
      DEF MasterCallReturns, ServerUp, SessionCreated, SessionMarked, SessionCompleted
    <2> QED BY <2>1, <2>2, <1>r, WorkersAreThreads
  <1>3. ASSUME NEW t \in Workers, ServerStarts(t) PROVE Old
    <2>1. Call(t, "startup", NoOne, FALSE, NoOne) /\ serving' = serving
      BY <1>3 DEF ServerStarts, StartUp
    <2>2. Placed(t, "startup", NoOne, clock, FALSE, NoOne)
      BY <1>i, <2>1, CallPlaces, WorkersAreThreads
    <2> QED BY <2>1, <2>2, <1>0, WorkersAreThreads
  <1>4. ASSUME NEW t \in Workers, WrongRounds(t) PROVE Old
    <2>1. /\ Placed(t, "end", calls[t].list, calls[t].now, FALSE, NoOne) /\ serving' = serving
          /\ calls[t].op = "start"
      BY <1>i, <1>4, TakeBackPlaces, WorkersAreThreads DEF WrongRounds, TakeBack, Returned
    <2>2. CASE u = t
      BY <2>1, <2>2 DEF Old
    <2>3. CASE u # t
      BY <1>i, <2>1, <2>3, <1>k DEF Placed
    <2> QED BY <2>2, <2>3
  <1>5. ASSUME NEW t \in Workers, NEW s \in Sessions, NEW l \in Lists, CreateSession(t, s, l)
        PROVE  Old
    <2>1. /\ Placed(t, "start", l, clock, FALSE, NoOne)
          /\ (\A v \in Workers \ {t} : serving'[v] = serving[v])
      BY <1>i, <1>5, <1>c, WorkersAreThreads DEF CreateSession
    <2> QED BY <2>1, <1>0, WorkersAreThreads
  <1>6. ASSUME NEW t \in Workers, NEW s \in Sessions, StartActive(t, s) PROVE Old
    <2>1. /\ Placed(t, "mark", listOf[s], clock, FALSE, NoOne)
          /\ \A v \in Workers \ {t} : serving'[v] = serving[v]
      BY <1>i, <1>6, <1>c, WorkersAreThreads DEF StartActive
    <2> QED BY <2>1, <1>0, WorkersAreThreads
  <1>12. ASSUME NEW t \in Workers, NEW s \in Sessions, CompleteSession(t, s)
        PROVE  Old \/ stage'[serving'[u]] # "none"
    <2>1. /\ Placed(t, "end", listOf[s], clock, s \in marked, NoOne)
          /\ serving'[t] = s /\ (\A v \in Workers \ {t} : serving'[v] = serving[v])
          /\ stage'[s] # "none"
      BY <1>i, <1>12, <1>c, WorkersAreThreads DEF CompleteSession, HubTyped
    <2>2. CASE u = t
      BY <2>1, <2>2
    <2>3. CASE u # t
      BY <1>i, <2>1, <2>3, <1>k DEF Placed
    <2> QED BY <2>2, <2>3
  <1>7. ASSUME NEW t \in Threads, Statements(t) PROVE Old
    <2>1. serving' = serving /\ calls'[u].op = calls[u].op
      BY <1>i, <1>7, StatementKeepsOp DEF Statements
    <2> QED BY <2>1 DEF Old
  <1>8. ASSUME (\E s \in Sessions : NextRound(s)) \/ TimePasses \/ UNCHANGED allVars PROVE Old
    BY <1>8, <1>k DEF NextRound, TimePasses, Tick, allVars, vars
  <1>9. ASSUME TakeTask PROVE Old
    <2>1. serving' = serving
      BY <1>9 DEF TakeTask
    <2>2. CASE UNCHANGED vars
      BY <2>1, <2>2, <1>k DEF vars
    <2>3. CASE CallStore(Recorder, "stage", listOf[Head(tasks)[1]], FALSE, Head(tasks))
      <3>1. Placed(Recorder, "stage", listOf[Head(tasks)[1]], clock, FALSE, Head(tasks))
        BY <2>3, <1>c, WorkersAreThreads
      <3> QED BY <2>1, <3>1, <1>0, WorkersAreThreads
    <2> QED BY <1>9, <2>2, <2>3 DEF TakeTask
  <1>10. ASSUME TaskStaged PROVE Old
    <2>1. Return(Recorder) /\ serving' = serving
      BY <1>10 DEF TaskStaged
    <2> QED BY <2>1, <1>r, WorkersAreThreads
  <1>11. ASSUME ServerCrashes PROVE FALSE
    BY <1>11, <1>i DEF ServerCrashes, Crash, Idle
  <1>13. Old \/ stage'[serving'[u]] # "none"
    BY <1>1, <1>2, <1>3, <1>4, <1>5, <1>6, <1>7, <1>8, <1>9, <1>10, <1>11, <1>12 DEF GamesNext
  <1> QED BY <1>13 DEF Old

\* StartSession goes on, and succeeds, only with a row.
LEMMA StartNeedsRow ==
  ASSUME TypeInv, RoutesInv, NumbersInv, NEW u \in Threads, Effect(u), calls[u].op = "start"
  PROVE  /\ calls'[u].list = calls[u].list /\ calls[u].list \in Lists
         /\ calls'[u].step \in {"write", "commit"} \/ (calls'[u].step = "done" /\ calls'[u].ok) =>
              \/ calls[u].step \in {"write", "commit"}
              \/ Settled(calls[u].list)
  <1>1. /\ calls[u].step \in {"begin", "read", "write", "commit", "rollback", "done"}
        /\ calls[u].list \in Lists
    BY DEF RoutesInv, StepsOf, TypeInv, ListKnown
  <1>2. Began(u) \/ NotBegun(u) \/ DidRead(u) \/ DidWrite(u) \/ Committed(u) \/ RolledBack(u)
    BY <1>1 DEF Effect, Collected, ErasedRecords, ErasedList, DeliveredOne, DeliveredAll, Inserted,
                Marked, Looked, Staged, WasReset, Chose, Swept
  <1>3. calls'[u].list = calls[u].list
    BY <1>2 DEF Began, NotBegun, DidRead, DidWrite, Committed, RolledBack, GoesTo, Ends
  <1>4. CASE DidRead(u)
    <2>1. calls'[u].step = AfterRead(calls[u], lists[calls[u].list]) /\ calls[u].step = "read"
      BY <1>4 DEF DidRead, GoesTo
    <2>2. calls'[u].step \in {"rollback", "write"}
          /\ (calls'[u].step = "write" => lists[calls[u].list].exists)
      BY <2>1, ReadChoices
    <2>3. calls'[u].step = "write" => Settled(calls[u].list)
      BY <1>1, <2>2, RowsSettled
    <2> QED BY <1>1, <1>3, <2>2, <2>3
  <1>5. CASE Began(u) \/ NotBegun(u) \/ RolledBack(u)
    BY <1>1, <1>3, <1>5 DEF Began, NotBegun, RolledBack, GoesTo, Ends
  <1>6. CASE DidWrite(u) \/ Committed(u)
    BY <1>1, <1>3, <1>6 DEF DidWrite, Committed, GoesTo, Ends
  <1> QED BY <1>2, <1>4, <1>5, <1>6

LEMMA PlayStep ==
  ASSUME GamesInv, HubTyped, RoutesInv, NumbersInv, HiddenInv, [GamesNext]_allVars
  PROVE  PlayInv'
  <1>0. TypeInv /\ IdleDone /\ [Next]_vars /\ PlayInv /\ HubTyped' /\ Serves /\ HubInv'
    BY IdleIsDone, StepsOfStore, HubTypedStep, HubNext DEF GamesInv, HubInv, HiddenInv
  <1> DEFINE SettledNext(l) ==
        l \in issued' /\ \A t \in Threads : calls'[t].step = "insert" => calls'[t].list # l
  <1>s. \A l \in Lists : Settled(l) => SettledNext(l)
    <2>1. \A l \in Lists : Settled(l) => Settled(l)'
      BY <1>0, SettledKept
    <2> QED BY <2>1 DEF Settled
  <1> HIDE DEF SettledNext
  <1>1. ASSUME NEW s \in Sessions, stage'[s] # "none" PROVE listOf'[s] \in Lists
    <2>1. CASE stage[s] # "none"
      BY <1>0, <2>1, SessionsStay DEF PlayInv
    <2>2. CASE stage[s] = "none"
      BY <1>0, <1>1, <2>2, ListsChosen
    <2> QED BY <2>1, <2>2
  <1>2. ASSUME NEW s \in Sessions, stage'[s] \in {"pending", "active", "ending"}
        PROVE  SettledNext(listOf'[s])
    <2>1. CASE stage[s] \in {"pending", "active", "ending"}
      <3>1. listOf[s] \in Lists /\ Settled(listOf[s]) /\ listOf'[s] = listOf[s]
        BY <1>0, <2>1, SessionsStay DEF PlayInv
      <3> QED BY <1>s, <3>1
    <2>2. CASE stage[s] \notin {"pending", "active", "ending"}
      <3>1. PICK t \in Workers : Returned(t, "start") /\ calls[t].ok /\ serving[t] = s
        BY <1>2, <2>2, PlayBegins
      <3>2. stage[s] # "none" /\ listOf[s] = calls[t].list /\ Settled(listOf[s])
        BY <1>0, <3>1 DEF PlayInv, Returned
      <3>3. listOf[s] \in Lists /\ listOf'[s] = listOf[s]
        BY <1>0, <3>2, SessionsStay DEF PlayInv
      <3> QED BY <1>s, <3>2, <3>3
    <2> QED BY <2>1, <2>2
  <1>3. ASSUME NEW u \in Workers, calls'[u].op = "start"
        PROVE  /\ stage'[serving'[u]] # "none" /\ listOf'[serving'[u]] = calls'[u].list
               /\ calls'[u].step \in {"write", "commit"} \/ (calls'[u].step = "done" /\ calls'[u].ok)
                    => SettledNext(calls'[u].list)
    <2>0. u \in Threads
      BY WorkersAreThreads
    <2>1. CASE calls[u].op = "start" /\ serving'[u] = serving[u] /\ calls'[u] = calls[u]
      <3>1. /\ stage[serving[u]] # "none" /\ listOf[serving[u]] = calls[u].list
            /\ serving[u] \in Sessions
        BY <1>0, <2>1 DEF PlayInv, Serves
      <3>2. stage'[serving[u]] # "none" /\ listOf'[serving[u]] = calls[u].list
            /\ calls[u].list \in Lists
        BY <1>0, <3>1, SessionsStay DEF PlayInv
      <3> QED BY <1>0, <1>s, <2>1, <3>2 DEF PlayInv
    <2>2. CASE calls[u].op = "start" /\ serving'[u] = serving[u] /\ Effect(u)
      <3>1. /\ stage[serving[u]] # "none" /\ listOf[serving[u]] = calls[u].list
            /\ serving[u] \in Sessions
        BY <1>0, <2>2 DEF PlayInv, Serves
      <3>2. stage'[serving[u]] # "none" /\ listOf'[serving[u]] = calls[u].list
        BY <1>0, <3>1, SessionsStay
      <3>3. /\ calls'[u].list = calls[u].list /\ calls[u].list \in Lists
            /\ calls'[u].step \in {"write", "commit"} \/ (calls'[u].step = "done" /\ calls'[u].ok) =>
                 calls[u].step \in {"write", "commit"} \/ Settled(calls[u].list)
        BY <1>0, <2>0, <2>2, StartNeedsRow
      <3>4. calls[u].step \in {"write", "commit"} => Settled(calls[u].list)
        BY <1>0, <2>2 DEF PlayInv
      <3> QED BY <1>s, <2>2, <3>2, <3>3, <3>4
    <2>3. CASE /\ calls'[u].step = "begin"
               /\ stage'[serving'[u]] # "none" /\ listOf'[serving'[u]] = calls'[u].list
      BY <2>3
    <2> QED BY <1>3, <2>1, <2>2, <2>3, StartCalls
  <1>4. ASSUME NEW u \in Workers, calls'[u].op = "end" PROVE stage'[serving'[u]] # "none"
    <2>1. CASE calls[u].op \in {"start", "end"} /\ serving'[u] = serving[u]
      <3>1. stage[serving[u]] # "none" /\ serving[u] \in Sessions
        BY <1>0, <2>1 DEF PlayInv, Serves
      <3> QED BY <1>0, <2>1, <3>1, SessionsStay
    <2> QED BY <1>4, <2>1, EndCalls
  <1> QED BY <1>1, <1>2, <1>3, <1>4 DEF PlayInv, Settled, SettledNext

LEMMA HiddenStart == GamesInit => HiddenInv
  <1> SUFFICES ASSUME GamesInit PROVE HiddenInv
    OBVIOUS
  <1>1. Idle.op = "none" /\ Idle.step = "done" /\ Idle.payloads = {}
    BY DEF Idle
  <1>2. \A t \in Threads : calls[t] = Idle
    BY DEF GamesInit, Init
  <1>3. SavedInv
    BY NothingSaved DEF GamesInit, Init, SavedInv
  <1>4. PayloadsInv
    BY <1>1, <1>2 DEF PayloadsInv
  <1>5. KnownInv
    <2>1. staged = {} /\ saved.staged = {} /\ stats = {} /\ Len(tasks) = 0
      BY DEF GamesInit, Init, NoTables
    <2> QED BY <1>1, <1>2, <2>1 DEF KnownInv
  <1>6. PlayInv
    BY <1>1, <1>2, WorkersAreThreads DEF GamesInit, PlayInv
  <1> QED BY <1>3, <1>4, <1>5, <1>6 DEF HiddenInv

LEMMA HiddenStep ==
  ASSUME GamesInv, HubTyped, RoutesInv, NumbersInv, HiddenInv, [GamesNext]_allVars
  PROVE  HiddenInv'
  <1>0. TypeInv /\ IdleDone /\ [Next]_vars /\ SavedInv /\ PayloadsInv
    BY IdleIsDone, StepsOfStore DEF GamesInv, HiddenInv
  <1>1. PayloadLists
    <2>1. ASSUME NEW t \in Threads, NEW r \in calls[t].payloads
          PROVE  calls[t].list \in Lists /\ Settled(calls[t].list)
      BY <2>1 DEF HiddenInv, KnownInv, Known
    <2> QED BY <2>1 DEF PayloadLists
  <1>2. SavedInv' /\ PayloadsInv'
    BY <1>0, <1>1, SavedStep, PayloadsStep
  <1>3. KnownInv' /\ PlayInv'
    BY KnownStep, PlayStep
  <1> QED BY <1>2, <1>3 DEF HiddenInv

-----------------------------------------------------------------------------
(* The invariant of duplicate games                                          *)

DuplicatesInv == GamesInv /\ HubTyped /\ RoutesInv /\ NumbersInv /\ HiddenInv

LEMMA DuplicatesInvHolds == GamesSpec => []DuplicatesInv
  <1>1. GamesInit => DuplicatesInv
    BY TypeInit, HubInit, HubTypedInit, RoutesInit, NumbersInit, HiddenStart
    DEF GamesInit, GamesInv, DuplicatesInv
  <1>2. DuplicatesInv /\ [GamesNext]_allVars => DuplicatesInv'
    <2> SUFFICES ASSUME DuplicatesInv, [GamesNext]_allVars PROVE DuplicatesInv'
      OBVIOUS
    <2>1. GamesInv /\ HubTyped /\ RoutesInv /\ NumbersInv /\ HiddenInv
      BY DEF DuplicatesInv
    <2>2. TypeInv /\ [Next]_vars
      BY <2>1, StepsOfStore DEF GamesInv
    <2>3. GamesInv'
      BY <2>1, <2>2, TypeNext, HubNext DEF GamesInv
    <2>4. RoutesInv' /\ NumbersInv'
      BY <2>1, <2>2, IdleIsDone, RoutesStep, NumbersNext
    <2>5. HubTyped' /\ HiddenInv'
      BY <2>1, HubTypedStep, HiddenStep
    <2> QED BY <2>3, <2>4, <2>5 DEF DuplicatesInv
  <1> QED BY <1>1, <1>2, PTL DEF GamesSpec

\* A record reaches the statistics only when its list is gone (its file can be
\* read as a replay before that): ReleaseSeedList
\* hands records over after the COMMIT that destroys the list, a record that
\* cannot be staged is refused because there is no list, and no rollback, crash
\* or later call brings a list back.
THEOREM HiddenFromStatisticsHolds == GamesSpec => []HiddenFromStatistics
  <1>1. DuplicatesInv => HiddenFromStatistics
    BY DEF DuplicatesInv, HiddenInv, KnownInv, Buried, HiddenFromStatistics
  <1> QED BY <1>1, DuplicatesInvHolds, PTL

\* The hub and the record manager keep their shapes.
THEOREM GamesTypeCorrect == GamesSpec => []GamesTypeOK
  <1>1. DuplicatesInv => GamesTypeOK
    BY DEF DuplicatesInv, GamesInv, HubInv, TypeInv, HubTyped, GamesTypeOK
  <1> QED BY <1>1, DuplicatesInvHolds, PTL

-----------------------------------------------------------------------------
(* Calls one at a time                                                       *)

\* As long as no two calls have overlapped, at most one is in flight.
Sole == ~overlapped => \A t, u \in Threads : ~Free(t) /\ ~Free(u) => t = u

\* What a call of the store leaves alone.
LEMMA Called ==
  ASSUME TypeInv, NEW t \in Threads, NEW op, NEW l, NEW started, NEW r,
         CallStore(t, op, l, started, r)
  PROVE  /\ Placed(t, op, l, clock, started, r) /\ Free(t) /\ NoteOverlap(t)
         /\ up /\ SameTables /\ SameTransaction
         /\ UNCHANGED <<issued, stats, up, clock, crashes>>
  BY CallPlaces DEF CallStore, CallOn, tables, transaction, rest, SameTables, SameTransaction

LEMMA Returns ==
  ASSUME TypeInv, NEW t \in Threads, ReturnStore(t)
  PROVE  /\ \A u \in Threads \ {t} : calls'[u] = calls[u]
         /\ calls'[t].op = "none" /\ calls'[t].step = "done" /\ calls'[t].payloads = {}
         /\ calls[t].step = "done" /\ calls[t].op # "none"
         /\ SameTables /\ SameTransaction /\ UNCHANGED <<issued, stats, clock, crashes>>
  BY ReturnPlaces DEF ReturnStore, tables, transaction, SameTables, SameTransaction

\* A thread whose statement runs is in a call.
LEMMA RunningInFlight ==
  ASSUME TypeInv, RoutesInv, NEW t \in Threads, Effect(t)
  PROVE  ~Free(t)
  <1>1. SUFFICES ASSUME Free(t) PROVE calls[t].step = "done"
    BY DEF Effect, Began, NotBegun, DidRead, DidWrite, Committed, RolledBack, Collected,
       ErasedRecords, ErasedList, DeliveredOne, DeliveredAll, Inserted, Marked, Looked, Staged,
       WasReset, Chose, Swept
  <1> QED BY <1>1 DEF RoutesInv, StepsOf, Free

LEMMA SoleStep ==
  ASSUME GamesInv, HubTyped, Sole, [GamesNext]_allVars
  PROVE  Sole' /\ (overlapped => overlapped')
  <1> DEFINE Goal == /\ ~overlapped' => \A v, w \in Threads :
                            calls'[v].op # "none" /\ calls'[w].op # "none" => v = w
                     /\ overlapped => overlapped'
  <1> USE DEF hub, recording, history, Free
  <1>i. TypeInv
    BY DEF GamesInv
  <1>c. ASSUME NEW t \in Threads, Free(t), \A u \in Threads \ {t} : calls'[u] = calls[u],
               NoteOverlap(t)
        PROVE  Goal
    <2>1. overlapped => overlapped'
      BY <1>c DEF NoteOverlap
    <2>2. ASSUME ~overlapped' PROVE \A u \in Threads \ {t} : calls[u].op = "none"
      <3>1. InFlight \ {t} = {}
        BY <1>c, <2>2 DEF NoteOverlap
      <3> QED BY <3>1 DEF InFlight
    <2> QED BY <1>c, <2>1, <2>2
  <1>n. ASSUME \A u \in Threads : calls'[u].op \in {calls[u].op, "none"},
               overlapped' = overlapped
        PROVE  Goal
    BY <1>n DEF Sole
  <1>o. ASSUME NEW t \in Threads, ~Free(t), \A u \in Threads \ {t} : calls'[u] = calls[u],
               overlapped' = overlapped
        PROVE  Goal
    BY <1>o DEF Sole
  <1>s. ASSUME NEW t \in Threads, NEW op, NEW l, NEW started, NEW r,
               CallStore(t, op, l, started, r)
        PROVE  Goal
    BY <1>i, <1>s, <1>c, Called DEF Placed
  <1>r. ASSUME NEW t \in Threads, Return(t), overlapped' = overlapped PROVE Goal
    BY <1>i, <1>r, <1>n, ReturnPlaces
  <1> HIDE DEF Goal
  <1>1. ASSUME NEW t \in Workers, NEW l \in Lists, MasterCalls(t, l) PROVE Goal
    <2>1. CASE CreateList(t, l) /\ NoteOverlap(t)
      <3>1. Call(t, "create", l, FALSE, NoOne)
        BY <2>1 DEF CreateList
      <3>2. Placed(t, "create", l, clock, FALSE, NoOne) /\ Free(t)
        BY <1>i, <3>1, CallPlaces, WorkersAreThreads
      <3> QED BY <2>1, <3>2, <1>c, WorkersAreThreads DEF Placed
    <2> QED BY <1>1, <2>1, <1>s, WorkersAreThreads DEF MasterCalls
  <1>2. ASSUME NEW t \in Workers,
               \/ MasterCallReturns(t) \/ ServerUp(t) \/ SessionCreated(t) \/ SessionMarked(t)
               \/ SessionCompleted(t)
        PROVE  Goal
    <2>1. Return(t) /\ overlapped' = overlapped
      BY <1>2 DEF MasterCallReturns, ServerUp, SessionCreated, SessionMarked, SessionCompleted,
                  ReturnStore
    <2> QED BY <2>1, <1>r, WorkersAreThreads
  <1>3. ASSUME NEW t \in Workers, ServerStarts(t) PROVE Goal
    <2>1. Call(t, "startup", NoOne, FALSE, NoOne) /\ InFlight = {} /\ overlapped' = overlapped
      BY <1>3 DEF ServerStarts, StartUp
    <2>2. Placed(t, "startup", NoOne, clock, FALSE, NoOne) /\ Free(t)
      BY <1>i, <2>1, CallPlaces, WorkersAreThreads
    <2>3. NoteOverlap(t)
      BY <2>1 DEF NoteOverlap, HubTyped
    <2> QED BY <2>2, <2>3, <1>c, WorkersAreThreads DEF Placed
  <1>4. ASSUME NEW t \in Workers, WrongRounds(t) PROVE Goal
    <2>1. Placed(t, "end", calls[t].list, calls[t].now, FALSE, NoOne) /\ overlapped' = overlapped
          /\ ~Free(t)
      BY <1>i, <1>4, TakeBackPlaces, WorkersAreThreads DEF WrongRounds, TakeBack, Returned
    <2> QED BY <2>1, <1>o, WorkersAreThreads DEF Placed
  <1>5. ASSUME NEW t \in Workers, NEW s \in Sessions,
               (\E l \in Lists : CreateSession(t, s, l)) \/ StartActive(t, s)
               \/ CompleteSession(t, s)
        PROVE  Goal
    BY <1>5, <1>s, WorkersAreThreads DEF CreateSession, StartActive, CompleteSession
  <1>6. ASSUME NEW t \in Threads, Statements(t) PROVE Goal
    <2>1. overlapped' = overlapped /\ \A u \in Threads : calls'[u].op = calls[u].op
      BY <1>i, <1>6, StatementKeepsOp DEF Statements
    <2> QED BY <2>1, <1>n
  <1>7. ASSUME (\E s \in Sessions : NextRound(s)) \/ TimePasses \/ UNCHANGED allVars PROVE Goal
    BY <1>7, <1>n DEF NextRound, TimePasses, Tick, allVars, vars
  <1>8. ASSUME TakeTask PROVE Goal
    <2>1. CASE UNCHANGED <<vars, overlapped>>
      BY <2>1, <1>n DEF vars
    <2>2. CASE CallStore(Recorder, "stage", listOf[Head(tasks)[1]], FALSE, Head(tasks))
      BY <2>2, <1>s, WorkersAreThreads
    <2> QED BY <1>8, <2>1, <2>2 DEF TakeTask
  <1>9. ASSUME TaskStaged PROVE Goal
    <2>1. Return(Recorder) /\ overlapped' = overlapped
      BY <1>9 DEF TaskStaged
    <2> QED BY <2>1, <1>r, WorkersAreThreads
  <1>10. ASSUME ServerCrashes PROVE Goal
    BY <1>10, <1>n DEF ServerCrashes, Crash, Idle
  <1>11. Goal
    BY <1>1, <1>2, <1>3, <1>4, <1>5, <1>6, <1>7, <1>8, <1>9, <1>10 DEF GamesNext
  <1> QED BY <1>11 DEF Goal, Sole

-----------------------------------------------------------------------------
(* Staged records and their lists                                            *)

\* Every staged record has its list, in the rows to roll back to as well, if no
\* calls overlap: what a call has read of the list stays true until it ends.
OrphansInv ==
    ~overlapped =>
        /\ \A p \in staged : lists[p[1]].exists
        /\ owner # NoOne => \A p \in saved.staged : saved.lists[p[1]].exists
        /\ \A t \in Threads :
              /\ calls[t].step = "stage" => lists[calls[t].list].exists
              /\ calls[t].step = "erase list" => \A p \in staged : p[1] # calls[t].list

LEMMA OrphansStep ==
  ASSUME DuplicatesInv, Sole, OrphansInv, [GamesNext]_allVars
  PROVE  OrphansInv'
  <1>0. /\ GamesInv /\ TypeInv /\ RoutesInv /\ IdleDone /\ NumbersInv /\ [Next]_vars /\ HubTyped
        /\ TypeInv'
    BY IdleIsDone, StepsOfStore, TypeNext DEF DuplicatesInv, GamesInv
  <1>1. SUFFICES ASSUME ~overlapped' PROVE OrphansInv'
    BY DEF OrphansInv
  <1>2. ~overlapped /\ Sole'
    BY <1>0, <1>1, SoleStep
  <1>3. /\ \A p \in staged : p \in Lists \X Records /\ lists[p[1]].exists
        /\ owner # NoOne => \A p \in saved.staged : saved.lists[p[1]].exists
        /\ \A t \in Threads :
              /\ calls[t].step = "stage" => lists[calls[t].list].exists
              /\ calls[t].step = "erase list" => \A p \in staged : p[1] # calls[t].list
    BY <1>0, <1>2 DEF OrphansInv, TypeInv, TypeOK
  <1>4. ASSUME NEW t \in Threads, Effect(t) PROVE OrphansInv'
    <2>1. \A u \in Threads \ {t} : calls'[u].step = "done"
      <3>1. \A u \in Threads \ {t} : Free(u)
        BY <1>0, <1>2, <1>4, RunningInFlight DEF Sole
      <3> QED BY <1>0, <1>4, <3>1, OthersStay DEF IdleDone
    <2>o. /\ calls[t].step \in InTransaction <=> owner = t
          /\ t # NoOne
      BY <1>0, NoOneAssumption DEF NumbersInv, OwnerInTransaction
    <2>2. \A p \in staged' : lists'[p[1]].exists
      <3>1. ASSUME NEW p \in staged', p \in staged, ~lists'[p[1]].exists PROVE FALSE
        <4>1. p[1] \in Lists /\ lists[p[1]].exists
          BY <1>3, <3>1
        <4>2. CASE ErasedList(t) /\ p[1] = calls[t].list
          BY <1>3, <3>1, <4>2 DEF ErasedList
        <4>3. CASE RolledBack(t)
          BY <1>3, <2>o, <3>1, <4>3 DEF RolledBack, InTransaction
        <4> QED BY <1>0, <1>4, <3>1, <4>1, <4>2, <4>3, RowsVanish
      <3>2. ASSUME NEW p \in staged', p \notin staged PROVE lists'[p[1]].exists
        <4>1. RolledBack(t) \/ Staged(t)
          BY <1>4, <3>2 DEF Effect, Began, NotBegun, DidRead, DidWrite, Committed, Collected,
             ErasedRecords, ErasedList, DeliveredOne, DeliveredAll, Inserted, Marked, Looked,
             WasReset, Chose, Swept, SameTables
        <4>2. CASE RolledBack(t)
          BY <1>3, <2>o, <4>2 DEF RolledBack, InTransaction
        <4>3. CASE Staged(t)
          <5>1. p = <<calls[t].list, calls[t].record>> /\ calls[t].step = "stage" /\ lists' = lists
            BY <3>2, <4>3 DEF Staged
          <5> QED BY <1>3, <5>1
        <4> QED BY <4>1, <4>2, <4>3
      <3> QED BY <3>1, <3>2
    <2>3. owner' # NoOne => \A p \in saved'.staged : saved'.lists[p[1]].exists
      BY <1>0, <1>3, <1>4, TransactionChanges DEF SameTransaction, Began
    <2>4. calls'[t].step = "stage" => lists'[calls'[t].list].exists
      <3>1. calls'[t].step = "stage" => Looked(t)
        <4>1. AfterRead(calls[t], lists[calls[t].list]) # "stage"
          BY DEF AfterRead
        <4> QED BY <1>4, <4>1 DEF Effect, Began, NotBegun, DidRead, DidWrite, Committed,
               RolledBack, Collected, ErasedRecords, ErasedList, DeliveredOne, DeliveredAll,
               Inserted, Marked, Staged, WasReset, Chose, Swept, GoesTo, Ends
      <3> QED BY <3>1 DEF Looked, SameTables, GoesTo, Ends
    <2>5. calls'[t].step = "erase list" => \A p \in staged' : p[1] # calls'[t].list
      <3>1. calls'[t].step = "erase list" => ErasedRecords(t)
        <4>1. AfterRead(calls[t], lists[calls[t].list]) # "erase list"
          BY DEF AfterRead
        <4> QED BY <1>4, <4>1 DEF Effect, Began, NotBegun, DidRead, DidWrite, Committed,
               RolledBack, Collected, ErasedList, DeliveredOne, DeliveredAll,
               Inserted, Marked, Looked, Staged, WasReset, Chose, Swept, GoesTo, Ends
      <3> QED BY <3>1 DEF ErasedRecords, GoesTo
    <2> QED BY <2>1, <2>2, <2>3, <2>4, <2>5 DEF OrphansInv
  <1>5. ASSUME NEW t \in Threads, Enters(t) PROVE OrphansInv'
    BY <1>3, <1>5 DEF Enters, SameTables, SameTransaction, OrphansInv
  <1>6. CASE Crashes
    BY <1>3, <1>6 DEF Crashes, OrphansInv
  <1>7. CASE Rests
    BY <1>3, <1>7 DEF Rests, SameTables, SameTransaction, OrphansInv
  <1> QED BY <1>0, <1>4, <1>5, <1>6, <1>7, StepEffect

\* With calls one at a time no staged record is left without its list, whatever
\* fails and wherever the server crashes: DELETE of records and list are in one
\* transaction, and StageRecord's look at the list still holds at its INSERT.
THEOREM NoOrphansHolds == GamesSpec => []NoOrphans
  <1>1. GamesInit => Sole /\ OrphansInv
    BY DEF GamesInit, Init, Sole, Free, Idle, OrphansInv
  <1>2. DuplicatesInv /\ Sole /\ OrphansInv /\ [GamesNext]_allVars => Sole' /\ OrphansInv'
    BY SoleStep, OrphansStep DEF DuplicatesInv
  <1>3. DuplicatesInv /\ Sole /\ OrphansInv => NoOrphans
    BY DEF OrphansInv, NoOrphans
  <1> QED BY <1>1, <1>2, <1>3, DuplicatesInvHolds, PTL DEF GamesSpec

-----------------------------------------------------------------------------
(* Records on disk and where they go                                         *)

\* With calls one at a time: what a call has found or done is still so when it
\* returns, and all that it will erase is in its hands.
HeldInv ==
    ~overlapped =>
        \A t \in Threads :
          LET c == calls[t] IN
          /\ c.op = "stage" /\ c.step = "done" /\ c.ok => <<c.list, c.record>> \in staged
          /\ c.step = "erase records" => \A p \in staged : p[1] = c.list => p[2] \in c.payloads
          /\ c.step \in {"read", "rollback"} => saved.staged = staged

LEMMA HeldStep ==
  ASSUME DuplicatesInv, Sole, HeldInv, [GamesNext]_allVars
  PROVE  HeldInv'
  <1>0. /\ GamesInv /\ TypeInv /\ RoutesInv /\ IdleDone /\ NumbersInv /\ [Next]_vars /\ HubTyped
    BY IdleIsDone, StepsOfStore DEF DuplicatesInv, GamesInv
  <1>1. SUFFICES ASSUME ~overlapped' PROVE HeldInv'
    BY DEF HeldInv
  <1>2. ~overlapped /\ Sole'
    BY <1>0, <1>1, SoleStep
  <1>4. ASSUME NEW t \in Threads, Effect(t), NEW u \in Threads
        PROVE  /\ calls'[u].op = "stage" /\ calls'[u].step = "done" /\ calls'[u].ok =>
                    <<calls'[u].list, calls'[u].record>> \in staged'
               /\ calls'[u].step = "erase records" =>
                    \A p \in staged' : p[1] = calls'[u].list => p[2] \in calls'[u].payloads
               /\ calls'[u].step \in {"read", "rollback"} => saved'.staged = staged'
    <2>1. CASE u # t
      <3>1. Free(u) /\ calls'[u] = calls[u]
        BY <1>0, <1>2, <1>4, <2>1, RunningInFlight, OthersStay DEF Sole
      <3> QED BY <1>0, <3>1 DEF IdleDone, Free
    <2>2. CASE u = t
      <3> USE DEF Moves, GoesTo, Ends
      <3>0. AfterRead(calls[t], lists[calls[t].list]) \notin {"read", "erase records", "done"}
        BY DEF AfterRead
      <3>1. ASSUME calls'[t].op = "stage", calls'[t].step = "done", calls'[t].ok
            PROVE  <<calls'[t].list, calls'[t].record>> \in staged'
        <4>1. calls[t].op = "stage"
          BY <1>4, <3>1 DEF Effect, Began, NotBegun, DidRead, DidWrite, Committed, RolledBack,
             Collected, ErasedRecords, ErasedList, DeliveredOne, DeliveredAll, Inserted, Marked,
             Looked, Staged, WasReset, Chose, Swept
        <4>2. Looked(t) \/ Staged(t)
          BY <1>0, <1>4, <4>1 DEF RoutesInv, StepsOf, Effect, Began, NotBegun, DidRead, DidWrite,
             Committed, RolledBack, Collected, ErasedRecords, ErasedList, DeliveredOne,
             DeliveredAll, Inserted, Marked, WasReset, Chose, Swept
        <4> QED BY <3>1, <4>2 DEF Looked, Staged
      <3>2. ASSUME calls'[t].step = "erase records", NEW p \in staged', p[1] = calls'[t].list
            PROVE  p[2] \in calls'[t].payloads
        <4>1. Collected(t)
          BY <1>4, <3>0, <3>2 DEF Effect, Began, NotBegun, DidRead, DidWrite, Committed,
             RolledBack, ErasedRecords, ErasedList, DeliveredOne, DeliveredAll, Inserted, Marked,
             Looked, Staged, WasReset, Chose, Swept
        <4>2. p \in staged /\ staged \subseteq Lists \X Records
          BY <1>0, <3>2, <4>1 DEF Collected, SameTables, TypeInv, TypeOK
        <4>3. p = <<calls[t].list, p[2]>> /\ p[2] \in Records
          <5>1. p = <<p[1], p[2]>> /\ p[2] \in Records
            BY <4>2
          <5>2. p[1] = calls[t].list
            BY <3>2, <4>1 DEF Collected
          <5> QED BY <5>1, <5>2
        <4> QED BY <4>1, <4>2, <4>3 DEF Collected
      <3>3. ASSUME calls'[t].step \in {"read", "rollback"} PROVE saved'.staged = staged'
        <4>1. Began(t) \/ DidRead(t)
          BY <1>4, <3>0, <3>3 DEF Effect, NotBegun, DidWrite, Committed, Collected,
             RolledBack, ErasedRecords, ErasedList, DeliveredOne, DeliveredAll, Inserted, Marked,
             Looked, Staged, WasReset, Chose, Swept
        <4> QED BY <1>2, <4>1 DEF Began, DidRead, SameTables, SameTransaction, HeldInv
      <3> QED BY <2>2, <3>1, <3>2, <3>3
    <2> QED BY <2>1, <2>2
  <1>5. ASSUME NEW t \in Threads, Enters(t) PROVE HeldInv'
    BY <1>2, <1>5 DEF Enters, SameTables, SameTransaction, HeldInv
  <1>6. CASE Crashes
    BY <1>6 DEF Crashes, HeldInv
  <1>7. CASE Rests
    BY <1>2, <1>7 DEF Rests, SameTables, SameTransaction, HeldInv
  <1>8. CASE \E t \in Threads : Effect(t)
    BY <1>4, <1>8 DEF HeldInv
  <1> QED BY <1>0, <1>5, <1>6, <1>7, <1>8, StepEffect

\* With calls one at a time no statement loses a record.
LEMMA NothingLost ==
  ASSUME DuplicatesInv, Sole, HeldInv, [GamesNext]_allVars, ~overlapped, ~Crashes
  PROVE  /\ \A p \in staged : p \in staged' \/ \E t \in Threads : p[2] \in calls'[t].payloads
         /\ \A t \in Threads : \A r \in calls[t].payloads : r \in calls'[t].payloads \/ r \in stats'
         /\ stats \subseteq stats'
  <1>0. /\ TypeInv /\ RoutesInv /\ IdleDone /\ NumbersInv /\ [Next]_vars /\ PayloadsInv
    BY IdleIsDone, StepsOfStore DEF DuplicatesInv, GamesInv, HiddenInv
  <1>1. ASSUME NEW t \in Threads, Effect(t)
        PROVE  /\ \A p \in staged : p \in staged' \/ p[2] \in calls'[t].payloads
               /\ \A r \in calls[t].payloads : r \in calls'[t].payloads \/ r \in stats'
               /\ stats \subseteq stats'
    <2> USE DEF GoesTo, Ends, SameTables, SameServer
    <2>1. CASE \/ Began(t) \/ NotBegun(t) \/ DidRead(t) \/ DidWrite(t) \/ Committed(t)
               \/ ErasedList(t) \/ DeliveredAll(t) \/ Inserted(t) \/ Marked(t) \/ Looked(t)
               \/ Staged(t) \/ WasReset(t) \/ Swept(t)
      BY <2>1 DEF Began, NotBegun, DidRead, DidWrite, Committed, ErasedList, DeliveredAll,
                  Inserted, Marked, Looked, Staged, WasReset, Swept
    <2>2. CASE RolledBack(t)
      <3>1. saved.staged = staged
        BY <2>2 DEF RolledBack, HeldInv
      <3> QED BY <2>2, <3>1 DEF RolledBack
    <2>3. CASE Collected(t)
      BY <1>0, <2>3 DEF Collected, PayloadsInv
    <2>4. CASE ErasedRecords(t)
      <3>1. \A p \in staged : p[1] = calls[t].list => p[2] \in calls[t].payloads
        BY <2>4 DEF ErasedRecords, HeldInv
      <3> QED BY <2>4, <3>1 DEF ErasedRecords
    <2>5. CASE DeliveredOne(t)
      BY <2>5 DEF DeliveredOne
    <2>6. CASE Chose(t)
      BY <2>6 DEF Chose
    <2> QED BY <1>1, <2>1, <2>2, <2>3, <2>4, <2>5, <2>6 DEF Effect
  <1>2. ASSUME NEW t \in Threads, Effect(t)
        PROVE  \A u \in Threads \ {t} : calls'[u] = calls[u]
    BY <1>2, OthersStay
  <1>3. CASE \E t \in Threads : Effect(t)
    BY <1>1, <1>2, <1>3
  <1>4. ASSUME NEW t \in Threads, Enters(t)
        PROVE  /\ staged' = staged /\ stats \subseteq stats'
               /\ \A u \in Threads : calls[u].payloads # {} => calls'[u] = calls[u]
    <2>1. calls[t].payloads = {}
      BY <1>0, <1>4 DEF Enters, PayloadsInv
    <2> QED BY <1>4, <2>1 DEF Enters, SameTables
  <1>5. CASE Rests
    BY <1>5 DEF Rests, SameTables
  <1> QED BY <1>0, <1>3, <1>4, <1>5, StepEffect

\* The recorder keeps its record until TaskStaged.
LEMMA RecorderStays ==
  ASSUME GamesInv, [GamesNext]_allVars, calls[Recorder].op = "stage", ~TaskStaged, ~ServerCrashes
  PROVE  calls'[Recorder].op = "stage" /\ calls'[Recorder].record = calls[Recorder].record
  <1> DEFINE Goal == calls'[Recorder].op = "stage" /\ calls'[Recorder].record = calls[Recorder].record
  <1>i. TypeInv
    BY DEF GamesInv
  <1>k. ASSUME calls'[Recorder] = calls[Recorder] PROVE Goal
    BY <1>k
  <1>s. ASSUME NEW t \in Workers, NEW op, NEW l, NEW started, NEW r,
               CallStore(t, op, l, started, r)
        PROVE  Goal
    <2>1. calls'[Recorder] = calls[Recorder]
      BY <1>i, <1>s, Called, WorkersAreThreads DEF Placed
    <2> QED BY <1>k, <2>1
  <1>r. ASSUME NEW t \in Workers, Return(t) PROVE Goal
    <2>1. calls'[Recorder] = calls[Recorder]
      BY <1>i, <1>r, ReturnPlaces, WorkersAreThreads
    <2> QED BY <1>k, <2>1
  <1> HIDE DEF Goal
  <1>1. ASSUME NEW t \in Workers, NEW l \in Lists, MasterCalls(t, l) PROVE Goal
    <2>1. CASE CreateList(t, l)
      <3>1. Call(t, "create", l, FALSE, NoOne)
        BY <2>1 DEF CreateList
      <3>2. Placed(t, "create", l, clock, FALSE, NoOne)
        BY <1>i, <3>1, CallPlaces, WorkersAreThreads
      <3> QED BY <3>2, <1>k, WorkersAreThreads DEF Placed
    <2> QED BY <1>1, <2>1, <1>s DEF MasterCalls
  <1>2. ASSUME NEW t \in Workers,
               \/ MasterCallReturns(t) \/ ServerUp(t) \/ SessionCreated(t) \/ SessionMarked(t)
               \/ SessionCompleted(t)
        PROVE  Goal
    BY <1>2, <1>r
    DEF MasterCallReturns, ServerUp, SessionCreated, SessionMarked, SessionCompleted, ReturnStore
  <1>3. ASSUME NEW t \in Workers, ServerStarts(t) PROVE Goal
    <2>1. Call(t, "startup", NoOne, FALSE, NoOne)
      BY <1>3 DEF ServerStarts, StartUp
    <2>2. Placed(t, "startup", NoOne, clock, FALSE, NoOne)
      BY <1>i, <2>1, CallPlaces, WorkersAreThreads
    <2> QED BY <2>2, <1>k, WorkersAreThreads DEF Placed
  <1>4. ASSUME NEW t \in Workers, WrongRounds(t) PROVE Goal
    <2>1. Placed(t, "end", calls[t].list, calls[t].now, FALSE, NoOne)
      BY <1>i, <1>4, TakeBackPlaces, WorkersAreThreads DEF WrongRounds
    <2> QED BY <2>1, <1>k, WorkersAreThreads DEF Placed
  <1>5. ASSUME NEW t \in Workers, NEW s \in Sessions,
               (\E l \in Lists : CreateSession(t, s, l)) \/ StartActive(t, s)
               \/ CompleteSession(t, s)
        PROVE  Goal
    BY <1>5, <1>s DEF CreateSession, StartActive, CompleteSession
  <1>6. ASSUME NEW t \in Threads, Statements(t) PROVE Goal
    <2>1. CASE t # Recorder
      BY <1>i, <1>6, <2>1, <1>k, StatementEffect, OthersStay, WorkersAreThreads DEF Statements
    <2>2. CASE t = Recorder
      <3>1. Effect(t)
        BY <1>i, <1>6, StatementEffect DEF Statements
      <3>2. Moves(t)
        BY <3>1 DEF Effect, Began, NotBegun, DidRead, DidWrite, Committed, RolledBack, Collected,
           ErasedRecords, ErasedList, DeliveredOne, DeliveredAll, Inserted, Marked, Looked, Staged,
           WasReset, Chose, Swept, GoesTo, Ends
      <3> QED BY <2>2, <3>2 DEF Moves, Goal
    <2> QED BY <2>1, <2>2
  <1>7. ASSUME (\E s \in Sessions : NextRound(s)) \/ TimePasses \/ UNCHANGED allVars PROVE Goal
    BY <1>7, <1>k DEF NextRound, TimePasses, Tick, allVars, vars
  <1>8. ASSUME TakeTask PROVE FALSE
    BY <1>8 DEF TakeTask, Free
  <1>9. Goal
    BY <1>1, <1>2, <1>3, <1>4, <1>5, <1>6, <1>7, <1>8 DEF GamesNext
  <1> QED BY <1>9 DEF Goal

\* A file is written for the record that is then staged.
LEMMA FilesFrom ==
  ASSUME GamesInv, [GamesNext]_allVars, NEW r \in files', r \notin files
  PROVE  /\ tasks # <<>> /\ r = Head(tasks)
         /\ calls'[Recorder].op = "stage" /\ calls'[Recorder].record = r
  <1> USE DEF hub, recording, history
  <1>1. ASSUME NEW t \in Workers, NEW l \in Lists, MasterCalls(t, l) PROVE FALSE
    BY <1>1 DEF MasterCalls
  <1>2. ASSUME NEW t \in Workers,
               \/ MasterCallReturns(t) \/ ServerUp(t) \/ ServerStarts(t) \/ WrongRounds(t)
               \/ SessionMarked(t) \/ SessionCreated(t) \/ SessionCompleted(t)
        PROVE  FALSE
    BY <1>2 DEF MasterCallReturns, ServerUp, ServerStarts, WrongRounds, SessionMarked,
                SessionCreated, SessionCompleted
  <1>3. ASSUME NEW t \in Workers, NEW s \in Sessions,
               (\E l \in Lists : CreateSession(t, s, l)) \/ StartActive(t, s)
               \/ CompleteSession(t, s)
        PROVE  FALSE
    BY <1>3 DEF CreateSession, StartActive, CompleteSession
  <1>4. ASSUME NEW t \in Threads, Statements(t) PROVE FALSE
    BY <1>4 DEF Statements
  <1>5. ASSUME NEW s \in Sessions, NextRound(s) PROVE FALSE
    BY <1>5 DEF NextRound
  <1>6. ASSUME TaskStaged \/ ServerCrashes \/ TimePasses \/ UNCHANGED allVars PROVE FALSE
    BY <1>6 DEF TaskStaged, ServerCrashes, TimePasses, allVars
  <1>7. TakeTask
    BY <1>1, <1>2, <1>3, <1>4, <1>5, <1>6 DEF GamesNext
  <1>8. /\ tasks # <<>> /\ r = Head(tasks)
        /\ CallStore(Recorder, "stage", listOf[Head(tasks)[1]], FALSE, Head(tasks))
    BY <1>7 DEF TakeTask
  <1>9. Placed(Recorder, "stage", listOf[Head(tasks)[1]], clock, FALSE, Head(tasks))
    BY <1>8, Called, WorkersAreThreads DEF GamesInv
  <1> QED BY <1>8, <1>9 DEF Placed

\* A record on disk belongs to a session; with calls one at a time, as long as
\* the server has not crashed, it is with the recorder, staged, in the hands of
\* a call that releases its list, or in the statistics.
OnItsWay(r) ==
    \/ calls[Recorder].op = "stage" /\ r = calls[Recorder].record
    \/ <<listOf[r[1]], r>> \in staged
    \/ r \in stats
    \/ \E t \in Threads : r \in calls[t].payloads

FilesInv ==
    /\ \A r \in files : r \in Records /\ stage[r[1]] # "none"
    /\ ~overlapped /\ crashes = 0 => \A r \in files : OnItsWay(r)

\* Where a record is after a step.
OnItsWayNext(r) ==
    \/ calls'[Recorder].op = "stage" /\ r = calls'[Recorder].record
    \/ <<listOf'[r[1]], r>> \in staged'
    \/ r \in stats'
    \/ \E t \in Threads : r \in calls'[t].payloads

LEMMA FilesStep ==
  ASSUME DuplicatesInv, Sole, HeldInv, FilesInv, [GamesNext]_allVars
  PROVE  FilesInv'
  <1>0. /\ GamesInv /\ TypeInv /\ [Next]_vars /\ HubTyped /\ KnownInv /\ IdleDone
    BY IdleIsDone, StepsOfStore DEF DuplicatesInv, GamesInv, HiddenInv
  <1>1. ASSUME NEW r \in files' PROVE r \in Records /\ stage'[r[1]] # "none"
    <2>1. r \in Records /\ stage[r[1]] # "none"
      <3>1. CASE r \in files
        BY <3>1 DEF FilesInv
      <3>2. CASE r \notin files
        <4>1. tasks # <<>> /\ r = Head(tasks)
          BY <1>0, <1>1, <3>2, FilesFrom
        <4>2. Len(tasks) >= 1 /\ Head(tasks) = tasks[1] /\ Len(tasks) \in Nat
          BY <1>0, <4>1 DEF GamesInv, HubInv
        <4>3. Known(listOf[r[1]], r)
          BY <1>0, <4>1, <4>2 DEF KnownInv
        <4> QED BY <4>3 DEF Known
      <3> QED BY <3>1, <3>2
    <2>2. r[1] \in Sessions
      BY <2>1, RecordsAssumption
    <2> QED BY <1>0, <2>1, <2>2, SessionsStay
  <1>2. ASSUME ~overlapped', crashes' = 0, NEW r \in files' PROVE OnItsWayNext(r)
    <2>1. ~overlapped
      BY <1>0, <1>2, SoleStep
    <2>2. crashes = 0 /\ ~ServerCrashes /\ ~Crashes
      <3>1. crashes \in Nat
        BY <1>0 DEF TypeInv, TypeOK
      <3>2. ~ServerCrashes /\ ~Crashes
        BY <1>2, <3>1 DEF ServerCrashes, Crash, Crashes
      <3>3. crashes' = crashes
        <4>1. \A t \in Threads : Effect(t) => crashes' = crashes
          BY DEF Effect, Began, NotBegun, DidRead, DidWrite, Committed, RolledBack, Collected,
             ErasedRecords, ErasedList, DeliveredOne, DeliveredAll, Inserted, Marked, Looked,
             Staged, WasReset, Chose, Swept, SameServer
        <4>2. \A t \in Threads : Enters(t) => crashes' = crashes
          BY DEF Enters
        <4> QED BY <1>0, <3>2, <4>1, <4>2, StepEffect DEF Rests
      <3> QED BY <1>2, <3>2, <3>3
    <2>3. CASE r \notin files
      BY <1>0, <1>2, <2>3, FilesFrom DEF OnItsWayNext
    <2>4. CASE r \in files
      <3>1. OnItsWay(r) /\ r \in Records /\ stage[r[1]] # "none"
        BY <2>1, <2>2, <2>4 DEF FilesInv
      <3>2. listOf'[r[1]] = listOf[r[1]]
        BY <1>0, <3>1, SessionsStay, RecordsAssumption
      <3>3. /\ \A p \in staged : p \in staged' \/ \E t \in Threads : p[2] \in calls'[t].payloads
            /\ \A t \in Threads : \A q \in calls[t].payloads :
                  q \in calls'[t].payloads \/ q \in stats'
            /\ stats \subseteq stats'
        BY <2>1, <2>2, NothingLost
      <3>4. CASE <<listOf[r[1]], r>> \in staged
        BY <3>2, <3>3, <3>4 DEF OnItsWayNext
      <3>5. CASE r \in stats \/ \E t \in Threads : r \in calls[t].payloads
        BY <3>3, <3>5 DEF OnItsWayNext
      <3>6. CASE calls[Recorder].op = "stage" /\ r = calls[Recorder].record
        <4>1. CASE ~TaskStaged
          BY <1>0, <2>2, <3>6, <4>1, RecorderStays DEF OnItsWayNext
        <4>2. CASE TaskStaged
          <5>1. CASE Bypass(Recorder)
            BY <3>6, <5>1 DEF Bypass, OnItsWayNext
          <5>2. CASE calls[Recorder].ok
            <6>1. <<calls[Recorder].list, calls[Recorder].record>> \in staged
              BY <2>1, <4>2, <5>2, WorkersAreThreads DEF TaskStaged, Returned, HeldInv
            <6>2. Known(calls[Recorder].list, r)
              BY <1>0, <3>6, WorkersAreThreads DEF KnownInv
            <6>3. <<listOf[r[1]], r>> \in staged
              BY <3>6, <6>1, <6>2 DEF Known
            <6> QED BY <3>4, <6>3
          <5> QED BY <4>2, <5>1, <5>2 DEF TaskStaged
        <4> QED BY <4>1, <4>2
      <3> QED BY <3>1, <3>4, <3>5, <3>6 DEF OnItsWay
    <2> QED BY <2>3, <2>4
  <1> QED BY <1>1, <1>2 DEF FilesInv, OnItsWay, OnItsWayNext

\* With calls one at a time and no crash, no record that was written to disk is
\* lost on its way to the statistics.
THEOREM RecordsKeptHolds == GamesSpec => []RecordsKept
  <1>1. GamesInit => Sole /\ HeldInv /\ FilesInv
    BY DEF GamesInit, Init, Sole, Free, Idle, HeldInv, FilesInv
  <1>2. /\ DuplicatesInv /\ Sole /\ HeldInv /\ FilesInv /\ [GamesNext]_allVars
        => Sole' /\ HeldInv' /\ FilesInv'
    BY SoleStep, HeldStep, FilesStep DEF DuplicatesInv
  <1>3. DuplicatesInv /\ Sole /\ HeldInv /\ FilesInv => RecordsKept
    BY DEF FilesInv, OnItsWay, RecordsKept
  <1> QED BY <1>1, <1>2, <1>3, DuplicatesInvHolds, PTL DEF GamesSpec

-----------------------------------------------------------------------------
(* The steps of hub and record manager, field by field                       *)

\* What a step leaves alone.
SameHub == UNCHANGED <<stage, listOf, counted, marked, serving, abandoned>>
SameStore == SameTables /\ SameTransaction

\* A call of the store begins while the server is up.
Asks(t, op, l, started) ==
    /\ Free(t) /\ up /\ up' = up
    /\ \E r : Placed(t, op, l, clock, started, r)
    /\ NoteOverlap(t) /\ SameStore

\* A call of the store is over.
Leaves(t) ==
    /\ \A u \in Threads \ {t} : calls'[u] = calls[u]
    /\ calls[t].op # "none" /\ calls[t].step = "done"
    /\ calls'[t].op = "none" /\ calls'[t].step = "done"
    /\ up' = (up \/ calls[t].op = "startup")
    /\ overlapped' = overlapped /\ SameStore

Runs(t) == Effect(t) /\ up' = up /\ overlapped' = overlapped /\ SameHub

Requests(t) ==
    /\ \E op \in {"create", "extend", "force", "stage"}, l \in Lists :
          Asks(t, op, l, FALSE) /\ (op = "stage" <=> t = Recorder)
    /\ SameHub

Creates(t, s, l) ==
    /\ Asks(t, "start", l, FALSE)
    /\ stage[s] = "none"
    /\ stage' = [stage EXCEPT ![s] = "creating"]
    /\ listOf' = [listOf EXCEPT ![s] = l]
    /\ serving' = [serving EXCEPT ![t] = s]
    /\ UNCHANGED <<counted, marked, abandoned>>

Activates(t, s) ==
    /\ Asks(t, "mark", listOf[s], FALSE)
    /\ stage[s] = "pending"
    /\ stage' = [stage EXCEPT ![s] = "active"]
    /\ serving' = [serving EXCEPT ![t] = s]
    /\ UNCHANGED <<listOf, counted, marked, abandoned>>

Completes(t, s) ==
    /\ Asks(t, "end", listOf[s], s \in marked)
    /\ stage[s] \in {"active", "pending"} /\ s \in counted
    /\ \E next \in {"ending", "gone"} : stage' = [stage EXCEPT ![s] = next]
    /\ counted' = counted \ {s}
    /\ marked' = marked \ {s}
    /\ serving' = [serving EXCEPT ![t] = s]
    /\ UNCHANGED <<listOf, abandoned>>

Created(t) ==
    LET s == serving[t] IN
    /\ calls[t].op = "start" /\ Leaves(t)
    /\ \/ /\ calls[t].ok
          /\ stage' = [stage EXCEPT ![s] = "pending"]
          /\ counted' = counted \cup {s} /\ abandoned' = abandoned
       \/ /\ stage' = [stage EXCEPT ![s] = "gone"]
          /\ abandoned' = (abandoned \/ calls[t].ok) /\ counted' = counted
    /\ serving' = [serving EXCEPT ![t] = NoOne]
    /\ UNCHANGED <<listOf, marked>>

MarkedOne(t) ==
    /\ calls[t].op = "mark" /\ Leaves(t)
    /\ marked' = marked \cup {serving[t]}
    /\ serving' = [serving EXCEPT ![t] = NoOne]
    /\ UNCHANGED <<stage, listOf, counted, abandoned>>

Completed(t) ==
    /\ calls[t].op = "end" /\ Leaves(t)
    /\ stage' = [stage EXCEPT ![serving[t]] = "gone"]
    /\ serving' = [serving EXCEPT ![t] = NoOne]
    /\ UNCHANGED <<listOf, counted, marked, abandoned>>

TakesBack(t) ==
    /\ calls[t].op = "start" /\ calls[t].step = "done" /\ calls[t].ok
    /\ Placed(t, "end", calls[t].list, calls[t].now, FALSE, NoOne)
    /\ up' = up /\ overlapped' = overlapped /\ SameStore /\ SameHub

Boots(t) ==
    /\ ~up /\ InFlight = {}
    /\ Placed(t, "startup", NoOne, clock, FALSE, NoOne)
    /\ up' = up /\ overlapped' = overlapped /\ SameStore /\ SameHub

Resumes(t) ==
    /\ calls[t].op \in {"create", "extend", "force", "startup", "stage"}
    /\ Leaves(t) /\ SameHub

Pauses == SameStore /\ SameHub /\ UNCHANGED <<calls, up, overlapped>>

Restarts ==
    /\ Crashes /\ up' = FALSE
    /\ stage' = [s \in Sessions |-> IF stage[s] = "none" THEN "none" ELSE "gone"]
    /\ counted' = {} /\ marked' = {}
    /\ UNCHANGED <<listOf, overlapped, abandoned>>

GamesStep ==
    \/ \E t \in Threads : Runs(t) \/ Requests(t) \/ Resumes(t)
    \/ \E t \in Workers :
          \/ \E s \in Sessions :
                \/ \E l \in Lists : Creates(t, s, l)
                \/ Activates(t, s) \/ Completes(t, s)
          \/ Created(t) \/ MarkedOne(t) \/ Completed(t) \/ TakesBack(t) \/ Boots(t)
    \/ Pauses
    \/ Restarts

LEMMA GamesEffect ==
  ASSUME GamesInv, [GamesNext]_allVars
  PROVE  GamesStep
  <1> USE DEF hub, recording, history, SameHub, SameStore, SameTables, SameTransaction
  <1>i. TypeInv
    BY DEF GamesInv
  <1>w. Workers \subseteq Threads /\ Recorder \in Threads /\ Recorder \notin Workers
    BY WorkersAreThreads
  <1>s. ASSUME NEW t \in Threads, NEW op, NEW l, NEW started, NEW r,
               CallStore(t, op, l, started, r)
        PROVE  Asks(t, op, l, started) /\ l \in Lists
    <2>1. l \in Lists
      BY <1>i, <1>s DEF CallStore, CallOn, TypeInv, TypeOK
    <2> QED BY <1>i, <1>s, <2>1, Called DEF Asks
  <1>r. ASSUME NEW t \in Threads, Return(t), overlapped' = overlapped,
               UNCHANGED <<tables, transaction>>
        PROVE  Leaves(t)
    BY <1>i, <1>r, ReturnPlaces DEF Leaves, Return, tables, transaction
  <1>1. ASSUME NEW t \in Workers, NEW l \in Lists, MasterCalls(t, l) PROVE Requests(t)
    <2>1. CASE CreateList(t, l) /\ NoteOverlap(t)
      <3>1. Call(t, "create", l, FALSE, NoOne) /\ up /\ up' = up /\ SameStore
        BY <2>1 DEF CreateList, tables, transaction
      <3>2. Placed(t, "create", l, clock, FALSE, NoOne) /\ Free(t)
        BY <1>i, <1>w, <3>1, CallPlaces
      <3>3. Asks(t, "create", l, FALSE)
        BY <2>1, <3>1, <3>2 DEF Asks
      <3> QED BY <1>1, <1>w, <3>3 DEF MasterCalls, Requests
    <2>2. ASSUME NEW op \in {"extend", "force"}, CallStore(t, op, l, FALSE, NoOne)
          PROVE  Requests(t)
      BY <1>1, <1>w, <1>s, <2>2 DEF MasterCalls, Requests
    <2> QED BY <1>1, <2>1, <2>2 DEF MasterCalls
  <1>2. ASSUME NEW t \in Workers, MasterCallReturns(t) \/ ServerUp(t) PROVE Resumes(t)
    BY <1>2, <1>r, <1>w DEF MasterCallReturns, ServerUp, ReturnStore, Returned, Resumes
  <1>3. ASSUME NEW t \in Workers, ServerStarts(t) PROVE Boots(t)
    <2>1. Call(t, "startup", NoOne, FALSE, NoOne) /\ InFlight = {} /\ ~up /\ up' = up /\ SameStore
      BY <1>3 DEF ServerStarts, StartUp, tables, transaction, rest
    <2>2. Placed(t, "startup", NoOne, clock, FALSE, NoOne)
      BY <1>i, <1>w, <2>1, CallPlaces
    <2> QED BY <1>3, <2>1, <2>2 DEF ServerStarts, Boots
  <1>4. ASSUME NEW t \in Workers, WrongRounds(t) PROVE TakesBack(t)
    <2>1. Placed(t, "end", calls[t].list, calls[t].now, FALSE, NoOne)
      BY <1>i, <1>w, <1>4, TakeBackPlaces DEF WrongRounds
    <2> QED BY <1>4, <2>1
        DEF WrongRounds, TakeBack, Returned, TakesBack, tables, transaction, rest
  <1>5. ASSUME NEW t \in Workers, NEW s \in Sessions, NEW l \in Lists, CreateSession(t, s, l)
        PROVE  Creates(t, s, l)
    BY <1>5, <1>w, <1>s DEF CreateSession, Creates
  <1>6. ASSUME NEW t \in Workers, NEW s \in Sessions, StartActive(t, s) PROVE Activates(t, s)
    BY <1>6, <1>w, <1>s DEF StartActive, Activates
  <1>7. ASSUME NEW t \in Workers, NEW s \in Sessions, CompleteSession(t, s) PROVE Completes(t, s)
    <2>1. \E next \in {"ending", "gone"} : stage' = [stage EXCEPT ![s] = next]
      BY <1>7 DEF CompleteSession
    <2> QED BY <1>7, <1>w, <1>s, <2>1 DEF CompleteSession, Completes
  <1>8. ASSUME NEW t \in Workers, SessionCreated(t) PROVE Created(t)
    BY <1>8, <1>r, <1>w DEF SessionCreated, ReturnStore, Returned, Created
  <1>9. ASSUME NEW t \in Workers, SessionMarked(t) PROVE MarkedOne(t)
    BY <1>9, <1>r, <1>w DEF SessionMarked, ReturnStore, Returned, MarkedOne
  <1>10. ASSUME NEW t \in Workers, SessionCompleted(t) PROVE Completed(t)
    BY <1>10, <1>r, <1>w DEF SessionCompleted, ReturnStore, Returned, Completed
  <1>11. ASSUME NEW t \in Threads, Statements(t) PROVE Runs(t)
    <2>1. Effect(t)
      BY <1>i, <1>11, StatementEffect DEF Statements
    <2>2. up' = up
      BY <2>1 DEF Effect, Began, NotBegun, DidRead, DidWrite, Committed, RolledBack, Collected,
         ErasedRecords, ErasedList, DeliveredOne, DeliveredAll, Inserted, Marked, Looked, Staged,
         WasReset, Chose, Swept, SameServer
    <2> QED BY <1>11, <2>1, <2>2 DEF Statements, Runs
  <1>12. ASSUME (\E s \in Sessions : NextRound(s)) \/ TimePasses \/ UNCHANGED allVars PROVE Pauses
    BY <1>12 DEF NextRound, TimePasses, Tick, allVars, vars, tables, transaction, Pauses
  <1>13. ASSUME TakeTask PROVE Requests(Recorder) \/ Pauses
    <2>1. CASE UNCHANGED <<vars, overlapped>>
      BY <1>13, <2>1 DEF TakeTask, vars, Pauses
    <2>2. CASE CallStore(Recorder, "stage", listOf[Head(tasks)[1]], FALSE, Head(tasks))
      BY <1>13, <1>w, <1>s, <2>2 DEF TakeTask, Requests
    <2> QED BY <1>13, <2>1, <2>2 DEF TakeTask
  <1>14. ASSUME TaskStaged PROVE Resumes(Recorder)
    BY <1>14, <1>r, <1>w DEF TaskStaged, Returned, Resumes
  <1>15. ASSUME ServerCrashes PROVE Restarts
    <2>1. Idle.op = "none" /\ Idle.step = "done" /\ Idle.payloads = {} /\ ~Idle.ok
      BY DEF Idle
    <2>2. Crash
      BY <1>15 DEF ServerCrashes
    <2>3. Crashes /\ up' = FALSE
      BY <2>1, <2>2 DEF Crash, Crashes
    <2> QED BY <1>15, <2>3 DEF ServerCrashes, Restarts
  <1> QED
    BY <1>1, <1>2, <1>3, <1>4, <1>5, <1>6, <1>7, <1>8, <1>9, <1>10, <1>11, <1>12, <1>13, <1>14,
       <1>15, <1>w DEF GamesNext, GamesStep

-----------------------------------------------------------------------------
(* The counters of a list and the sessions of the hub                        *)

\* A call that has counted a session which the hub does not have yet, or that
\* is to take one off which the hub has no more.
Holds(c, l) ==
    /\ c.list = l
    /\ \/ c.op = "start" /\ (c.step = "commit" \/ (c.step = "done" /\ c.ok))
       \/ /\ c.op = "end"
          /\ c.step \in {"begin", "read", "write", "commit, release", "release", "collect",
                         "erase records", "erase list"}

Holding(l) == {t \in Workers : Holds(calls[t], l)}

\* The calls that have marked a session the hub has not, or are to take off a
\* marked one.
Marks(c, l) ==
    \/ c.op = "mark" /\ c.step = "done" /\ c.list = l
    \/ c.op = "end" /\ c.started /\ Holds(c, l)

Marking(l) == {t \in Workers : Marks(calls[t], l)}

\* Nothing is counted and nobody calls the store before the server is up, and
\* the recorder only stages.
CallersInv ==
    /\ calls[Recorder].op \in {"none", "stage"}
    /\ \A t \in Threads : calls[t].op = "startup" => ~up
    /\ ~up => /\ counted = {} /\ marked = {}
              /\ \A t \in Threads : calls[t].op \in {"none", "startup"}
              /\ \A t, u \in Threads : ~Free(t) /\ ~Free(u) => t = u

FiniteInv == IsFiniteSet(counted) /\ IsFiniteSet(InFlight)

\* The sessions with a token are those in play. A session that is created or
\* taken off is not in play and has one call; its list is there to stay.
TokensInv ==
    /\ \A s \in Sessions : s \in counted <=> stage[s] \in {"pending", "active"}
    /\ \A t \in Workers : calls[t].op = "start" =>
          /\ stage[serving[t]] = "creating"
          /\ \A u \in Workers \ {t} :
                calls[u].op \in {"start", "end"} => serving[u] # serving[t]
    /\ \A t \in Workers : calls[t].op = "end" =>
          /\ stage[serving[t]] \in {"creating", "ending", "gone"}
          /\ calls[t].list \in Lists /\ Settled(calls[t].list)

\* The rows to roll back to count as many sessions as those there are.
RollbackInv ==
    /\ \A l \in Lists : saved.lists[l].exists => saved.lists[l].live >= 0
    /\ \A t \in Threads : calls[t].step \in {"read", "rollback"} =>
          \A l \in Lists : saved.lists[l].exists => saved.lists[l].live = lists[l].live

LiveInv == \A l \in Lists : lists[l].exists =>
              lists[l].live >= Cardinality(Live(l)) + Cardinality(Holding(l))

CountInv == CallersInv /\ FiniteInv /\ TokensInv /\ RollbackInv /\ LiveInv

Orderly == ~overlapped /\ ~abandoned

\* The counters have been reset since the last crash.
Ready == up \/ \E t \in Threads : calls[t].op = "startup" /\ calls[t].step # "reset"

\* With calls one at a time: the marked sessions are those that play, and rows
\* to roll back to are the rows there are.
MarkedInv ==
    ~overlapped =>
        /\ \A s \in marked : stage[s] = "active"
        /\ \A t \in Workers : calls[t].op = "mark" =>
              /\ stage[serving[t]] = "active" /\ serving[t] \notin marked
              /\ listOf[serving[t]] = calls[t].list
        /\ \A t \in Threads : calls[t].step \in {"read", "rollback"} => saved.lists = lists

ExactInv ==
    Orderly /\ Ready =>
        \A l \in Lists : lists[l].exists =>
            /\ lists[l].live = Cardinality(Live(l)) + Cardinality(Holding(l))
            /\ lists[l].started = Cardinality(Live(l) \cap marked) + Cardinality(Marking(l))

\* The last session of an expired list has destroyed it, or will.
ExpiryInv ==
    Orderly =>
        \A t \in Workers :
          LET c == calls[t] IN
          /\ c.op = "end" /\ c.step \in {"write", "commit", "commit, deliver", "deliver", "done"}
          /\ lists[c.list].exists /\ Live(c.list) = {}
          => lists[c.list].expires > c.now

\* A statement keeps what the call is about.
LEMMA CallsKept ==
  ASSUME TypeInv, RoutesInv, NEW t \in Threads, Effect(t), NEW u \in Threads
  PROVE  /\ calls'[u].op = calls[u].op /\ calls'[u].now = calls[u].now
         /\ calls'[u].started = calls[u].started
         /\ calls[u].op # "startup" => calls'[u].list = calls[u].list
  <1>1. CASE u # t
    BY <1>1, OthersStay
  <1>2. CASE u = t
    <2>1. calls[t].step = "sweep" => calls[t].op = "startup"
      BY DEF RoutesInv, StepsOf, Releasing
    <2>2. Moves(t) /\ (calls'[t].list = calls[t].list \/ calls[t].step = "sweep")
      BY <1>2 DEF Effect, Began, NotBegun, DidRead, DidWrite, Committed, RolledBack, Collected,
         ErasedRecords, ErasedList, DeliveredOne, DeliveredAll, Inserted, Marked, Looked, Staged,
         WasReset, Chose, Swept, GoesTo, Ends
    <2> QED BY <1>2, <2>1, <2>2 DEF Moves
  <1> QED BY <1>1, <1>2

LEMMA CallersStep ==
  ASSUME DuplicatesInv, CallersInv, GamesStep
  PROVE  CallersInv'
  <1> USE DEF SameHub, Free
  <1>0. /\ TypeInv /\ RoutesInv /\ Workers \subseteq Threads
        /\ Recorder \in Threads /\ Recorder \notin Workers
    BY WorkersAreThreads DEF DuplicatesInv, GamesInv
  <1>1. ASSUME NEW t \in Threads, Runs(t) PROVE CallersInv'
    <2>1. \A u \in Threads : calls'[u].op = calls[u].op
      BY <1>0, <1>1, CallsKept DEF Runs
    <2> QED BY <1>0, <1>1, <2>1 DEF Runs, CallersInv
  <1>2. ASSUME NEW t \in Threads, NEW op, NEW l, NEW started, Asks(t, op, l, started),
               op # "startup", op \in {"none", "stage"} \/ t # Recorder
        PROVE  CallersInv'
    BY <1>0, <1>2 DEF Asks, Placed, CallersInv
  <1>3. ASSUME NEW t \in Threads, Leaves(t), ~up => counted' = {} /\ marked' = {}
        PROVE  CallersInv'
    <2>1. /\ \A u \in Threads : calls'[u].op \in {calls[u].op, "none"}
          /\ calls'[Recorder].op \in {"none", "stage"}
      BY <1>0, <1>3 DEF Leaves, CallersInv
    <2>2. CASE calls[t].op = "startup"
      <3>1. up' /\ ~up
        BY <1>3, <2>2 DEF Leaves, CallersInv
      <3>2. \A u \in Threads : calls'[u].op = "none"
        BY <1>3, <2>2, <3>1 DEF Leaves, CallersInv
      <3> QED BY <2>1, <3>1, <3>2 DEF CallersInv
    <2>3. CASE calls[t].op # "startup"
      BY <1>3, <2>1, <2>3 DEF Leaves, CallersInv
    <2> QED BY <2>2, <2>3
  <1>4. ASSUME NEW t \in Threads, Requests(t) PROVE CallersInv'
    BY <1>2, <1>4 DEF Requests
  <1>5. ASSUME NEW t \in Threads, Resumes(t) PROVE CallersInv'
    BY <1>3, <1>5 DEF Resumes, CallersInv
  <1>6. ASSUME NEW t \in Workers, NEW s \in Sessions,
               \/ \E l \in Lists : Creates(t, s, l)
               \/ Activates(t, s) \/ Completes(t, s)
        PROVE  CallersInv'
    BY <1>0, <1>2, <1>6 DEF Creates, Activates, Completes
  <1>7. ASSUME NEW t \in Workers, Created(t) \/ MarkedOne(t) \/ Completed(t) PROVE CallersInv'
    <2>1. up /\ Leaves(t)
      BY <1>0, <1>7 DEF Created, MarkedOne, Completed, CallersInv
    <2> QED BY <1>0, <1>3, <2>1
  <1>8. ASSUME NEW t \in Workers, TakesBack(t) PROVE CallersInv'
    BY <1>0, <1>8 DEF TakesBack, Placed, CallersInv
  <1>9. ASSUME NEW t \in Workers, Boots(t) PROVE CallersInv'
    <2>1. \A u \in Threads : calls[u].op = "none"
      BY <1>9 DEF Boots, InFlight
    <2> QED BY <1>0, <1>9, <2>1 DEF Boots, Placed, CallersInv
  <1>10. CASE Pauses
    BY <1>10 DEF Pauses, CallersInv
  <1>11. CASE Restarts
    BY <1>0, <1>11 DEF Restarts, Crashes, CallersInv
  <1> QED BY <1>1, <1>4, <1>5, <1>6, <1>7, <1>8, <1>9, <1>10, <1>11 DEF GamesStep

LEMMA FiniteStep ==
  ASSUME DuplicatesInv, FiniteInv, GamesStep
  PROVE  FiniteInv'
  <1> USE DEF SameHub
  <1>0. TypeInv /\ RoutesInv /\ Workers \subseteq Threads
    BY WorkersAreThreads DEF DuplicatesInv, GamesInv
  <1>1. ASSUME NEW t \in Threads, \A u \in Threads \ {t} : calls'[u].op \in {calls[u].op, "none"}
        PROVE  IsFiniteSet(InFlight')
    <2>1. InFlight' \subseteq InFlight \cup {t}
      BY <1>1 DEF InFlight, Free
    <2>2. IsFiniteSet(InFlight \cup {t})
      BY FS_AddElement DEF FiniteInv
    <2> QED BY <2>1, <2>2, FS_Subset
  <1>2. ASSUME NEW t \in Threads, Runs(t) PROVE FiniteInv'
    <2>1. \A u \in Threads : calls'[u].op = calls[u].op
      BY <1>0, <1>2, CallsKept DEF Runs
    <2> QED BY <1>1, <1>2, <2>1 DEF Runs, FiniteInv
  <1>3. ASSUME NEW t \in Threads, \A u \in Threads \ {t} : calls'[u] = calls[u],
               IsFiniteSet(counted')
        PROVE  FiniteInv'
    BY <1>1, <1>3 DEF FiniteInv
  <1>4. ASSUME NEW t \in Threads, Requests(t) \/ Resumes(t) PROVE FiniteInv'
    BY <1>3, <1>4 DEF Requests, Resumes, Asks, Leaves, Placed, FiniteInv
  <1>5. ASSUME NEW t \in Workers, NEW s \in Sessions,
               (\E l \in Lists : Creates(t, s, l)) \/ Activates(t, s)
        PROVE  FiniteInv'
    BY <1>0, <1>3, <1>5 DEF Creates, Activates, Asks, Placed, FiniteInv
  <1>6. ASSUME NEW t \in Workers, NEW s \in Sessions, Completes(t, s) PROVE FiniteInv'
    <2>1. IsFiniteSet(counted')
      BY <1>6, FS_RemoveElement DEF Completes, FiniteInv
    <2> QED BY <1>0, <1>3, <1>6, <2>1 DEF Completes, Asks, Placed
  <1>7. ASSUME NEW t \in Workers, Created(t) \/ MarkedOne(t) \/ Completed(t) PROVE FiniteInv'
    <2>1. counted' = counted \/ counted' = counted \cup {serving[t]}
      BY <1>7 DEF Created, MarkedOne, Completed
    <2>2. IsFiniteSet(counted')
      BY <2>1, FS_AddElement DEF FiniteInv
    <2> QED BY <1>0, <1>3, <1>7, <2>2 DEF Created, MarkedOne, Completed, Leaves
  <1>8. ASSUME NEW t \in Workers, TakesBack(t) \/ Boots(t) PROVE FiniteInv'
    BY <1>0, <1>3, <1>8 DEF TakesBack, Boots, Placed, FiniteInv
  <1>9. CASE Pauses
    BY <1>9 DEF Pauses, FiniteInv, InFlight, Free
  <1>10. CASE Restarts
    <2>1. InFlight' = {} /\ counted' = {}
      BY <1>10 DEF Restarts, Crashes, InFlight, Free
    <2> QED BY <2>1, FS_EmptySet DEF FiniteInv
  <1> QED BY <1>2, <1>4, <1>5, <1>6, <1>7, <1>8, <1>9, <1>10 DEF GamesStep

LEMMA TokensStep ==
  ASSUME DuplicatesInv, TokensInv, GamesStep, [Next]_vars
  PROVE  TokensInv'
  <1> DEFINE SettledNext(l) ==
        l \in issued' /\ \A t \in Threads : calls'[t].step = "insert" => calls'[t].list # l
             Counts == \A s \in Sessions : s \in counted' <=> stage'[s] \in {"pending", "active"}
             Opens(t) == calls'[t].op = "start" =>
                /\ stage'[serving'[t]] = "creating"
                /\ \A u \in Workers \ {t} :
                      calls'[u].op \in {"start", "end"} => serving'[u] # serving'[t]
             Closes(t) == calls'[t].op = "end" =>
                /\ stage'[serving'[t]] \in {"creating", "ending", "gone"}
                /\ calls'[t].list \in Lists /\ SettledNext(calls'[t].list)
  <1> USE DEF SameHub
  <1>0. /\ TypeInv /\ RoutesInv /\ IdleDone /\ Workers \subseteq Threads
        /\ stage \in [Sessions -> Stages] /\ listOf \in [Sessions -> Lists \cup {NoOne}]
        /\ serving \in [Workers -> Sessions \cup {NoOne}] /\ counted \subseteq Sessions
        /\ \A t \in Workers : calls[t].op \in {"start", "end", "mark"} => serving[t] \in Sessions
    BY IdleIsDone, WorkersAreThreads DEF DuplicatesInv, GamesInv, HubTyped, HubInv, Serves
  <1>p. /\ \A s \in Sessions : stage[s] \in {"pending", "active", "ending"} => Settled(listOf[s])
        /\ \A s \in Sessions : stage[s] # "none" => listOf[s] \in Lists
        /\ \A t \in Workers : calls[t].op = "start" =>
             /\ stage[serving[t]] # "none" /\ listOf[serving[t]] = calls[t].list
             /\ calls[t].step = "done" /\ calls[t].ok => Settled(calls[t].list)
    BY DEF DuplicatesInv, HiddenInv, PlayInv
  <1>s. \A l \in Lists : Settled(l) => SettledNext(l)
    <2>1. \A l \in Lists : Settled(l) => Settled(l)'
      BY <1>0, SettledKept
    <2> QED BY <2>1 DEF Settled
  <1> HIDE DEF SettledNext
  <1>q. ASSUME Counts, \A t \in Workers : Opens(t) /\ Closes(t) PROVE TokensInv'
    BY <1>q DEF TokensInv, SettledNext, Settled
  <1>k. ASSUME \A u \in Workers : calls'[u].op \notin {"start", "end"} \/
                  (/\ calls'[u].op = calls[u].op /\ calls'[u].list = calls[u].list
                   /\ serving'[u] = serving[u]),
               \A u \in Workers : calls'[u].op \in {"start", "end"} =>
                  stage'[serving[u]] = stage[serving[u]],
               Counts
        PROVE  TokensInv'
    <2>1. \A t \in Workers : Opens(t)
      BY <1>k DEF TokensInv
    <2>2. \A t \in Workers : Closes(t)
      BY <1>k, <1>s DEF TokensInv
    <2> QED BY <1>q, <1>k, <2>1, <2>2
  <1>1. ASSUME NEW t \in Threads, Runs(t) PROVE TokensInv'
    <2>1. \A u \in Workers : /\ calls'[u].op = calls[u].op
                             /\ calls[u].op # "startup" => calls'[u].list = calls[u].list
      BY <1>0, <1>1, CallsKept DEF Runs
    <2> QED BY <1>k, <1>1, <2>1 DEF Runs, TokensInv
  <1>2. ASSUME NEW t \in Threads, Requests(t) \/ Resumes(t) PROVE TokensInv'
    <2>1. \A u \in Workers : calls'[u] = calls[u] \/ calls'[u].op \notin {"start", "end"}
      BY <1>0, <1>2 DEF Requests, Resumes, Asks, Leaves, Placed
    <2> QED BY <1>k, <1>2, <2>1 DEF Requests, Resumes, TokensInv
  <1>3. ASSUME NEW t \in Workers, NEW s \in Sessions, NEW l \in Lists, Creates(t, s, l)
        PROVE  TokensInv'
    <2>1. /\ calls'[t].op = "start" /\ \A u \in Workers \ {t} : calls'[u] = calls[u]
          /\ serving' = [serving EXCEPT ![t] = s] /\ stage' = [stage EXCEPT ![s] = "creating"]
          /\ counted' = counted /\ stage[s] = "none"
      BY <1>0, <1>3 DEF Creates, Asks, Placed
    <2>2. \A u \in Workers \ {t} : calls[u].op \in {"start", "end"} =>
            serving[u] \in Sessions /\ serving[u] # s
      BY <1>0, <2>1 DEF TokensInv
    <2>3. Counts
      BY <1>0, <2>1 DEF TokensInv
    <2>4. ASSUME NEW u \in Workers PROVE Opens(u)
      BY <1>0, <2>1, <2>2 DEF TokensInv
    <2>5. ASSUME NEW u \in Workers PROVE Closes(u)
      BY <1>0, <1>s, <2>1, <2>2 DEF TokensInv
    <2> QED BY <1>q, <2>3, <2>4, <2>5
  <1>4. ASSUME NEW t \in Workers, NEW s \in Sessions, Activates(t, s) PROVE TokensInv'
    <2>1. /\ calls'[t].op = "mark" /\ \A u \in Workers \ {t} : calls'[u] = calls[u]
          /\ serving' = [serving EXCEPT ![t] = s] /\ stage' = [stage EXCEPT ![s] = "active"]
          /\ counted' = counted /\ stage[s] = "pending"
      BY <1>0, <1>4 DEF Activates, Asks, Placed
    <2>2. \A u \in Workers \ {t} : calls[u].op \in {"start", "end"} =>
            serving[u] \in Sessions /\ serving[u] # s
      BY <1>0, <2>1 DEF TokensInv
    <2>3. Counts
      BY <1>0, <2>1 DEF TokensInv
    <2> QED BY <1>0, <1>k, <2>1, <2>2, <2>3
  <1>5. ASSUME NEW t \in Workers, NEW s \in Sessions, Completes(t, s) PROVE TokensInv'
    <2>1. /\ calls'[t].op = "end" /\ calls'[t].list = listOf[s]
          /\ \A u \in Workers \ {t} : calls'[u] = calls[u]
          /\ serving' = [serving EXCEPT ![t] = s] /\ counted' = counted \ {s}
          /\ stage[s] \in {"active", "pending"}
      BY <1>0, <1>5 DEF Completes, Asks, Placed
    <2>0. PICK next \in {"ending", "gone"} : stage' = [stage EXCEPT ![s] = next]
      BY <1>5 DEF Completes
    <2>2. \A u \in Workers \ {t} : calls[u].op \in {"start", "end"} =>
            serving[u] \in Sessions /\ serving[u] # s
      BY <1>0, <2>1 DEF TokensInv
    <2>3. Counts
      BY <1>0, <2>0, <2>1 DEF TokensInv
    <2>4. ASSUME NEW u \in Workers PROVE Opens(u)
      BY <1>0, <2>0, <2>1, <2>2 DEF TokensInv
    <2>5. listOf[s] \in Lists /\ SettledNext(listOf[s])
      BY <1>p, <1>s, <2>1
    <2>6. ASSUME NEW u \in Workers PROVE Closes(u)
      BY <1>0, <1>s, <2>0, <2>1, <2>2, <2>5 DEF TokensInv
    <2> QED BY <1>q, <2>3, <2>4, <2>6
  <1>6. ASSUME NEW t \in Workers, Created(t) \/ Completed(t) PROVE TokensInv'
    <2>1. /\ calls'[t].op = "none" /\ \A u \in Workers \ {t} : calls'[u] = calls[u]
          /\ serving' = [serving EXCEPT ![t] = NoOne]
          /\ calls[t].op \in {"start", "end"}
      BY <1>0, <1>6 DEF Created, Completed, Leaves
    <2>2. \A u \in Workers \ {t} : calls[u].op = "start" =>
            serving[u] \in Sessions /\ serving[u] # serving[t]
      BY <1>0, <2>1 DEF TokensInv
    <2>3. \/ /\ stage' = [stage EXCEPT ![serving[t]] = "pending"]
             /\ counted' = counted \cup {serving[t]} /\ calls[t].op = "start"
          \/ stage' = [stage EXCEPT ![serving[t]] = "gone"] /\ counted' = counted
      BY <1>6 DEF Created, Completed
    <2>4. serving[t] \in Sessions /\ serving[t] \notin counted
      BY <1>0, <2>1 DEF TokensInv
    <2>5. Counts
      BY <1>0, <2>3, <2>4 DEF TokensInv
    <2>6. ASSUME NEW u \in Workers PROVE Opens(u)
      BY <1>0, <2>1, <2>2, <2>3 DEF TokensInv
    <2>7. ASSUME NEW u \in Workers, calls'[u].op = "end" PROVE Closes(u)
      <3>1. u # t /\ calls[u].op = "end" /\ serving[u] \in Sessions /\ serving'[u] = serving[u]
        BY <1>0, <2>1, <2>7
      <3>2. calls[t].op = "start" => serving[u] # serving[t]
        BY <2>1, <3>1 DEF TokensInv
      <3>3. stage'[serving[u]] \in {"creating", "ending", "gone"}
        BY <1>0, <2>3, <2>4, <3>1, <3>2 DEF TokensInv
      <3> QED BY <1>s, <2>1, <3>1, <3>3 DEF TokensInv
    <2> QED BY <1>q, <2>5, <2>6, <2>7
  <1>7. ASSUME NEW t \in Workers, MarkedOne(t) PROVE TokensInv'
    BY <1>0, <1>k, <1>7 DEF MarkedOne, Leaves, TokensInv
  <1>8. ASSUME NEW t \in Workers, TakesBack(t) PROVE TokensInv'
    <2>1. /\ calls'[t].op = "end" /\ calls'[t].list = calls[t].list /\ calls[t].op = "start"
          /\ \A u \in Workers \ {t} : calls'[u] = calls[u]
          /\ UNCHANGED <<stage, counted, serving>>
      BY <1>0, <1>8 DEF TakesBack, Placed
    <2>2. calls[t].list \in Lists /\ Settled(calls[t].list)
      BY <1>0, <1>p, <1>8, <2>1 DEF TakesBack
    <2>3. Counts
      BY <2>1 DEF TokensInv
    <2>4. ASSUME NEW u \in Workers PROVE Opens(u)
      BY <2>1 DEF TokensInv
    <2>5. ASSUME NEW u \in Workers PROVE Closes(u)
      BY <1>s, <2>1, <2>2 DEF TokensInv
    <2> QED BY <1>q, <2>3, <2>4, <2>5
  <1>9. ASSUME NEW t \in Workers, Boots(t) PROVE TokensInv'
    BY <1>0, <1>k, <1>9 DEF Boots, Placed, TokensInv
  <1>10. CASE Pauses
    BY <1>k, <1>10 DEF Pauses, TokensInv
  <1>11. CASE Restarts
    <2>1. \A u \in Workers : calls'[u].op = "none"
      BY <1>0, <1>11 DEF Restarts, Crashes
    <2>2. Counts
      BY <1>11 DEF Restarts
    <2> QED BY <1>k, <2>1, <2>2
  <1> QED BY <1>1, <1>2, <1>3, <1>4, <1>5, <1>6, <1>7, <1>8, <1>9, <1>10, <1>11 DEF GamesStep

-----------------------------------------------------------------------------
(* How the counters move                                                     *)

LEMMA CardChange ==
  ASSUME NEW A, IsFiniteSet(A), NEW B, NEW e, B \ {e} = A \ {e}
  PROVE  /\ IsFiniteSet(B) /\ Cardinality(A) \in Nat /\ Cardinality(B) \in Nat
         /\ (e \in A <=> e \in B) => Cardinality(B) = Cardinality(A)
         /\ e \notin A /\ e \in B => Cardinality(B) = Cardinality(A) + 1
         /\ e \in A /\ e \notin B => Cardinality(B) = Cardinality(A) - 1
  <1>1. Cardinality(A) \in Nat
    BY FS_CardinalityType
  <1>2. CASE e \in A <=> e \in B
    <2>1. B = A
      BY <1>2
    <2> QED BY <1>1, <2>1
  <1>3. CASE e \notin A /\ e \in B
    <2>1. B = A \cup {e}
      BY <1>3
    <2> QED BY <1>1, <1>3, <2>1, FS_AddElement
  <1>4. CASE e \in A /\ e \notin B
    <2>1. B = A \ {e}
      BY <1>4
    <2>2. IsFiniteSet(B) /\ Cardinality(B) = Cardinality(A) - 1
      BY <1>4, <2>1, FS_RemoveElement
    <2>3. Cardinality(B) \in Nat
      BY <2>2, FS_CardinalityType
    <2> QED BY <1>1, <1>4, <2>2, <2>3
  <1> QED BY <1>2, <1>3, <1>4

\* Sessions and calls that count are finitely many.
LEMMA FiniteCounts ==
  ASSUME FiniteInv, NEW l
  PROVE  /\ IsFiniteSet(Live(l)) /\ Cardinality(Live(l)) \in Nat
         /\ IsFiniteSet(Live(l) \cap marked) /\ Cardinality(Live(l) \cap marked) \in Nat
         /\ IsFiniteSet(Holding(l)) /\ Cardinality(Holding(l)) \in Nat
         /\ IsFiniteSet(Marking(l)) /\ Cardinality(Marking(l)) \in Nat
  <1>1. Live(l) \subseteq counted /\ Live(l) \cap marked \subseteq counted
    BY DEF Live
  <1>2. Holding(l) \subseteq InFlight /\ Marking(l) \subseteq InFlight
    BY WorkersAreThreads DEF Holding, Marking, Holds, Marks, InFlight, Free
  <1> QED BY <1>1, <1>2, FS_Subset, FS_CardinalityType DEF FiniteInv

\* What a statement does to the count of live sessions of a list, and to the
\* session that its call counts.
LEMMA CountRuns ==
  ASSUME DuplicatesInv, CallersInv, RollbackInv, NEW t \in Threads, Effect(t), NEW l \in Lists,
         lists'[l].exists
  PROVE  LET old == Holds(calls[t], l)
             new == Holds(calls'[t], l)
             n == lists[l].live
             m == lists'[l].live
         IN  \/ lists[l].exists /\ m = n /\ (new <=> old)
             \/ lists[l].exists /\ m = n /\ old /\ ~new /\ NotBegun(t)
             \/ lists[l].exists /\ m = n + 1 /\ ~old /\ new
             \/ lists[l].exists /\ m = n - 1 /\ old /\ ~new
             \/ Inserted(t) /\ calls[t].list = l /\ m = 0
             \/ WasReset(t) /\ m = 0
  <1> DEFINE old == Holds(calls[t], l)
             new == Holds(calls'[t], l)
             n == lists[l].live
             m == lists'[l].live
             Goal ==
               \/ lists[l].exists /\ m = n /\ (new <=> old)
               \/ lists[l].exists /\ m = n /\ old /\ ~new /\ NotBegun(t)
               \/ lists[l].exists /\ m = n + 1 /\ ~old /\ new
               \/ lists[l].exists /\ m = n - 1 /\ old /\ ~new
               \/ Inserted(t) /\ calls[t].list = l /\ m = 0
               \/ WasReset(t) /\ m = 0
  <1>0. TypeInv /\ RoutesInv /\ SavedInv /\ NumbersInv
    BY DEF DuplicatesInv, GamesInv, HiddenInv
  <1>1. calls[t].step \in StepsOf(calls[t].op)
    BY <1>0 DEF RoutesInv
  <1>2. /\ calls'[t].op = calls[t].op
        /\ calls[t].op # "startup" => calls'[t].list = calls[t].list
    BY <1>0, CallsKept
  <1> USE DEF GoesTo, Ends, SameTables
  <1>3. CASE Began(t)
    BY <1>2, <1>3 DEF Began, Holds
  <1>4. CASE NotBegun(t)
    BY <1>2, <1>4 DEF NotBegun, Holds
  <1>5. CASE DidRead(t)
    <2>1. LET next == AfterRead(calls[t], lists[calls[t].list]) IN
          /\ next \in {"rollback", "commit", "commit, release", "write"}
          /\ calls[t].op = "end" => next # "rollback"
          /\ calls[t].op = "start" => next \in {"rollback", "write"}
          /\ calls[t].op = "end" /\ next = "commit" => ~lists[calls[t].list].exists
      BY <1>0, <1>5, ReadChoices DEF DidRead, AfterRead, Refused
    <2> QED BY <1>2, <1>5, <2>1 DEF DidRead, Holds
  <1>6. CASE DidWrite(t)
    <2>1. calls[t].op \in {"start", "end", "extend", "force"}
      BY <1>1, <1>6 DEF DidWrite, StepsOf, Releasing
    <2>2. CASE l = calls[t].list
      BY <1>2, <1>6, <2>1, <2>2 DEF DidWrite, RowChanges, Holds
    <2>3. CASE l # calls[t].list
      BY <1>2, <1>6, <2>1, <2>3 DEF DidWrite, Holds
    <2> QED BY <2>2, <2>3
  <1>7. CASE Committed(t)
    BY <1>1, <1>2, <1>7 DEF Committed, Holds, StepsOf, Releasing
  <1>8. CASE RolledBack(t)
    <2>1. calls[t].op # "end"
      BY <1>1, <1>8 DEF RolledBack, StepsOf, Releasing
    <2>2. saved.lists[l].exists /\ m = saved.lists[l].live /\ calls[t].step = "rollback"
      BY <1>8 DEF RolledBack
    <2>3. m = n
      BY <2>2 DEF RollbackInv
    <2>4. lists[l].exists
      <3>1. owner = t
        BY <1>0, <2>2 DEF NumbersInv, OwnerInTransaction, InTransaction
      <3> QED BY <1>0, <2>2, <3>1 DEF SavedInv
    <2> QED BY <1>2, <1>8, <2>1, <2>3, <2>4 DEF RolledBack, Holds
  <1>9. CASE Collected(t) \/ ErasedRecords(t)
    BY <1>2, <1>9 DEF Collected, ErasedRecords, Holds
  <1>10. CASE ErasedList(t)
    <2>1. l # calls[t].list
      BY <1>10 DEF ErasedList
    <2> QED BY <1>2, <1>10, <2>1 DEF ErasedList, Holds
  <1>11. CASE DeliveredOne(t) \/ DeliveredAll(t)
    <2>1. calls[t].op \notin {"start"}
      BY <1>1, <1>11 DEF DeliveredOne, DeliveredAll, StepsOf
    <2> QED BY <1>2, <1>11, <2>1 DEF DeliveredOne, DeliveredAll, Holds
  <1>12. CASE Inserted(t)
    <2>1. calls[t].op = "create"
      BY <1>1, <1>12 DEF Inserted, StepsOf, Releasing
    <2> QED BY <1>2, <1>12, <2>1 DEF Inserted, Holds
  <1>13. CASE Marked(t) \/ Looked(t) \/ Staged(t)
    <2>1. calls[t].op \in {"mark", "stage"}
      BY <1>1, <1>13 DEF Marked, Looked, Staged, StepsOf, Releasing
    <2> QED BY <1>2, <1>13, <2>1 DEF Marked, Looked, Staged, Holds
  <1>14. CASE WasReset(t)
    BY <1>14 DEF WasReset
  <1>15. CASE Chose(t) \/ Swept(t)
    <2>1. calls[t].op = "startup"
      BY <1>1, <1>15 DEF Chose, Swept, StepsOf, Releasing
    <2> QED BY <1>2, <1>15, <2>1 DEF Chose, Swept, Holds
  <1>16. Goal
    BY <1>3, <1>4, <1>5, <1>6, <1>7, <1>8, <1>9, <1>10, <1>11, <1>12, <1>13, <1>14, <1>15
    DEF Effect
  <1> QED BY <1>16

\* Apart from statements and crashes, a step only puts calls at a first
\* statement or at their end.
LEMMA StoreStep ==
  ASSUME GamesStep
  PROVE  \/ \E t \in Threads : Runs(t)
         \/ Restarts
         \/ /\ SameStore
            /\ \A u \in Threads :
                  \/ calls'[u] = calls[u]
                  \/ calls'[u].step \in {"done", "begin", "insert", "mark", "exists", "reset"}
  <1> DEFINE Goal == /\ SameStore
                    /\ \A u \in Threads :
                          \/ calls'[u] = calls[u]
                          \/ calls'[u].step \in {"done", "begin", "insert", "mark", "exists", "reset"}
  <1>1. ASSUME NEW t \in Threads, NEW op, NEW l, NEW now, NEW started, NEW r,
               Placed(t, op, l, now, started, r), SameStore
        PROVE  Goal
    BY <1>1 DEF Placed, FirstStep
  <1>2. ASSUME NEW t \in Threads, NEW op, NEW l, NEW started, Asks(t, op, l, started) PROVE Goal
    BY <1>1, <1>2 DEF Asks
  <1>3. ASSUME NEW t \in Threads, Leaves(t) PROVE Goal
    BY <1>3 DEF Leaves
  <1> HIDE DEF Goal
  <1>4. ASSUME NEW t \in Threads, Requests(t) \/ Resumes(t) PROVE Goal
    BY <1>2, <1>3, <1>4 DEF Requests, Resumes
  <1>5. ASSUME NEW t \in Workers, NEW s \in Sessions,
               (\E l \in Lists : Creates(t, s, l)) \/ Activates(t, s) \/ Completes(t, s)
        PROVE  Goal
    BY <1>2, <1>5, WorkersAreThreads DEF Creates, Activates, Completes
  <1>6. ASSUME NEW t \in Workers, Created(t) \/ MarkedOne(t) \/ Completed(t) PROVE Goal
    BY <1>3, <1>6, WorkersAreThreads DEF Created, MarkedOne, Completed
  <1>7. ASSUME NEW t \in Workers, TakesBack(t) \/ Boots(t) PROVE Goal
    BY <1>1, <1>7, WorkersAreThreads DEF TakesBack, Boots
  <1>8. CASE Pauses
    BY <1>8 DEF Pauses, Goal
  <1> QED BY <1>4, <1>5, <1>6, <1>7, <1>8 DEF GamesStep, Goal

\* While a call reads or is about to roll back, another one leaves the rows of
\* its transaction as they are, but for what it adds.
LEMMA OthersOutOfWay ==
  ASSUME DuplicatesInv, CallersInv, NEW t \in Threads, Effect(t), NEW u \in Threads \ {t},
         calls[u].step \in {"read", "rollback"}
  PROVE  /\ SameTransaction
         /\ \A l \in Lists : saved.lists[l].exists => lists'[l].live = lists[l].live
  <1>0. TypeInv /\ RoutesInv /\ NumbersInv
    BY DEF DuplicatesInv, GamesInv
  <1>1. owner = u /\ owner # NoOne /\ calls[t].step \notin InTransaction
    BY <1>0, NoOneAssumption DEF NumbersInv, OwnerInTransaction, InTransaction
  <1>2. ~WasReset(t)
    <2>1. SUFFICES ASSUME WasReset(t) PROVE FALSE
      OBVIOUS
    <2>2. calls[t].op = "startup"
      BY <1>0, <2>1 DEF WasReset, RoutesInv, StepsOf, Releasing
    <2>3. calls[u].op # "none"
      BY <1>0 DEF RoutesInv, StepsOf
    <2> QED BY <2>2, <2>3 DEF CallersInv, Free
  <1>3. SameTransaction
    BY <1>1 DEF Effect, Began, NotBegun, DidRead, DidWrite, Committed, RolledBack, Collected,
       ErasedRecords, ErasedList, DeliveredOne, DeliveredAll, Inserted, Marked, Looked, Staged,
       WasReset, Chose, Swept, InTransaction
  <1>4. CASE Inserted(t)
    BY <1>0, <1>3, <1>4 DEF Inserted, NumbersInv, Births, Unborn
  <1>5. CASE Marked(t)
    BY <1>3, <1>5 DEF Marked
  <1>6. CASE ~Inserted(t) /\ ~Marked(t)
    <2>1. lists' = lists
      BY <1>1, <1>2, <1>6 DEF Effect, Began, NotBegun, DidRead, DidWrite, Committed, RolledBack,
         Collected, ErasedRecords, ErasedList, DeliveredOne, DeliveredAll, Looked, Staged, Chose,
         Swept, InTransaction, SameTables
    <2> QED BY <1>3, <2>1
  <1> QED BY <1>3, <1>4, <1>5, <1>6

LEMMA RollbackStep ==
  ASSUME DuplicatesInv, CallersInv, FiniteInv, LiveInv, RollbackInv, GamesStep
  PROVE  RollbackInv'
  <1>0. TypeInv /\ RoutesInv /\ NumbersInv /\ Workers \subseteq Threads
    BY WorkersAreThreads DEF DuplicatesInv, GamesInv
  <1>1. ASSUME NEW t \in Threads, Runs(t) PROVE RollbackInv'
    <2>0. Effect(t)
      BY <1>1 DEF Runs
    <2>1. ASSUME NEW l \in Lists, saved'.lists[l].exists PROVE saved'.lists[l].live >= 0
      <3>1. CASE SameTransaction
        BY <2>1, <3>1 DEF SameTransaction, RollbackInv
      <3>2. CASE Began(t)
        <4>1. lists[l].exists /\ saved'.lists[l].live = lists[l].live /\ lists[l].live \in Int
          BY <1>0, <2>1, <3>2 DEF Began, TypeInv, TypeOK, Rows
        <4>2. Cardinality(Live(l)) \in Nat /\ Cardinality(Holding(l)) \in Nat
          BY FiniteCounts
        <4>3. lists[l].live >= Cardinality(Live(l)) + Cardinality(Holding(l))
          BY <4>1 DEF LiveInv
        <4> QED BY <4>1, <4>2, <4>3
      <3>3. CASE saved' = NoTables
        BY <2>1, <3>3, NothingSaved
      <3> QED BY <2>0, <3>1, <3>2, <3>3
              DEF Effect, NotBegun, DidRead, DidWrite, Committed, RolledBack, Collected,
              ErasedRecords, ErasedList, DeliveredOne, DeliveredAll, Inserted, Marked, Looked,
              Staged, WasReset, Chose, Swept
    <2>2. ASSUME calls'[t].step \in {"read", "rollback"}, NEW l \in Lists, saved'.lists[l].exists
          PROVE  saved'.lists[l].live = lists'[l].live
      <3>1. Began(t) \/ DidRead(t)
        BY <2>0, <2>2
           DEF Effect, NotBegun, DidWrite, Committed, RolledBack, Collected, ErasedRecords,
           ErasedList, DeliveredOne, DeliveredAll, Inserted, Marked, Looked, Staged, WasReset,
           Chose, Swept, GoesTo, Ends
      <3> QED BY <2>2, <3>1 DEF Began, DidRead, SameTables, SameTransaction, RollbackInv
    <2>3. ASSUME NEW u \in Threads \ {t}, calls'[u].step \in {"read", "rollback"},
                 NEW l \in Lists, saved'.lists[l].exists
          PROVE  saved'.lists[l].live = lists'[l].live
      <3>1. calls[u].step \in {"read", "rollback"}
        BY <2>0, <2>3, OthersStay
      <3> QED BY <2>0, <2>3, <3>1, OthersOutOfWay DEF SameTransaction, RollbackInv
    <2> QED BY <2>1, <2>2, <2>3 DEF RollbackInv
  <1>2. CASE Restarts
    BY <1>2, NothingSaved DEF Restarts, Crashes, RollbackInv
  <1>3. ASSUME SameStore,
               \A u \in Threads :
                  \/ calls'[u] = calls[u]
                  \/ calls'[u].step \in {"done", "begin", "insert", "mark", "exists", "reset"}
        PROVE  RollbackInv'
    BY <1>3 DEF SameStore, SameTables, SameTransaction, RollbackInv
  <1> QED BY <1>1, <1>2, <1>3, StoreStep

-----------------------------------------------------------------------------
(* The live sessions of a list                                               *)

LiveNext(l) == {s \in Sessions : s \in counted' /\ listOf'[s] = l}
HoldingNext(l) == {t \in Workers : Holds(calls'[t], l)}

LEMMA CountsNext == \A l \in Lists : Live(l)' = LiveNext(l) /\ Holding(l)' = HoldingNext(l)
  BY DEF Live, LiveNext, Holding, HoldingNext, Holds

\* A row that is new, or reset, counts nothing, and there is nothing to count.
LEMMA CountsAfresh ==
  ASSUME DuplicatesInv, CallersInv, TokensInv, NEW t \in Threads, Runs(t), NEW l \in Lists,
         (Inserted(t) /\ calls[t].list = l) \/ WasReset(t)
  PROVE  LiveNext(l) = {} /\ HoldingNext(l) = {}
  <1> USE DEF SameHub
  <1>0. /\ TypeInv /\ RoutesInv /\ NumbersInv /\ Workers \subseteq Threads
        /\ calls[t].step \in StepsOf(calls[t].op)
    BY WorkersAreThreads DEF DuplicatesInv, GamesInv, RoutesInv
  <1>1. LiveNext(l) = Live(l)
    BY <1>0 DEF Runs, LiveNext, Live
  <1>2. /\ \A u \in Threads \ {t} : calls'[u] = calls[u]
        /\ calls'[t].op = calls[t].op
    BY <1>0, OthersStay, CallsKept DEF Runs
  <1>3. CASE Inserted(t) /\ calls[t].list = l
    <2>1. calls[t].op = "create" /\ calls[t].step = "insert" /\ ~Settled(l) /\ Unborn(l)
      BY <1>0, <1>3 DEF Inserted, StepsOf, Releasing, Settled, NumbersInv, Births
    <2>2. Live(l) = {}
      <3>1. \A s \in Sessions : s \in counted => Settled(listOf[s])
        BY DEF TokensInv, DuplicatesInv, HiddenInv, PlayInv
      <3> QED BY <2>1, <3>1 DEF Live
    <2>3. ASSUME NEW u \in Workers, Holds(calls'[u], l) PROVE FALSE
      <3>1. Holds(calls[u], l) /\ u \in Threads
        BY <1>0, <1>2, <2>1, <2>3 DEF Holds
      <3>2. CASE calls[u].op = "end"
        BY <2>1, <3>1, <3>2 DEF Holds, TokensInv
      <3>3. CASE calls[u].op = "start" /\ calls[u].step = "commit"
        BY <1>0, <2>1, <3>1, <3>3 DEF Holds, NumbersInv, StartHolds, Unborn
      <3>4. CASE calls[u].op = "start" /\ calls[u].step = "done" /\ calls[u].ok
        BY <2>1, <3>1, <3>4 DEF Holds, DuplicatesInv, HiddenInv, PlayInv
      <3> QED BY <3>1, <3>2, <3>3, <3>4 DEF Holds
    <2> QED BY <1>1, <2>2, <2>3 DEF HoldingNext
  <1>4. CASE WasReset(t)
    <2>1. calls[t].op = "startup"
      BY <1>0, <1>4 DEF WasReset, StepsOf, Releasing
    <2>2. counted = {} /\ \A u \in Threads : calls[u].op \in {"none", "startup"}
      BY <2>1 DEF CallersInv
    <2>3. \A u \in Threads : calls'[u].op \notin {"start", "end"}
      BY <1>2, <2>1, <2>2
    <2> QED BY <1>0, <1>1, <2>2, <2>3 DEF Live, HoldingNext, Holds
  <1> QED BY <1>3, <1>4

\* The count of a list moves with the sessions and calls that it counts; a call
\* that fails, an abandoned creation and a crash leave it too high.
LEMMA CountMoves ==
  ASSUME DuplicatesInv, CountInv, Sole, GamesStep, NEW l \in Lists, lists'[l].exists
  PROVE  LET sum == Cardinality(Live(l)) + Cardinality(Holding(l))
             next == Cardinality(LiveNext(l)) + Cardinality(HoldingNext(l))
             n == lists[l].live
             m == lists'[l].live
         IN  \/ lists[l].exists /\ m - n = next - sum
             \/ lists[l].exists /\ m - n > next - sum /\ (overlapped' \/ abandoned')
             \/ m = 0 /\ next = 0
             \/ m >= 0 /\ next = 0 /\ Restarts
  <1> DEFINE Sum == Cardinality(Live(l)) + Cardinality(Holding(l))
             SumNext == Cardinality(LiveNext(l)) + Cardinality(HoldingNext(l))
             n == lists[l].live
             m == lists'[l].live
             Goal == \/ lists[l].exists /\ m - n = SumNext - Sum
                     \/ lists[l].exists /\ m - n > SumNext - Sum /\ (overlapped' \/ abandoned')
                     \/ m = 0 /\ SumNext = 0
                     \/ m >= 0 /\ SumNext = 0 /\ Restarts
  <1> USE DEF SameHub
  <1>0. /\ TypeInv /\ RoutesInv /\ IdleDone /\ NumbersInv /\ Workers \subseteq Threads
        /\ Recorder \in Threads /\ Recorder \notin Workers /\ Threads = Workers \cup {Recorder}
        /\ stage \in [Sessions -> Stages] /\ listOf \in [Sessions -> Lists \cup {NoOne}]
        /\ counted \subseteq Sessions
        /\ \A t \in Workers : calls[t].op \in {"start", "end", "mark"} => serving[t] \in Sessions
        /\ CallersInv /\ FiniteInv /\ TokensInv /\ RollbackInv /\ LiveInv
    BY IdleIsDone, WorkersAreThreads, ThreadsAssumption
    DEF DuplicatesInv, GamesInv, HubTyped, HubInv, Serves, CountInv
  <1>f. /\ IsFiniteSet(Live(l)) /\ Cardinality(Live(l)) \in Nat
        /\ IsFiniteSet(Holding(l)) /\ Cardinality(Holding(l)) \in Nat
    BY <1>0, FiniteCounts
  <1>r. lists \in [Lists -> Rows] /\ n \in Int
    BY <1>0 DEF TypeInv, TypeOK, Rows
  <1>c. \A s \in Sessions : s \in counted <=> stage[s] \in {"pending", "active"}
    BY <1>0 DEF TokensInv
  <1> DEFINE Old(t) == Holds(calls[t], l)
             New(t) == Holds(calls'[t], l)
  <1>h. ASSUME NEW t \in Threads, \A u \in Threads \ {t} : calls'[u] = calls[u]
        PROVE  /\ Cardinality(HoldingNext(l)) \in Nat
               /\ (Old(t) <=> New(t)) => Cardinality(HoldingNext(l)) = Cardinality(Holding(l))
               /\ t \in Workers /\ ~Old(t) /\ New(t) =>
                     Cardinality(HoldingNext(l)) = Cardinality(Holding(l)) + 1
               /\ t \in Workers /\ Old(t) /\ ~New(t) =>
                     Cardinality(HoldingNext(l)) = Cardinality(Holding(l)) - 1
    <2>1. HoldingNext(l) \ {t} = Holding(l) \ {t}
      BY <1>0, <1>h DEF HoldingNext, Holding
    <2>2. /\ t \in Holding(l) <=> t \in Workers /\ Old(t)
          /\ t \in HoldingNext(l) <=> t \in Workers /\ New(t)
      BY DEF HoldingNext, Holding
    <2> HIDE DEF Old, New
    <2> QED BY <1>f, <2>1, <2>2, CardChange
  <1>l. ASSUME NEW s \in Sessions,
               counted' \ {s} = counted \ {s}, \A u \in counted \ {s} : listOf'[u] = listOf[u]
        PROVE  LET old == s \in counted /\ listOf[s] = l
                   new == s \in counted' /\ listOf'[s] = l
               IN  /\ Cardinality(LiveNext(l)) \in Nat
                   /\ (old <=> new) => Cardinality(LiveNext(l)) = Cardinality(Live(l))
                   /\ ~old /\ new => Cardinality(LiveNext(l)) = Cardinality(Live(l)) + 1
                   /\ old /\ ~new => Cardinality(LiveNext(l)) = Cardinality(Live(l)) - 1
    <2>1. LiveNext(l) \ {s} = Live(l) \ {s}
      BY <1>l DEF LiveNext, Live
    <2>2. /\ s \in Live(l) <=> s \in counted /\ listOf[s] = l
          /\ s \in LiveNext(l) <=> s \in counted' /\ listOf'[s] = l
      BY DEF LiveNext, Live
    <2> QED BY <1>f, <2>1, <2>2, CardChange
  <1>s. ASSUME counted' = counted, \A s \in counted : listOf'[s] = listOf[s]
        PROVE  Cardinality(LiveNext(l)) = Cardinality(Live(l))
    <2>1. LiveNext(l) = Live(l)
      BY <1>s DEF LiveNext, Live
    <2> QED BY <2>1
  <1>e. ASSUME SameStore, SumNext = Sum PROVE Goal
    BY <1>e, <1>f, <1>r DEF SameStore, SameTables
  <1>n. ASSUME NEW t \in Threads, \A u \in Threads \ {t} : calls'[u] = calls[u], Old(t) <=> New(t),
               counted' = counted, \A s \in counted : listOf'[s] = listOf[s], SameStore
        PROVE  Goal
    BY <1>e, <1>h, <1>n, <1>s
  <1>1. ASSUME NEW t \in Threads, Runs(t) PROVE Goal
    <2>1. /\ Effect(t) /\ counted' = counted /\ listOf' = listOf /\ overlapped' = overlapped
          /\ \A u \in Threads \ {t} : calls'[u] = calls[u]
          /\ calls'[t].op = calls[t].op
      BY <1>0, <1>1, OthersStay, CallsKept DEF Runs
    <2>2. Old(t) \/ New(t) => t \in Workers
      BY <1>0, <2>1 DEF CallersInv, Holds
    <2>3. Cardinality(LiveNext(l)) = Cardinality(Live(l))
      BY <1>s, <2>1
    <2>4. NotBegun(t) => overlapped
      <3>1. SUFFICES ASSUME NotBegun(t), ~overlapped PROVE FALSE
        BY <1>0 DEF DuplicatesInv, HubTyped
      <3>2. PICK u \in Threads : owner = u
        BY <1>0, <3>1 DEF NotBegun, TypeInv, TypeOK
      <3>3. calls[u].step \in InTransaction /\ calls[t].step \notin InTransaction
        BY <1>0, <3>1, <3>2 DEF NotBegun, NumbersInv, OwnerInTransaction, InTransaction
      <3>4. ~Free(u) /\ ~Free(t)
        BY <1>0, <2>1, <3>3, RunningInFlight DEF IdleDone, InTransaction
      <3> QED BY <3>1, <3>3, <3>4 DEF Sole
    <2>5. (Inserted(t) /\ calls[t].list = l) \/ WasReset(t) => SumNext = 0
      <3>1. Cardinality({}) = 0
        BY FS_EmptySet
      <3>2. (Inserted(t) /\ calls[t].list = l) \/ WasReset(t) => LiveNext(l) = {} /\ HoldingNext(l) = {}
        BY <1>0, <1>1, CountsAfresh
      <3> QED BY <3>1, <3>2
    <2>6. \/ lists[l].exists /\ m = n /\ (New(t) <=> Old(t))
          \/ lists[l].exists /\ m = n /\ Old(t) /\ ~New(t) /\ NotBegun(t)
          \/ lists[l].exists /\ m = n + 1 /\ ~Old(t) /\ New(t)
          \/ lists[l].exists /\ m = n - 1 /\ Old(t) /\ ~New(t)
          \/ Inserted(t) /\ calls[t].list = l /\ m = 0
          \/ WasReset(t) /\ m = 0
      BY <1>0, <2>1, CountRuns
    <2> HIDE DEF Old, New
    <2> QED BY <1>f, <1>h, <1>r, <2>1, <2>2, <2>3, <2>4, <2>5, <2>6
  <1>2. ASSUME NEW t \in Threads, Requests(t) \/ Resumes(t) PROVE Goal
    <2>1. /\ \A u \in Threads \ {t} : calls'[u] = calls[u]
          /\ counted' = counted /\ listOf' = listOf /\ SameStore
          /\ calls[t].op \notin {"start", "end"} /\ calls'[t].op \notin {"start", "end"}
      BY <1>2 DEF Requests, Resumes, Asks, Leaves, Placed, Free
    <2>2. ~Old(t) /\ ~New(t)
      BY <2>1 DEF Holds
    <2> QED BY <1>n, <2>1, <2>2
  <1>3. ASSUME NEW t \in Workers, NEW s \in Sessions, NEW k \in Lists, Creates(t, s, k)
        PROVE  Goal
    <2>1. /\ \A u \in Threads \ {t} : calls'[u] = calls[u]
          /\ counted' = counted /\ listOf' = [listOf EXCEPT ![s] = k] /\ SameStore
          /\ calls[t].op = "none" /\ calls'[t].op = "start" /\ calls'[t].step = "begin"
          /\ s \notin counted
      BY <1>0, <1>3 DEF Creates, Asks, Placed, Free, FirstStep, TokensInv
    <2>2. ~Old(t) /\ ~New(t)
      BY <2>1 DEF Holds
    <2>3. \A u \in counted : listOf'[u] = listOf[u]
      BY <1>0, <2>1
    <2> QED BY <1>0, <1>n, <2>1, <2>2, <2>3
  <1>4. ASSUME NEW t \in Workers, NEW s \in Sessions, Activates(t, s) PROVE Goal
    <2>1. /\ \A u \in Threads \ {t} : calls'[u] = calls[u]
          /\ counted' = counted /\ listOf' = listOf /\ SameStore
          /\ calls[t].op = "none" /\ calls'[t].op = "mark"
      BY <1>4 DEF Activates, Asks, Placed, Free
    <2>2. ~Old(t) /\ ~New(t)
      BY <2>1 DEF Holds
    <2> QED BY <1>0, <1>n, <2>1, <2>2
  <1>5. ASSUME NEW t \in Workers, NEW s \in Sessions, Completes(t, s) PROVE Goal
    <2>1. /\ \A u \in Threads \ {t} : calls'[u] = calls[u]
          /\ counted' = counted \ {s} /\ s \in counted /\ listOf' = listOf /\ SameStore
          /\ calls[t].op = "none" /\ calls'[t].op = "end" /\ calls'[t].step = "begin"
          /\ calls'[t].list = listOf[s]
      BY <1>5 DEF Completes, Asks, Placed, Free, FirstStep
    <2>2. ~Old(t) /\ (New(t) <=> listOf[s] = l)
      BY <2>1 DEF Holds
    <2>3. counted' \ {s} = counted \ {s} /\ s \notin counted'
      BY <2>1
    <2> HIDE DEF Old, New
    <2>4. CASE listOf[s] = l
      <3>1. Cardinality(LiveNext(l)) = Cardinality(Live(l)) - 1
        BY <1>l, <2>1, <2>3, <2>4
      <3>2. Cardinality(HoldingNext(l)) = Cardinality(Holding(l)) + 1
        BY <1>0, <1>h, <2>1, <2>2, <2>4
      <3> QED BY <1>e, <1>f, <2>1, <3>1, <3>2
    <2>5. CASE listOf[s] # l
      <3>1. Cardinality(LiveNext(l)) = Cardinality(Live(l))
        BY <1>l, <2>1, <2>3, <2>5
      <3>2. Cardinality(HoldingNext(l)) = Cardinality(Holding(l))
        BY <1>0, <1>h, <2>1, <2>2, <2>5
      <3> QED BY <1>e, <1>f, <2>1, <3>1, <3>2
    <2> QED BY <2>4, <2>5
  <1>6. ASSUME NEW t \in Workers, Created(t) PROVE Goal
    <2> DEFINE s == serving[t]
    <2>1. /\ \A u \in Threads \ {t} : calls'[u] = calls[u]
          /\ listOf' = listOf /\ SameStore
          /\ calls[t].op = "start" /\ calls[t].step = "done" /\ calls'[t].op = "none"
      BY <1>6 DEF Created, Leaves
    <2>2. s \in Sessions /\ s \notin counted /\ listOf[s] = calls[t].list
      BY <1>0, <2>1 DEF TokensInv, DuplicatesInv, HiddenInv, PlayInv
    <2>3. ~New(t) /\ (Old(t) <=> calls[t].ok /\ listOf[s] = l)
      BY <2>1, <2>2 DEF Holds
    <2>4. \/ calls[t].ok /\ counted' = counted \cup {s}
          \/ counted' = counted /\ (calls[t].ok => abandoned')
      BY <1>6 DEF Created
    <2> HIDE DEF Old, New, s
    <2>5. CASE counted' = counted
      <3>1. Cardinality(LiveNext(l)) = Cardinality(Live(l))
        BY <1>s, <2>1, <2>5
      <3>2. CASE ~Old(t)
        BY <1>0, <1>e, <1>h, <2>1, <2>3, <3>1, <3>2
      <3>3. CASE Old(t)
        <4>1. Cardinality(HoldingNext(l)) = Cardinality(Holding(l)) - 1
          BY <1>0, <1>h, <2>1, <2>3, <3>3
        <4>2. abandoned'
          BY <2>2, <2>3, <2>4, <2>5, <3>3
        <4>3. lists[l].exists /\ m = n
          BY <2>1 DEF SameStore, SameTables
        <4>4. m - n > SumNext - Sum
          BY <1>f, <1>r, <3>1, <4>1, <4>3
        <4> QED BY <4>2, <4>3, <4>4
      <3> QED BY <3>2, <3>3
    <2>6. CASE calls[t].ok /\ counted' = counted \cup {s}
      <3>1. CASE listOf[s] = l
        <4>1. Cardinality(LiveNext(l)) = Cardinality(Live(l)) + 1
          BY <1>l, <2>1, <2>2, <2>6, <3>1
        <4>2. Cardinality(HoldingNext(l)) = Cardinality(Holding(l)) - 1
          BY <1>0, <1>h, <2>1, <2>3, <2>6, <3>1
        <4> QED BY <1>e, <1>f, <2>1, <4>1, <4>2
      <3>2. CASE listOf[s] # l
        <4>1. Cardinality(LiveNext(l)) = Cardinality(Live(l))
          BY <1>l, <2>1, <2>2, <2>6, <3>2
        <4>2. Cardinality(HoldingNext(l)) = Cardinality(Holding(l))
          BY <1>0, <1>h, <2>1, <2>3, <2>6, <3>2
        <4> QED BY <1>e, <1>f, <2>1, <4>1, <4>2
      <3> QED BY <3>1, <3>2
    <2> QED BY <2>4, <2>5, <2>6
  <1>7. ASSUME NEW t \in Workers, MarkedOne(t) \/ Completed(t) PROVE Goal
    <2>1. /\ \A u \in Threads \ {t} : calls'[u] = calls[u]
          /\ counted' = counted /\ listOf' = listOf /\ SameStore
          /\ calls[t].op \in {"mark", "end"} /\ calls[t].step = "done" /\ calls'[t].op = "none"
      BY <1>7 DEF MarkedOne, Completed, Leaves
    <2>2. ~Old(t) /\ ~New(t)
      BY <2>1 DEF Holds
    <2> QED BY <1>0, <1>n, <2>1, <2>2
  <1>8. ASSUME NEW t \in Workers, TakesBack(t) PROVE Goal
    <2>1. /\ \A u \in Threads \ {t} : calls'[u] = calls[u]
          /\ counted' = counted /\ listOf' = listOf /\ SameStore
          /\ calls[t].op = "start" /\ calls[t].step = "done" /\ calls[t].ok
          /\ calls'[t].op = "end" /\ calls'[t].step = "begin" /\ calls'[t].list = calls[t].list
      BY <1>8 DEF TakesBack, Placed, FirstStep
    <2>2. Old(t) <=> New(t)
      BY <2>1 DEF Holds
    <2> QED BY <1>0, <1>n, <2>1, <2>2
  <1>9. ASSUME NEW t \in Workers, Boots(t) PROVE Goal
    <2>1. /\ \A u \in Threads \ {t} : calls'[u] = calls[u]
          /\ counted' = counted /\ listOf' = listOf /\ SameStore
          /\ calls[t].op = "none" /\ calls'[t].op = "startup"
      BY <1>0, <1>9 DEF Boots, Placed, InFlight, Free
    <2>2. ~Old(t) /\ ~New(t)
      BY <2>1 DEF Holds
    <2> QED BY <1>0, <1>n, <2>1, <2>2
  <1>10. CASE Pauses
    BY <1>0, <1>n, <1>10 DEF Pauses
  <1>11. ASSUME Restarts PROVE Goal
    <2>1. LiveNext(l) = {} /\ HoldingNext(l) = {}
      BY <1>0, <1>11 DEF Restarts, Crashes, LiveNext, HoldingNext, Holds
    <2>2. SumNext = 0
      BY <2>1, FS_EmptySet
    <2>3. m >= 0
      <3>1. CASE lists' = lists
        BY <1>0, <1>f, <1>r, <3>1 DEF LiveInv
      <3>2. CASE lists' = saved.lists
        BY <1>0, <3>2 DEF RollbackInv
      <3> QED BY <1>11, <3>1, <3>2 DEF Restarts, Crashes
    <2> QED BY <1>11, <2>2, <2>3
  <1>12. Goal
    BY <1>1, <1>2, <1>3, <1>4, <1>5, <1>6, <1>7, <1>8, <1>9, <1>10, <1>11 DEF GamesStep
  <1> QED BY <1>12

LEMMA LiveStep ==
  ASSUME DuplicatesInv, CountInv, Sole, GamesStep, TypeInv', FiniteInv'
  PROVE  LiveInv'
  <1>1. SUFFICES ASSUME NEW l \in Lists, lists'[l].exists
                 PROVE  lists'[l].live >= Cardinality(LiveNext(l)) + Cardinality(HoldingNext(l))
    BY CountsNext DEF LiveInv
  <1> DEFINE Sum == Cardinality(Live(l)) + Cardinality(Holding(l))
             SumNext == Cardinality(LiveNext(l)) + Cardinality(HoldingNext(l))
             n == lists[l].live
             m == lists'[l].live
  <1>2. Sum \in Nat /\ (lists[l].exists => n >= Sum)
    <2>1. Cardinality(Live(l)) \in Nat /\ Cardinality(Holding(l)) \in Nat
      BY FiniteCounts DEF CountInv
    <2> QED BY <2>1 DEF CountInv, LiveInv
  <1>3. n \in Int /\ m \in Int
    <2>1. lists[l] \in Rows /\ lists'[l] \in Rows
      BY DEF DuplicatesInv, GamesInv, TypeInv, TypeOK
    <2> QED BY <2>1 DEF Rows
  <1>4. SumNext \in Nat
    <2>1. (FiniteInv => Cardinality(Live(l)) \in Nat /\ Cardinality(Holding(l)) \in Nat)'
      BY FiniteCounts, PTL
    <2> QED BY <2>1, CountsNext
  <1>5. \/ lists[l].exists /\ m - n = SumNext - Sum
        \/ lists[l].exists /\ m - n > SumNext - Sum /\ (overlapped' \/ abandoned')
        \/ m = 0 /\ SumNext = 0
        \/ m >= 0 /\ SumNext = 0 /\ Restarts
    BY <1>1, CountMoves
  <1> HIDE DEF Sum, SumNext, n, m
  <1>6. m >= SumNext
    BY <1>2, <1>3, <1>4, <1>5
  <1> QED BY <1>6 DEF m, SumNext

LEMMA CountInit == GamesInit => CountInv /\ Sole
  <1> SUFFICES ASSUME GamesInit PROVE CountInv /\ Sole
    OBVIOUS
  <1>1. /\ \A t \in Threads : calls[t].op = "none" /\ calls[t].step = "done"
        /\ ~up /\ counted = {} /\ marked = {} /\ lists = [l \in Lists |-> NoRow]
        /\ saved = NoTables /\ stage = [s \in Sessions |-> "none"]
        /\ Workers \subseteq Threads /\ Recorder \in Threads
    BY WorkersAreThreads DEF GamesInit, Init, Idle
  <1>2. InFlight = {}
    BY <1>1 DEF InFlight, Free
  <1>3. CallersInv /\ Sole
    BY <1>1 DEF CallersInv, Sole, Free
  <1>4. FiniteInv
    BY <1>1, <1>2, FS_EmptySet DEF FiniteInv
  <1>5. TokensInv
    BY <1>1 DEF TokensInv
  <1>6. RollbackInv
    BY <1>1, NothingSaved DEF RollbackInv
  <1>7. LiveInv
    BY <1>1 DEF LiveInv, NoRow
  <1> QED BY <1>3, <1>4, <1>5, <1>6, <1>7 DEF CountInv

LEMMA CountNext ==
  ASSUME DuplicatesInv, DuplicatesInv', CountInv, Sole, [GamesNext]_allVars
  PROVE  CountInv' /\ Sole'
  <1>1. GamesStep /\ [Next]_vars
    BY GamesEffect, StepsOfStore DEF DuplicatesInv
  <1>2. Sole' /\ TypeInv'
    BY SoleStep DEF DuplicatesInv, GamesInv
  <1>3. CallersInv' /\ FiniteInv' /\ TokensInv' /\ RollbackInv'
    BY <1>1, CallersStep, FiniteStep, TokensStep, RollbackStep DEF CountInv
  <1>4. LiveInv'
    BY <1>1, <1>2, <1>3, LiveStep
  <1> QED BY <1>2, <1>3, <1>4 DEF CountInv

LEMMA CountInvHolds == GamesSpec => [](CountInv /\ Sole)
  <1>1. DuplicatesInv /\ DuplicatesInv' /\ CountInv /\ Sole /\ [GamesNext]_allVars
        => CountInv' /\ Sole'
    BY CountNext
  <1> QED BY <1>1, CountInit, DuplicatesInvHolds, PTL DEF GamesSpec

\* A list counts at least the sessions that play it, whatever overlaps, fails
\* or is abandoned and wherever the server crashes: every path that takes one
\* off a list has first put one on it.
THEOREM NeverUndercountedHolds == GamesSpec => []NeverUndercounted
  <1>1. DuplicatesInv /\ CountInv => NeverUndercounted
    <2> SUFFICES ASSUME DuplicatesInv, CountInv, NEW l \in Lists, lists[l].exists
                 PROVE  lists[l].live >= Cardinality(Live(l))
      BY DEF NeverUndercounted
    <2>1. Cardinality(Live(l)) \in Nat /\ Cardinality(Holding(l)) \in Nat
      BY FiniteCounts DEF CountInv
    <2>2. lists[l].live >= Cardinality(Live(l)) + Cardinality(Holding(l))
      BY DEF CountInv, LiveInv
    <2>3. lists[l].live \in Int
      BY DEF DuplicatesInv, GamesInv, TypeInv, TypeOK, Rows
    <2> QED BY <2>1, <2>2, <2>3
  <1> QED BY <1>1, CountInvHolds, DuplicatesInvHolds, PTL

-----------------------------------------------------------------------------
(* The counters when calls come one at a time                                *)

\* The caller of a step, and nobody else, is in a call before or after it.
LEMMA LoneCall ==
  ASSUME Sole, Sole', ~overlapped, ~overlapped', NEW t \in Threads, NEW u \in Threads,
         \A v \in Threads \ {u} : calls'[v] = calls[v],
         calls[u].op # "none" \/ calls'[u].op # "none", calls'[t].op # "none"
  PROVE  t = u
  <1>1. \A v, w \in Threads : calls[v].op # "none" /\ calls[w].op # "none" => v = w
    BY DEF Sole, Free
  <1>2. \A v, w \in Threads : calls'[v].op # "none" /\ calls'[w].op # "none" => v = w
    BY DEF Sole, Free
  <1> QED BY <1>1, <1>2

\* BEGIN fails only under the transaction of another call.
LEMMA RefusedBegin ==
  ASSUME DuplicatesInv, Sole, NEW t \in Threads, Effect(t), NotBegun(t)
  PROVE  overlapped
  <1>0. TypeInv /\ RoutesInv /\ NumbersInv /\ IdleDone
    BY IdleIsDone DEF DuplicatesInv, GamesInv
  <1>1. SUFFICES ASSUME ~overlapped PROVE FALSE
    BY DEF DuplicatesInv, HubTyped
  <1>2. PICK u \in Threads : owner = u
    BY <1>0 DEF NotBegun, TypeInv, TypeOK
  <1>3. calls[u].step \in InTransaction /\ calls[t].step \notin InTransaction
    BY <1>0, <1>2 DEF NotBegun, NumbersInv, OwnerInTransaction, InTransaction
  <1>4. ~Free(u) /\ ~Free(t)
    BY <1>0, <1>3, RunningInFlight DEF IdleDone, InTransaction
  <1> QED BY <1>1, <1>3, <1>4 DEF Sole

LEMMA OrderlyBefore ==
  ASSUME DuplicatesInv, Sole, GamesStep, [GamesNext]_allVars, Orderly'
  PROVE  Orderly /\ ~overlapped'
  <1>1. overlapped => overlapped'
    BY SoleStep DEF DuplicatesInv
  <1>2. abandoned => abandoned'
    BY DEF GamesStep, Runs, Requests, Creates, Activates, Completes, Created, MarkedOne, Completed,
       TakesBack, Boots, Resumes, Pauses, Restarts, SameHub
  <1> QED BY <1>1, <1>2 DEF Orderly

LEMMA MarkedStep ==
  ASSUME DuplicatesInv, CountInv, Sole, Sole', MarkedInv, GamesStep, [GamesNext]_allVars
  PROVE  MarkedInv'
  <1> USE DEF SameHub
  <1>0. /\ TypeInv /\ RoutesInv /\ IdleDone /\ NumbersInv /\ Workers \subseteq Threads
        /\ stage \in [Sessions -> Stages] /\ listOf \in [Sessions -> Lists \cup {NoOne}]
        /\ serving \in [Workers -> Sessions \cup {NoOne}] /\ marked \subseteq Sessions
        /\ \A t \in Workers : calls[t].op \in {"start", "end", "mark"} => serving[t] \in Sessions
        /\ TokensInv
    BY IdleIsDone, WorkersAreThreads
    DEF DuplicatesInv, GamesInv, HubTyped, HubInv, Serves, CountInv
  <1>1. SUFFICES ASSUME ~overlapped' PROVE MarkedInv'
    BY DEF MarkedInv
  <1>2. ~overlapped
    BY <1>1, SoleStep DEF DuplicatesInv
  <1>3. /\ \A s \in marked : stage[s] = "active"
        /\ \A t \in Workers : calls[t].op = "mark" =>
              /\ stage[serving[t]] = "active" /\ serving[t] \notin marked
              /\ listOf[serving[t]] = calls[t].list
        /\ \A t \in Threads : calls[t].step \in {"read", "rollback"} => saved.lists = lists
    BY <1>2 DEF MarkedInv
  <1> DEFINE Playing == \A s \in marked' : stage'[s] = "active"
             Marker(t) == calls'[t].op = "mark" =>
                /\ stage'[serving'[t]] = "active" /\ serving'[t] \notin marked'
                /\ listOf'[serving'[t]] = calls'[t].list
             RowsKept == \A t \in Threads : calls'[t].step \in {"read", "rollback"} =>
                         saved'.lists = lists'
  <1>4. RowsKept
    <2>1. ASSUME NEW u \in Threads, Runs(u) PROVE RowsKept
      <3>1. ~Free(u) /\ \A t \in Threads \ {u} : Free(t)
        BY <1>0, <1>2, <2>1, RunningInFlight DEF Runs, Sole
      <3>2. \A t \in Threads \ {u} : calls'[t].step = "done"
        BY <1>0, <2>1, <3>1, OthersStay DEF Runs, IdleDone
      <3>3. calls'[u].step \in {"read", "rollback"} => Began(u) \/ DidRead(u)
        BY <2>1
           DEF Runs, Effect, NotBegun, DidWrite, Committed, RolledBack, Collected, ErasedRecords,
           ErasedList, DeliveredOne, DeliveredAll, Inserted, Marked, Looked, Staged, WasReset,
           Chose, Swept, GoesTo, Ends
      <3>4. Began(u) \/ DidRead(u) => saved'.lists = lists'
        BY <1>3 DEF Began, DidRead, SameTables, SameTransaction
      <3> QED BY <3>2, <3>3, <3>4
    <2>2. CASE Restarts
      BY <2>2 DEF Restarts, Crashes
    <2>3. ASSUME SameStore,
                 \A u \in Threads :
                    \/ calls'[u] = calls[u]
                    \/ calls'[u].step \in {"done", "begin", "insert", "mark", "exists", "reset"}
          PROVE  RowsKept
      BY <1>3, <2>3 DEF SameStore, SameTables, SameTransaction
    <2> QED BY <2>1, <2>2, <2>3, StoreStep
  <1>q. ASSUME Playing, \A t \in Workers : Marker(t) PROVE MarkedInv'
    BY <1>4, <1>q DEF MarkedInv
  <1> HIDE DEF RowsKept
  \* A step that calls or returns: nobody else is marking.
  <1>l. ASSUME NEW u \in Threads, \A v \in Threads \ {u} : calls'[v] = calls[v],
               calls[u].op # "none" \/ calls'[u].op # "none",
               NEW t \in Workers, calls'[t].op = "mark"
        PROVE  t = u
    BY <1>0, <1>1, <1>2, <1>l, LoneCall
  <1>k. ASSUME UNCHANGED <<stage, listOf, marked, serving>>,
               \A t \in Workers : \/ calls'[t].op # "mark"
                                  \/ calls'[t].op = calls[t].op /\ calls'[t].list = calls[t].list
        PROVE  MarkedInv'
    BY <1>3, <1>k, <1>q
  <1>5. ASSUME NEW u \in Threads, Runs(u) PROVE MarkedInv'
    <2>1. \A t \in Workers : /\ calls'[t].op = calls[t].op
                             /\ calls[t].op # "startup" => calls'[t].list = calls[t].list
      BY <1>0, <1>5, CallsKept DEF Runs
    <2> QED BY <1>5, <1>k, <2>1 DEF Runs
  <1>6. ASSUME NEW u \in Threads, Requests(u) \/ Resumes(u) PROVE MarkedInv'
    <2>1. \A t \in Workers : calls'[t] = calls[t] \/ calls'[t].op # "mark"
      BY <1>0, <1>6 DEF Requests, Resumes, Asks, Leaves, Placed
    <2> QED BY <1>6, <1>k, <2>1 DEF Requests, Resumes
  <1>7. ASSUME NEW u \in Workers, NEW s \in Sessions, NEW l \in Lists, Creates(u, s, l)
        PROVE  MarkedInv'
    <2>1. /\ calls'[u].op = "start" /\ \A v \in Threads \ {u} : calls'[v] = calls[v]
          /\ stage' = [stage EXCEPT ![s] = "creating"] /\ stage[s] = "none" /\ marked' = marked
      BY <1>7 DEF Creates, Asks, Placed
    <2>2. \A t \in Workers : Marker(t)
      BY <1>0, <1>l, <2>1
    <2>3. Playing
      BY <1>0, <1>3, <2>1
    <2> QED BY <1>q, <2>2, <2>3
  <1>8. ASSUME NEW u \in Workers, NEW s \in Sessions, Activates(u, s) PROVE MarkedInv'
    <2>1. /\ calls'[u].op = "mark" /\ \A v \in Threads \ {u} : calls'[v] = calls[v]
          /\ calls'[u].list = listOf[s] /\ serving' = [serving EXCEPT ![u] = s]
          /\ stage' = [stage EXCEPT ![s] = "active"] /\ stage[s] = "pending"
          /\ marked' = marked /\ listOf' = listOf
      BY <1>8 DEF Activates, Asks, Placed
    <2>2. s \notin marked
      BY <1>3, <2>1
    <2>3. Marker(u)
      BY <1>0, <2>1, <2>2
    <2>4. \A t \in Workers : Marker(t)
      BY <1>0, <1>l, <2>1, <2>3
    <2>5. Playing
      BY <1>0, <1>3, <2>1
    <2> QED BY <1>q, <2>4, <2>5
  <1>9. ASSUME NEW u \in Workers, NEW s \in Sessions, Completes(u, s) PROVE MarkedInv'
    <2>1. /\ calls'[u].op = "end" /\ \A v \in Threads \ {u} : calls'[v] = calls[v]
          /\ marked' = marked \ {s}
      BY <1>9 DEF Completes, Asks, Placed
    <2>0. PICK next \in {"ending", "gone"} : stage' = [stage EXCEPT ![s] = next]
      BY <1>9 DEF Completes
    <2>2. \A t \in Workers : Marker(t)
      BY <1>0, <1>l, <2>1
    <2>3. Playing
      BY <1>0, <1>3, <2>0, <2>1
    <2> QED BY <1>q, <2>2, <2>3
  <1>10. ASSUME NEW u \in Workers, Created(u) \/ Completed(u) PROVE MarkedInv'
    <2>1. /\ calls[u].op \in {"start", "end"} /\ calls'[u].op = "none"
          /\ \A v \in Threads \ {u} : calls'[v] = calls[v]
          /\ marked' = marked
      BY <1>10 DEF Created, Completed, Leaves
    <2>2. \A t \in Workers : Marker(t)
      BY <1>0, <1>l, <2>1
    <2>3. serving[u] \in Sessions /\ stage[serving[u]] # "active"
      BY <1>0, <2>1 DEF TokensInv
    <2>4. \A s \in Sessions \ {serving[u]} : stage'[s] = stage[s]
      BY <1>0, <1>10 DEF Created, Completed
    <2>5. Playing
      BY <1>0, <1>3, <1>10, <2>3, <2>4 DEF Created, Completed
    <2> QED BY <1>q, <2>2, <2>5
  <1>11. ASSUME NEW u \in Workers, MarkedOne(u) PROVE MarkedInv'
    <2>1. /\ calls[u].op = "mark" /\ calls'[u].op = "none" /\ stage' = stage
          /\ \A v \in Threads \ {u} : calls'[v] = calls[v]
          /\ marked' = marked \cup {serving[u]}
      BY <1>11 DEF MarkedOne, Leaves
    <2>2. \A t \in Workers : Marker(t)
      BY <1>0, <1>l, <2>1
    <2>3. Playing
      BY <1>3, <2>1
    <2> QED BY <1>q, <2>2, <2>3
  <1>12. ASSUME NEW u \in Workers, TakesBack(u) \/ Boots(u) PROVE MarkedInv'
    BY <1>0, <1>k, <1>12 DEF TakesBack, Boots, Placed
  <1>13. CASE Pauses
    BY <1>k, <1>13 DEF Pauses
  <1>14. CASE Restarts
    <2>1. \A t \in Workers : calls'[t].op = "none"
      BY <1>0, <1>14 DEF Restarts, Crashes
    <2>2. marked' = {}
      BY <1>14 DEF Restarts
    <2> QED BY <1>q, <2>1, <2>2
  <1> QED BY <1>5, <1>6, <1>7, <1>8, <1>9, <1>10, <1>11, <1>12, <1>13, <1>14 DEF GamesStep

MarkingNext(l) == {t \in Workers : Marks(calls'[t], l)}

LEMMA MarkingIsNext == \A l \in Lists : Marking(l)' = MarkingNext(l)
  BY DEF Marking, MarkingNext, Marks, Holds

\* What a statement does to the count of started sessions of a list, and to the
\* session that its call counts.
LEMMA StartedRuns ==
  ASSUME DuplicatesInv, CallersInv, Sole, ~overlapped, MarkedInv, NEW t \in Threads, Effect(t),
         NEW l \in Lists, lists'[l].exists
  PROVE  LET old == Marks(calls[t], l)
             new == Marks(calls'[t], l)
             n == lists[l].started
             m == lists'[l].started
         IN  \/ lists[l].exists /\ m = n /\ (new <=> old)
             \/ lists[l].exists /\ m = n + 1 /\ ~old /\ new
             \/ lists[l].exists /\ (n > 0 => m = n - 1) /\ old /\ ~new
             \/ Inserted(t) /\ calls[t].list = l /\ m = 0
             \/ WasReset(t) /\ m = 0
  <1> DEFINE old == Marks(calls[t], l)
             new == Marks(calls'[t], l)
             n == lists[l].started
             m == lists'[l].started
             Goal == \/ lists[l].exists /\ m = n /\ (new <=> old)
                     \/ lists[l].exists /\ m = n + 1 /\ ~old /\ new
                     \/ lists[l].exists /\ (n > 0 => m = n - 1) /\ old /\ ~new
                     \/ Inserted(t) /\ calls[t].list = l /\ m = 0
                     \/ WasReset(t) /\ m = 0
  <1>0. TypeInv /\ RoutesInv /\ SavedInv /\ NumbersInv
    BY DEF DuplicatesInv, GamesInv, HiddenInv
  <1>1. calls[t].step \in StepsOf(calls[t].op)
    BY <1>0 DEF RoutesInv
  <1>2. /\ calls'[t].op = calls[t].op /\ calls'[t].started = calls[t].started
        /\ calls[t].op # "startup" => calls'[t].list = calls[t].list
    BY <1>0, CallsKept
  <1> USE DEF GoesTo, Ends, SameTables
  <1>3. CASE Began(t)
    BY <1>1, <1>2, <1>3 DEF Began, Marks, Holds, StepsOf, Releasing
  <1>4. CASE NotBegun(t)
    BY <1>4, RefusedBegin
  <1>5. CASE DidRead(t)
    <2>1. LET next == AfterRead(calls[t], lists[calls[t].list]) IN
          /\ next \in {"rollback", "commit", "commit, release", "write"}
          /\ calls[t].op = "end" => next # "rollback"
          /\ calls[t].op # "mark"
          /\ calls[t].op = "end" /\ next = "commit" => ~lists[calls[t].list].exists
      BY <1>0, <1>5, ReadChoices DEF DidRead, AfterRead, Refused
    <2> QED BY <1>2, <1>5, <2>1 DEF DidRead, Marks, Holds
  <1>6. CASE DidWrite(t)
    <2>1. calls[t].op \in {"start", "end", "extend", "force"}
      BY <1>1, <1>6 DEF DidWrite, StepsOf, Releasing
    <2>2. CASE l = calls[t].list
      <3>1. /\ lists'[l].exists = lists[l].exists
            /\ m = IF calls[t].op = "end" /\ calls[t].started /\ n > 0 THEN n - 1 ELSE n
            /\ calls[t].step = "write" /\ calls'[t].step = "commit"
        BY <1>6, <2>2 DEF DidWrite, RowChanges
      <3>2. /\ old <=> calls[t].op = "end" /\ calls[t].started
            /\ ~new
        BY <1>2, <2>1, <2>2, <3>1 DEF Marks, Holds
      <3> QED BY <3>1, <3>2
    <2>3. CASE l # calls[t].list
      BY <1>2, <1>6, <2>1, <2>3 DEF DidWrite, Marks, Holds
    <2> QED BY <2>2, <2>3
  <1>7. CASE Committed(t)
    BY <1>1, <1>2, <1>7 DEF Committed, Marks, Holds, StepsOf, Releasing
  <1>8. CASE RolledBack(t)
    <2>1. calls[t].op \notin {"end", "mark"} /\ calls[t].step = "rollback"
      BY <1>1, <1>8 DEF RolledBack, StepsOf, Releasing
    <2>2. lists' = lists
      BY <1>8, <2>1 DEF RolledBack, MarkedInv
    <2> QED BY <1>2, <2>1, <2>2 DEF Marks, Holds
  <1>9. CASE Collected(t) \/ ErasedRecords(t)
    BY <1>1, <1>2, <1>9 DEF Collected, ErasedRecords, Marks, Holds, StepsOf
  <1>10. CASE ErasedList(t)
    <2>1. l # calls[t].list /\ calls[t].op # "mark"
      BY <1>1, <1>10 DEF ErasedList, StepsOf
    <2>2. calls[t].op = "end" => calls'[t].list = calls[t].list
      BY <1>2
    <2> QED BY <1>2, <1>10, <2>1, <2>2 DEF ErasedList, Marks, Holds
  <1>11. CASE DeliveredOne(t) \/ DeliveredAll(t)
    <2>1. calls[t].op \notin {"start", "mark"}
      BY <1>1, <1>11 DEF DeliveredOne, DeliveredAll, StepsOf
    <2> QED BY <1>2, <1>11, <2>1 DEF DeliveredOne, DeliveredAll, Marks, Holds
  <1>12. CASE Inserted(t)
    <2>1. calls[t].op = "create"
      BY <1>1, <1>12 DEF Inserted, StepsOf, Releasing
    <2> QED BY <1>2, <1>12, <2>1 DEF Inserted, Marks, Holds
  <1>13. CASE Marked(t)
    <2>1. calls[t].op = "mark" /\ calls[t].step = "mark" /\ calls'[t].step = "done"
      BY <1>1, <1>13 DEF Marked, StepsOf, Releasing
    <2>2. ~old /\ (new <=> calls[t].list = l)
      BY <1>2, <2>1 DEF Marks, Holds
    <2>3. IF calls[t].list = l THEN lists[l].exists /\ m = n + 1 ELSE lists'[l] = lists[l]
      BY <1>13 DEF Marked
    <2> QED BY <2>2, <2>3
  <1>14. CASE Looked(t) \/ Staged(t)
    <2>1. calls[t].op = "stage"
      BY <1>1, <1>14 DEF Looked, Staged, StepsOf, Releasing
    <2> QED BY <1>2, <1>14, <2>1 DEF Looked, Staged, Marks, Holds
  <1>15. CASE WasReset(t)
    BY <1>15 DEF WasReset
  <1>16. CASE Chose(t) \/ Swept(t)
    <2>1. calls[t].op = "startup"
      BY <1>1, <1>16 DEF Chose, Swept, StepsOf, Releasing
    <2> QED BY <1>2, <1>16, <2>1 DEF Chose, Swept, Marks, Holds
  <1>17. Goal
    BY <1>3, <1>4, <1>5, <1>6, <1>7, <1>8, <1>9, <1>10, <1>11, <1>12, <1>13, <1>14, <1>15, <1>16
    DEF Effect
  <1> QED BY <1>17

\* The count of started sessions of a list stays that of the marked sessions
\* and of the calls that mark one or take one off.
LEMMA StartedMoves ==
  ASSUME DuplicatesInv, CountInv, Sole, Sole', MarkedInv, GamesStep, ~overlapped, ~overlapped',
         ~Restarts, NEW l \in Lists, lists'[l].exists,
         lists[l].exists => lists[l].started = Cardinality(Live(l) \cap marked) + Cardinality(Marking(l))
  PROVE  \/ lists'[l].started = Cardinality(LiveNext(l) \cap marked') + Cardinality(MarkingNext(l))
         \/ \E t \in Threads : Runs(t) /\ WasReset(t)
  <1> DEFINE On == Live(l) \cap marked
             OnNext == LiveNext(l) \cap marked'
             n == lists[l].started
             m == lists'[l].started
             Goal == \/ m = Cardinality(OnNext) + Cardinality(MarkingNext(l))
                     \/ \E t \in Threads : Runs(t) /\ WasReset(t)
  <1> USE DEF SameHub
  <1>0. /\ TypeInv /\ RoutesInv /\ IdleDone /\ NumbersInv /\ Workers \subseteq Threads
        /\ Recorder \in Threads /\ Recorder \notin Workers /\ Threads = Workers \cup {Recorder}
        /\ stage \in [Sessions -> Stages] /\ listOf \in [Sessions -> Lists \cup {NoOne}]
        /\ counted \subseteq Sessions /\ marked \subseteq Sessions
        /\ \A t \in Workers : calls[t].op \in {"start", "end", "mark"} => serving[t] \in Sessions
        /\ CallersInv /\ FiniteInv /\ TokensInv
    BY IdleIsDone, WorkersAreThreads, ThreadsAssumption
    DEF DuplicatesInv, GamesInv, HubTyped, HubInv, Serves, CountInv
  <1>f. /\ IsFiniteSet(On) /\ Cardinality(On) \in Nat
        /\ IsFiniteSet(Marking(l)) /\ Cardinality(Marking(l)) \in Nat
    BY <1>0, FiniteCounts
  <1>r. n \in Nat
    BY <1>0 DEF TypeInv, TypeOK, Rows
  <1>x. lists[l].exists => n = Cardinality(On) + Cardinality(Marking(l))
    OBVIOUS
  <1>m. /\ \A s \in marked : stage[s] = "active" /\ s \in counted
        /\ \A t \in Workers : calls[t].op = "mark" =>
              /\ serving[t] \in counted /\ serving[t] \notin marked
              /\ listOf[serving[t]] = calls[t].list
    BY <1>0 DEF MarkedInv, TokensInv
  <1> DEFINE Old(t) == Marks(calls[t], l)
             New(t) == Marks(calls'[t], l)
  <1>h. ASSUME NEW t \in Threads, \A u \in Threads \ {t} : calls'[u] = calls[u]
        PROVE  /\ Cardinality(MarkingNext(l)) \in Nat
               /\ (Old(t) <=> New(t)) => Cardinality(MarkingNext(l)) = Cardinality(Marking(l))
               /\ t \in Workers /\ ~Old(t) /\ New(t) =>
                     Cardinality(MarkingNext(l)) = Cardinality(Marking(l)) + 1
               /\ t \in Workers /\ Old(t) /\ ~New(t) =>
                     /\ Cardinality(MarkingNext(l)) = Cardinality(Marking(l)) - 1
                     /\ Cardinality(Marking(l)) >= 1
    <2>1. MarkingNext(l) \ {t} = Marking(l) \ {t}
      BY <1>0, <1>h DEF MarkingNext, Marking
    <2>2. /\ t \in Marking(l) <=> t \in Workers /\ Old(t)
          /\ t \in MarkingNext(l) <=> t \in Workers /\ New(t)
      BY DEF MarkingNext, Marking
    <2> HIDE DEF Old, New
    <2>3. /\ Cardinality(MarkingNext(l)) \in Nat
          /\ (t \in Marking(l) <=> t \in MarkingNext(l)) =>
                Cardinality(MarkingNext(l)) = Cardinality(Marking(l))
          /\ t \notin Marking(l) /\ t \in MarkingNext(l) =>
                Cardinality(MarkingNext(l)) = Cardinality(Marking(l)) + 1
          /\ t \in Marking(l) /\ t \notin MarkingNext(l) =>
                Cardinality(MarkingNext(l)) = Cardinality(Marking(l)) - 1
      BY <1>f, <2>1, CardChange
    <2> QED BY <1>f, <2>2, <2>3
  <1>l. ASSUME NEW s \in Sessions, OnNext \ {s} = On \ {s}
        PROVE  /\ Cardinality(OnNext) \in Nat
               /\ (s \in On <=> s \in OnNext) => Cardinality(OnNext) = Cardinality(On)
               /\ s \notin On /\ s \in OnNext => Cardinality(OnNext) = Cardinality(On) + 1
               /\ s \in On /\ s \notin OnNext => Cardinality(OnNext) = Cardinality(On) - 1
    <2> HIDE DEF On, OnNext
    <2> QED BY <1>f, <1>l, CardChange
  <1>e. ASSUME SameStore,
               Cardinality(OnNext) + Cardinality(MarkingNext(l)) = Cardinality(On) + Cardinality(Marking(l))
        PROVE  Goal
    BY <1>e, <1>x DEF SameStore, SameTables
  <1>n. ASSUME NEW t \in Threads, \A u \in Threads \ {t} : calls'[u] = calls[u], Old(t) <=> New(t),
               OnNext = On, SameStore
        PROVE  Goal
    BY <1>e, <1>h, <1>n
  <1>s. ASSUME counted' = counted, listOf' = listOf, marked' = marked PROVE OnNext = On
    BY <1>s DEF LiveNext, Live
  <1>1. ASSUME NEW t \in Threads, Runs(t) PROVE Goal
    <2>1. /\ Effect(t) /\ OnNext = On
          /\ \A u \in Threads \ {t} : calls'[u] = calls[u]
          /\ calls'[t].op = calls[t].op
      BY <1>0, <1>1, <1>s, OthersStay, CallsKept DEF Runs
    <2>2. Old(t) \/ New(t) => t \in Workers
      BY <1>0, <2>1 DEF CallersInv, Marks, Holds
    <2>5. Inserted(t) /\ calls[t].list = l => OnNext = {} /\ MarkingNext(l) = {}
      <3>1. SUFFICES ASSUME Inserted(t), calls[t].list = l PROVE OnNext = {} /\ MarkingNext(l) = {}
        OBVIOUS
      <3>2. LiveNext(l) = {}
        BY <1>0, <1>1, <3>1, CountsAfresh
      <3>3. calls[t].op = "create" /\ calls[t].step = "insert"
        BY <1>0, <3>1 DEF Inserted, RoutesInv, StepsOf, Releasing
      <3>4. \A u \in Threads : calls'[u].op # "none" => u = t
        BY <2>1, <3>3, LoneCall
      <3>5. MarkingNext(l) = {}
        BY <1>0, <2>1, <3>3, <3>4 DEF MarkingNext, Marks, Holds
      <3> QED BY <3>2, <3>5
    <2>6. \/ lists[l].exists /\ m = n /\ (New(t) <=> Old(t))
          \/ lists[l].exists /\ m = n + 1 /\ ~Old(t) /\ New(t)
          \/ lists[l].exists /\ (n > 0 => m = n - 1) /\ Old(t) /\ ~New(t)
          \/ Inserted(t) /\ calls[t].list = l /\ m = 0
          \/ WasReset(t) /\ m = 0
      BY <1>0, <2>1, StartedRuns
    <2>7. Cardinality({}) = 0
      BY FS_EmptySet
    <2> HIDE DEF Old, New, On, OnNext, n, m
    <2>8. CASE lists[l].exists /\ m = n /\ (New(t) <=> Old(t))
      BY <1>h, <1>x, <2>1, <2>8
    <2>9. CASE lists[l].exists /\ m = n + 1 /\ ~Old(t) /\ New(t)
      BY <1>f, <1>h, <1>x, <2>1, <2>2, <2>9
    <2>10. CASE lists[l].exists /\ (n > 0 => m = n - 1) /\ Old(t) /\ ~New(t)
      <3>1. /\ Cardinality(MarkingNext(l)) = Cardinality(Marking(l)) - 1
            /\ Cardinality(Marking(l)) >= 1
        BY <1>h, <2>1, <2>2, <2>10
      <3> QED BY <1>f, <1>x, <2>1, <2>10, <3>1
    <2>11. CASE Inserted(t) /\ calls[t].list = l /\ m = 0
      BY <2>5, <2>7, <2>11
    <2>12. CASE WasReset(t) /\ m = 0
      BY <1>1, <2>12
    <2> QED BY <2>6, <2>8, <2>9, <2>10, <2>11, <2>12
  <1>2. ASSUME NEW t \in Threads, Requests(t) \/ Resumes(t) PROVE Goal
    <2>1. /\ \A u \in Threads \ {t} : calls'[u] = calls[u]
          /\ counted' = counted /\ listOf' = listOf /\ marked' = marked /\ SameStore
          /\ calls[t].op \notin {"mark", "end"} /\ calls'[t].op \notin {"mark", "end"}
      BY <1>2 DEF Requests, Resumes, Asks, Leaves, Placed, Free
    <2>2. ~Old(t) /\ ~New(t)
      BY <2>1 DEF Marks
    <2> QED BY <1>n, <1>s, <2>1, <2>2
  <1>3. ASSUME NEW t \in Workers, NEW s \in Sessions, NEW k \in Lists, Creates(t, s, k)
        PROVE  Goal
    <2>1. /\ \A u \in Threads \ {t} : calls'[u] = calls[u]
          /\ counted' = counted /\ marked' = marked
          /\ listOf' = [listOf EXCEPT ![s] = k] /\ SameStore
          /\ calls[t].op = "none" /\ calls'[t].op = "start"
          /\ s \notin counted
      BY <1>0, <1>3 DEF Creates, Asks, Placed, Free, TokensInv
    <2>2. ~Old(t) /\ ~New(t)
      BY <2>1 DEF Marks
    <2>3. OnNext = On
      BY <1>0, <2>1 DEF LiveNext, Live
    <2> QED BY <1>0, <1>n, <2>1, <2>2, <2>3
  <1>4. ASSUME NEW t \in Workers, NEW s \in Sessions, Activates(t, s) PROVE Goal
    <2>1. /\ \A u \in Threads \ {t} : calls'[u] = calls[u]
          /\ counted' = counted /\ listOf' = listOf /\ marked' = marked /\ SameStore
          /\ calls[t].op = "none" /\ calls'[t].op = "mark" /\ calls'[t].step = "mark"
      BY <1>4 DEF Activates, Asks, Placed, Free, FirstStep
    <2>2. ~Old(t) /\ ~New(t)
      BY <2>1 DEF Marks
    <2> QED BY <1>0, <1>n, <1>s, <2>1, <2>2
  <1>5. ASSUME NEW t \in Workers, NEW s \in Sessions, Completes(t, s) PROVE Goal
    <2>1. /\ \A u \in Threads \ {t} : calls'[u] = calls[u]
          /\ counted' = counted \ {s} /\ s \in counted /\ listOf' = listOf /\ SameStore
          /\ marked' = marked \ {s}
          /\ calls[t].op = "none" /\ calls'[t].op = "end" /\ calls'[t].step = "begin"
          /\ calls'[t].list = listOf[s] /\ calls'[t].started = (s \in marked)
      BY <1>5 DEF Completes, Asks, Placed, Free, FirstStep
    <2>2. ~Old(t) /\ (New(t) <=> listOf[s] = l /\ s \in marked)
      BY <2>1 DEF Marks, Holds
    <2>3. /\ OnNext \ {s} = On \ {s} /\ s \notin OnNext
          /\ s \in On <=> listOf[s] = l /\ s \in marked
      BY <2>1 DEF LiveNext, Live
    <2> HIDE DEF Old, New, On, OnNext
    <2>4. CASE s \in On
      <3>1. Cardinality(OnNext) = Cardinality(On) - 1
        BY <1>l, <2>3, <2>4
      <3>2. Cardinality(MarkingNext(l)) = Cardinality(Marking(l)) + 1
        BY <1>0, <1>h, <2>1, <2>2, <2>3, <2>4
      <3> QED BY <1>e, <1>f, <2>1, <3>1, <3>2
    <2>5. CASE s \notin On
      <3>1. Cardinality(OnNext) = Cardinality(On)
        BY <1>l, <2>3, <2>5
      <3>2. Cardinality(MarkingNext(l)) = Cardinality(Marking(l))
        BY <1>0, <1>h, <2>1, <2>2, <2>3, <2>5
      <3> QED BY <1>e, <1>f, <2>1, <3>1, <3>2
    <2> QED BY <2>4, <2>5
  <1>6. ASSUME NEW t \in Workers, Created(t) PROVE Goal
    <2> DEFINE s == serving[t]
    <2>1. /\ \A u \in Threads \ {t} : calls'[u] = calls[u]
          /\ listOf' = listOf /\ marked' = marked /\ SameStore
          /\ calls[t].op = "start" /\ calls'[t].op = "none"
          /\ counted' = counted \/ counted' = counted \cup {s}
      BY <1>6 DEF Created, Leaves
    <2>2. s \notin marked
      BY <1>0, <1>m, <2>1 DEF TokensInv
    <2>3. ~New(t) /\ ~Old(t)
      BY <2>1 DEF Marks
    <2>4. OnNext = On
      BY <2>1, <2>2 DEF LiveNext, Live
    <2> QED BY <1>0, <1>n, <2>1, <2>3, <2>4
  <1>7. ASSUME NEW t \in Workers, MarkedOne(t) PROVE Goal
    <2> DEFINE s == serving[t]
    <2>1. /\ \A u \in Threads \ {t} : calls'[u] = calls[u]
          /\ counted' = counted /\ listOf' = listOf /\ marked' = marked \cup {s} /\ SameStore
          /\ calls[t].op = "mark" /\ calls[t].step = "done" /\ calls'[t].op = "none"
      BY <1>7 DEF MarkedOne, Leaves
    <2>2. s \in Sessions /\ s \in counted /\ s \notin marked /\ listOf[s] = calls[t].list
      BY <1>0, <1>m, <2>1
    <2>3. ~New(t) /\ (Old(t) <=> listOf[s] = l)
      BY <2>1, <2>2 DEF Marks, Holds
    <2>4. OnNext \ {s} = On \ {s} /\ s \notin On /\ (s \in OnNext <=> listOf[s] = l)
      BY <2>1, <2>2 DEF LiveNext, Live
    <2> HIDE DEF Old, New, On, OnNext, s
    <2>5. CASE listOf[s] = l
      <3>1. Cardinality(OnNext) = Cardinality(On) + 1
        BY <1>l, <2>2, <2>4, <2>5
      <3>2. Cardinality(MarkingNext(l)) = Cardinality(Marking(l)) - 1
        BY <1>0, <1>h, <2>1, <2>3, <2>5
      <3> QED BY <1>e, <1>f, <2>1, <3>1, <3>2
    <2>6. CASE listOf[s] # l
      <3>1. Cardinality(OnNext) = Cardinality(On)
        BY <1>l, <2>2, <2>4, <2>6
      <3>2. Cardinality(MarkingNext(l)) = Cardinality(Marking(l))
        BY <1>0, <1>h, <2>1, <2>3, <2>6
      <3> QED BY <1>e, <1>f, <2>1, <3>1, <3>2
    <2> QED BY <2>5, <2>6
  <1>8. ASSUME NEW t \in Workers, Completed(t) PROVE Goal
    <2>1. /\ \A u \in Threads \ {t} : calls'[u] = calls[u]
          /\ counted' = counted /\ listOf' = listOf /\ marked' = marked /\ SameStore
          /\ calls[t].op = "end" /\ calls[t].step = "done" /\ calls'[t].op = "none"
      BY <1>8 DEF Completed, Leaves
    <2>2. ~Old(t) /\ ~New(t)
      BY <2>1 DEF Marks, Holds
    <2> QED BY <1>0, <1>n, <1>s, <2>1, <2>2
  <1>9. ASSUME NEW t \in Workers, TakesBack(t) PROVE Goal
    <2>1. /\ \A u \in Threads \ {t} : calls'[u] = calls[u]
          /\ counted' = counted /\ listOf' = listOf /\ marked' = marked /\ SameStore
          /\ calls[t].op = "start" /\ calls'[t].op = "end" /\ calls'[t].started = FALSE
      BY <1>9 DEF TakesBack, Placed
    <2>2. ~Old(t) /\ ~New(t)
      BY <2>1 DEF Marks
    <2> QED BY <1>0, <1>n, <1>s, <2>1, <2>2
  <1>10. ASSUME NEW t \in Workers, Boots(t) PROVE Goal
    <2>1. /\ \A u \in Threads \ {t} : calls'[u] = calls[u]
          /\ counted' = counted /\ listOf' = listOf /\ marked' = marked /\ SameStore
          /\ calls[t].op = "none" /\ calls'[t].op = "startup"
      BY <1>0, <1>10 DEF Boots, Placed, InFlight, Free
    <2>2. ~Old(t) /\ ~New(t)
      BY <2>1 DEF Marks
    <2> QED BY <1>0, <1>n, <1>s, <2>1, <2>2
  <1>11. ASSUME Pauses PROVE Goal
    BY <1>0, <1>n, <1>s, <1>11 DEF Pauses
  <1>12. Goal
    BY <1>1, <1>2, <1>3, <1>4, <1>5, <1>6, <1>7, <1>8, <1>9, <1>10, <1>11 DEF GamesStep
  <1> QED BY <1>12

\* Only the reset of a startup makes the counters ready.
LEMMA ReadyBefore ==
  ASSUME DuplicatesInv, GamesStep, Ready'
  PROVE  (Ready \/ \E t \in Threads : Runs(t) /\ WasReset(t)) /\ ~Restarts
  <1>0. /\ TypeInv /\ RoutesInv /\ Workers \subseteq Threads /\ Recorder \in Threads
        /\ up \in BOOLEAN
    BY WorkersAreThreads DEF DuplicatesInv, GamesInv, TypeInv, TypeOK
  <1> DEFINE Goal == Ready \/ \E t \in Threads : Runs(t) /\ WasReset(t)
  <1>1. up' \/ \E t \in Threads : calls'[t].op = "startup" /\ calls'[t].step # "reset"
    BY DEF Ready
  <1>2. ~Restarts
    BY <1>1 DEF Restarts, Crashes
  <1>3. ASSUME NEW t \in Threads, Runs(t) PROVE Goal
    <2>1. /\ \A u \in Threads \ {t} : calls'[u] = calls[u]
          /\ calls'[t].op = calls[t].op /\ up' = up
      BY <1>0, <1>3, OthersStay, CallsKept DEF Runs
    <2>2. CASE calls[t].op = "startup" /\ calls[t].step = "reset"
      <3>1. WasReset(t)
        BY <1>3, <2>2 DEF Runs, Effect, Began, NotBegun, DidRead, DidWrite, Committed, RolledBack,
           Collected, ErasedRecords, ErasedList, DeliveredOne, DeliveredAll, Inserted, Marked,
           Looked, Staged, Chose, Swept
      <3> QED BY <1>3, <3>1
    <2>3. CASE ~(calls[t].op = "startup" /\ calls[t].step = "reset")
      BY <1>1, <2>1, <2>3 DEF Ready
    <2> QED BY <2>2, <2>3
  <1>4. ASSUME NEW t \in Threads, \A u \in Threads \ {t} : calls'[u] = calls[u],
               \/ up' = up /\ (calls'[t].op = "startup" => calls'[t].step = "reset")
               \/ up' = (up \/ calls[t].op = "startup") /\ calls[t].step = "done" /\ calls'[t].op = "none"
        PROVE  Goal
    <2>1. CASE up'
      BY <1>0, <1>4, <2>1 DEF Ready
    <2>2. ASSUME NEW u \in Threads, calls'[u].op = "startup", calls'[u].step # "reset" PROVE Ready
      <3>1. CASE u = t
        BY <1>4, <2>2, <3>1
      <3>2. CASE u # t
        BY <1>4, <2>2, <3>2 DEF Ready
      <3> QED BY <3>1, <3>2
    <2> QED BY <1>1, <2>1, <2>2
  <1>5. ASSUME NEW t \in Threads, Requests(t) \/ Resumes(t) PROVE Goal
    BY <1>4, <1>5 DEF Requests, Resumes, Asks, Leaves, Placed
  <1>6. ASSUME NEW t \in Workers, NEW s \in Sessions,
               (\E l \in Lists : Creates(t, s, l)) \/ Activates(t, s) \/ Completes(t, s)
        PROVE  Goal
    BY <1>0, <1>4, <1>6 DEF Creates, Activates, Completes, Asks, Placed
  <1>7. ASSUME NEW t \in Workers, Created(t) \/ MarkedOne(t) \/ Completed(t) PROVE Goal
    BY <1>0, <1>4, <1>7 DEF Created, MarkedOne, Completed, Leaves
  <1>8. ASSUME NEW t \in Workers, TakesBack(t) \/ Boots(t) PROVE Goal
    BY <1>0, <1>4, <1>8 DEF TakesBack, Boots, Placed, FirstStep
  <1>9. CASE Pauses
    BY <1>0, <1>1, <1>2, <1>9 DEF Pauses, Ready
  <1> QED BY <1>2, <1>3, <1>5, <1>6, <1>7, <1>8, <1>9 DEF GamesStep

LEMMA ExactStep ==
  ASSUME DuplicatesInv, DuplicatesInv', CountInv, CountInv', Sole, Sole', MarkedInv, ExactInv,
         GamesStep, [GamesNext]_allVars
  PROVE  ExactInv'
  <1>1. SUFFICES ASSUME Orderly', Ready', NEW l \in Lists, lists'[l].exists
                 PROVE  /\ lists'[l].live = Cardinality(LiveNext(l)) + Cardinality(HoldingNext(l))
                        /\ lists'[l].started =
                              Cardinality(LiveNext(l) \cap marked') + Cardinality(MarkingNext(l))
    BY CountsNext, MarkingIsNext DEF ExactInv
  <1> DEFINE Sum == Cardinality(Live(l)) + Cardinality(Holding(l))
             SumNext == Cardinality(LiveNext(l)) + Cardinality(HoldingNext(l))
             n == lists[l].live
             m == lists'[l].live
  <1>2. /\ Orderly /\ ~overlapped /\ ~overlapped' /\ ~abandoned' /\ ~Restarts
        /\ Ready \/ \E t \in Threads : Runs(t) /\ WasReset(t)
    BY <1>1, OrderlyBefore, ReadyBefore DEF Orderly
  <1>3. Sum \in Nat
    <2>1. Cardinality(Live(l)) \in Nat /\ Cardinality(Holding(l)) \in Nat
      BY FiniteCounts DEF CountInv
    <2> QED BY <2>1
  <1>4. n \in Int /\ m \in Int
    <2>1. lists[l] \in Rows /\ lists'[l] \in Rows
      BY DEF DuplicatesInv, GamesInv, TypeInv, TypeOK
    <2> QED BY <2>1 DEF Rows
  <1>5. SumNext \in Nat
    <2>1. (FiniteInv => Cardinality(Live(l)) \in Nat /\ Cardinality(Holding(l)) \in Nat)'
      BY FiniteCounts, PTL
    <2>2. FiniteInv'
      BY DEF CountInv
    <2> QED BY <2>1, <2>2, CountsNext
  <1>6. ASSUME NEW t \in Threads, Runs(t), WasReset(t)
        PROVE  /\ m = SumNext
               /\ lists'[l].started = Cardinality(LiveNext(l) \cap marked') + Cardinality(MarkingNext(l))
    <2>1. LiveNext(l) = {} /\ HoldingNext(l) = {}
      BY <1>6, CountsAfresh DEF CountInv
    <2>2. calls[t].op = "startup"
      BY <1>6 DEF WasReset, DuplicatesInv, RoutesInv, StepsOf, Releasing
    <2>3. \A u \in Threads : calls'[u].op \in {"none", "startup"}
      <3>1. \A u \in Threads : calls[u].op \in {"none", "startup"}
        BY <2>2 DEF CountInv, CallersInv
      <3> QED BY <1>6, <3>1, CallsKept DEF Runs, DuplicatesInv, GamesInv
    <2>4. MarkingNext(l) = {}
      BY <2>3, WorkersAreThreads DEF MarkingNext, Marks
    <2>5. m = 0 /\ lists'[l].started = 0
      BY <1>6 DEF WasReset
    <2>6. Cardinality({}) = 0
      BY FS_EmptySet
    <2> QED BY <2>1, <2>4, <2>5, <2>6
  <1>7. CASE Ready
    <2>1. lists[l].exists =>
             /\ n = Sum
             /\ lists[l].started = Cardinality(Live(l) \cap marked) + Cardinality(Marking(l))
      BY <1>2, <1>7 DEF ExactInv
    <2>2. \/ lists[l].exists /\ m - n = SumNext - Sum
          \/ m = 0 /\ SumNext = 0
      BY <1>1, <1>2, CountMoves
    <2>3. m = SumNext
      <3> HIDE DEF n, m, Sum, SumNext
      <3> QED BY <1>3, <1>4, <1>5, <2>1, <2>2
    <2>4. \/ lists'[l].started = Cardinality(LiveNext(l) \cap marked') + Cardinality(MarkingNext(l))
          \/ \E t \in Threads : Runs(t) /\ WasReset(t)
      BY <1>1, <1>2, <2>1, StartedMoves
    <2> QED BY <1>6, <2>3, <2>4
  <1> QED BY <1>2, <1>6, <1>7

\* The call of EndSession that runs alone counts the session it takes off, and
\* nothing else if the list has no other session.
LEMMA AloneAtEnd ==
  ASSUME DuplicatesInv, CountInv, Sole, ExactInv, Orderly, NEW t \in Workers,
         calls[t].op = "end", calls[t].step = "read", lists[calls[t].list].exists,
         Live(calls[t].list) = {}
  PROVE  lists[calls[t].list].live = 1
  <1> DEFINE l == calls[t].list
  <1>1. t \in Threads /\ Workers \subseteq Threads
    BY WorkersAreThreads
  <1>2. up
    BY <1>1 DEF CountInv, CallersInv
  <1>3. l \in Lists
    BY DEF CountInv, TokensInv
  <1>4. Holding(l) = {t}
    <2>1. \A u \in Workers : calls[u].op # "none" => u = t
      BY <1>1 DEF Sole, Orderly, Free
    <2> QED BY <2>1 DEF Holding, Holds
  <1>5. lists[l].live = Cardinality(Live(l)) + Cardinality(Holding(l))
    BY <1>2, <1>3 DEF ExactInv, Ready
  <1>6. Cardinality({t}) = 1 /\ Cardinality({}) = 0
    BY FS_Singleton, FS_EmptySet
  <1> QED BY <1>4, <1>5, <1>6

\* The last session of an expired list has destroyed it, or will.
Kept(c) == /\ c.op = "end"
           /\ c.step \in {"write", "commit", "commit, deliver", "deliver", "done"}

LEMMA ExpiryStep ==
  ASSUME DuplicatesInv, CountInv, Sole, Sole', ExactInv, ExpiryInv, GamesStep, [GamesNext]_allVars
  PROVE  ExpiryInv'
  <1> USE DEF SameHub
  <1>0. /\ TypeInv /\ RoutesInv /\ NumbersInv /\ Workers \subseteq Threads /\ Recorder \in Threads
        /\ lists \in [Lists -> Rows]
    BY WorkersAreThreads DEF DuplicatesInv, GamesInv, TypeInv, TypeOK
  <1>1. SUFFICES ASSUME Orderly', NEW t \in Workers,
                        Kept(calls'[t]), lists'[calls'[t].list].exists,
                        LiveNext(calls'[t].list) = {}
                 PROVE  lists'[calls'[t].list].expires > calls'[t].now
    BY DEF ExpiryInv, LiveNext, Live, Kept
  <1>2. Orderly /\ ~overlapped /\ ~overlapped'
    BY OrderlyBefore, <1>1 DEF Orderly
  <1>3. Kept(calls[t]) /\ lists[calls[t].list].exists /\ Live(calls[t].list) = {} =>
           lists[calls[t].list].expires > calls[t].now
    BY <1>2 DEF ExpiryInv, Kept
  <1>4. calls'[t].op = "end"
    BY <1>1 DEF Kept
  <1>l. ASSUME NEW u \in Threads, \A v \in Threads \ {u} : calls'[v] = calls[v],
               calls[u].op # "none" \/ calls'[u].op # "none"
        PROVE  t = u
    BY <1>0, <1>2, <1>4, <1>l, LoneCall
  <1>5. ASSUME NEW u \in Threads, Runs(u) PROVE lists'[calls'[t].list].expires > calls'[t].now
    <2>1. /\ Effect(u) /\ counted' = counted /\ listOf' = listOf
          /\ \A v \in Threads \ {u} : calls'[v] = calls[v]
          /\ calls'[u].op = calls[u].op
      BY <1>0, <1>5, OthersStay, CallsKept DEF Runs
    <2>2. u = t
      <3>1. ~Free(u)
        BY <1>0, <2>1, RunningInFlight
      <3> QED BY <1>l, <2>1, <3>1 DEF Free
    <2>3. /\ calls[t].op = "end" /\ calls'[t].list = calls[t].list /\ calls'[t].now = calls[t].now
          /\ calls[t].step \in StepsOf("end") /\ calls[t].list \in Lists
      BY <1>0, <1>4, <2>1, <2>2, CallsKept DEF RoutesInv, CountInv, TokensInv
    <2> DEFINE l == calls[t].list
    <2>4. Live(l) = {} /\ lists'[l].exists
      BY <1>1, <2>1, <2>3 DEF Live, LiveNext
    <2>5. calls'[t].step \in {"write", "commit", "commit, deliver", "deliver", "done"}
      BY <1>1 DEF Kept
    <2> USE DEF GoesTo, Ends, SameTables
    <2>6. CASE DidRead(t)
      <3>1. calls'[t].step = AfterRead(calls[t], lists[l]) /\ lists' = lists /\ calls[t].step = "read"
        BY <2>6 DEF DidRead
      <3>2. lists[l].live = 1
        BY <1>2, <2>3, <2>4, <3>1, AloneAtEnd
      <3>3. ~Destroys(calls[t], lists[l])
        BY <2>3, <2>5, <3>1 DEF AfterRead, Refused
      <3>4. ~(lists[l].expires <= calls[t].now)
        BY <2>3, <2>4, <3>1, <3>2, <3>3 DEF Destroys, Expired
      <3>5. lists[l].expires \in Nat /\ calls[t].now \in Nat
        BY <1>0, <2>3 DEF TypeInv, TypeOK, Rows, Calls
      <3> QED BY <2>3, <3>1, <3>4, <3>5
    <2>7. CASE DidWrite(t)
      <3>1. /\ lists'[l].expires = lists[l].expires /\ lists'[l].exists = lists[l].exists
            /\ calls[t].step = "write"
        BY <2>3, <2>7 DEF DidWrite, RowChanges
      <3> QED BY <1>3, <2>3, <2>4, <3>1 DEF Kept
    <2>8. CASE Committed(t)
      <3>1. calls[t].step \in {"commit", "commit, deliver"} /\ lists' = lists
        BY <2>5, <2>8 DEF Committed
      <3> QED BY <1>3, <2>3, <2>4, <3>1 DEF Kept
    <2>9. CASE DeliveredOne(t) \/ DeliveredAll(t)
      <3>1. calls[t].step = "deliver" /\ lists' = lists
        BY <2>9 DEF DeliveredOne, DeliveredAll
      <3> QED BY <1>3, <2>3, <2>4, <3>1 DEF Kept
    <2>10. CASE ErasedList(t)
      BY <2>4, <2>10 DEF ErasedList
    <2>11. ~NotBegun(t)
      BY <1>0, <1>2, <2>1, <2>2, RefusedBegin
    <2>12. ~Began(t) /\ ~Collected(t) /\ ~ErasedRecords(t) /\ ~Chose(t)
      BY <2>3, <2>5 DEF Began, Collected, ErasedRecords, Chose, StepsOf, Releasing
    <2>13. /\ ~RolledBack(t) /\ ~Inserted(t) /\ ~Marked(t) /\ ~Looked(t) /\ ~Staged(t)
           /\ ~WasReset(t) /\ ~Swept(t)
      BY <2>3 DEF RolledBack, Inserted, Marked, Looked, Staged, WasReset, Swept, StepsOf, Releasing
    <2> QED BY <2>1, <2>2, <2>6, <2>7, <2>8, <2>9, <2>10, <2>11, <2>12, <2>13 DEF Effect
  <1>6. ASSUME NEW u \in Threads, \A v \in Threads \ {u} : calls'[v] = calls[v],
               calls[u].op # "none" \/ calls'[u].op # "none",
               calls'[u].op = "none" \/ calls'[u].step \notin
                  {"write", "commit", "commit, deliver", "deliver", "done"}
        PROVE  FALSE
    <2>1. t = u
      BY <1>6, <1>l
    <2> QED BY <1>1, <1>6, <2>1 DEF Kept
  <1>7. ASSUME NEW u \in Threads, NEW op, NEW l, NEW started, Asks(u, op, l, started), op # "none"
        PROVE  FALSE
    <2>1. /\ \A v \in Threads \ {u} : calls'[v] = calls[v]
          /\ calls'[u].op = op /\ calls'[u].step = FirstStep(op)
      BY <1>7 DEF Asks, Placed
    <2>2. FirstStep(op) \notin {"write", "commit", "commit, deliver", "deliver", "done"}
      BY DEF FirstStep
    <2> QED BY <1>6, <1>7, <2>1, <2>2
  <1>8. ASSUME NEW u \in Threads, Leaves(u) PROVE FALSE
    BY <1>6, <1>8 DEF Leaves
  <1>9. ASSUME NEW u \in Threads, Requests(u) \/ Resumes(u) PROVE FALSE
    BY <1>7, <1>8, <1>9 DEF Requests, Resumes
  <1>10. ASSUME NEW u \in Workers, NEW s \in Sessions,
                (\E l \in Lists : Creates(u, s, l)) \/ Activates(u, s) \/ Completes(u, s)
         PROVE  FALSE
    BY <1>0, <1>7, <1>10 DEF Creates, Activates, Completes
  <1>11. ASSUME NEW u \in Workers, Created(u) \/ MarkedOne(u) \/ Completed(u) PROVE FALSE
    BY <1>0, <1>8, <1>11 DEF Created, MarkedOne, Completed
  <1>12. ASSUME NEW u \in Workers, TakesBack(u) \/ Boots(u) PROVE FALSE
    BY <1>0, <1>6, <1>12 DEF TakesBack, Boots, Placed, FirstStep
  <1>13. CASE Pauses
    <2>1. calls' = calls /\ lists' = lists /\ Live(calls[t].list) = {}
      BY <1>1, <1>13 DEF Pauses, SameStore, SameTables, Live, LiveNext
    <2> QED BY <1>1, <1>3, <2>1
  <1>14. ~Restarts
    BY <1>0, <1>4 DEF Restarts, Crashes
  <1> QED BY <1>5, <1>9, <1>10, <1>11, <1>12, <1>13, <1>14 DEF GamesStep

OrderInv == MarkedInv /\ ExactInv /\ ExpiryInv

LEMMA OrderInit == GamesInit => OrderInv
  <1> SUFFICES ASSUME GamesInit PROVE OrderInv
    OBVIOUS
  <1>1. /\ \A t \in Threads : calls[t].op = "none" /\ calls[t].step = "done"
        /\ ~up /\ marked = {} /\ Workers \subseteq Threads
    BY WorkersAreThreads DEF GamesInit, Init, Idle
  <1>2. MarkedInv
    BY <1>1 DEF MarkedInv
  <1>3. ExactInv
    BY <1>1 DEF ExactInv, Ready
  <1>4. ExpiryInv
    BY <1>1 DEF ExpiryInv
  <1> QED BY <1>2, <1>3, <1>4 DEF OrderInv

LEMMA OrderInvHolds == GamesSpec => []OrderInv
  <1>1. /\ DuplicatesInv /\ DuplicatesInv' /\ CountInv /\ CountInv' /\ Sole /\ Sole'
        /\ OrderInv /\ [GamesNext]_allVars
        => OrderInv'
    <2> SUFFICES ASSUME DuplicatesInv, DuplicatesInv', CountInv, CountInv', Sole, Sole',
                        OrderInv, [GamesNext]_allVars
                 PROVE  OrderInv'
      OBVIOUS
    <2>1. GamesStep
      BY GamesEffect DEF DuplicatesInv
    <2>2. MarkedInv /\ ExactInv /\ ExpiryInv
      BY DEF OrderInv
    <2> QED BY <2>1, <2>2, MarkedStep, ExactStep, ExpiryStep DEF OrderInv
  <1> QED BY <1>1, OrderInit, DuplicatesInvHolds, CountInvHolds, PTL DEF GamesSpec

\* With calls one at a time and no creation abandoned, both counters of a list
\* agree with the hub whenever nobody calls the store, after a restart too.
THEOREM CountersExactHolds == GamesSpec => []CountersExact
  <1>1. CountInv /\ OrderInv => CountersExact
    <2> SUFFICES ASSUME CountInv, OrderInv, ~overlapped, ~abandoned, Quiet, NEW l \in Lists, lists[l].exists
                 PROVE  /\ lists[l].live = Cardinality(Live(l))
                        /\ lists[l].started = Cardinality(Live(l) \cap marked)
      BY DEF CountersExact
    <2>1. up /\ \A t \in Workers : calls[t].op = "none"
      BY WorkersAreThreads DEF Quiet, InFlight, Free
    <2>2. Holding(l) = {} /\ Marking(l) = {}
      BY <2>1 DEF Holding, Marking, Holds, Marks
    <2>3. /\ lists[l].live = Cardinality(Live(l)) + Cardinality(Holding(l))
          /\ lists[l].started = Cardinality(Live(l) \cap marked) + Cardinality(Marking(l))
      BY <2>1 DEF OrderInv, ExactInv, Orderly, Ready
    <2>4. Cardinality(Live(l)) \in Nat /\ Cardinality(Live(l) \cap marked) \in Nat
      BY FiniteCounts DEF CountInv
    <2>5. Cardinality(Holding(l)) = 0 /\ Cardinality(Marking(l)) = 0
      BY <2>2, FS_EmptySet
    <2> QED BY <2>3, <2>4, <2>5
  <1> QED BY <1>1, CountInvHolds, OrderInvHolds, PTL

\* Under the same conditions the end of its last session destroys an expired
\* list: what EndSession has read is still true when it decides.
THEOREM ExpiredListsGoIfOrderlyHolds == GamesSpec => []ExpiredListsGoIfOrderly
  <1>1. OrderInv => ExpiredListsGoIfOrderly
    BY DEF OrderInv, ExpiryInv, Orderly, ExpiredListsGoIfOrderly, ExpiredListsGo, Returned
  <1> QED BY <1>1, OrderInvHolds, PTL
=============================================================================
