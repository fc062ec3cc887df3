----------------------------- MODULE Statistics -----------------------------
(* The statistics of finished rounds: StatsService with its table, the totals *)
(* of RoundCollection, and the results that StatsWebSocketController caches   *)
(* for each connection. The mutex of the service is held for one upsert, one  *)
(* query or one look at the version; a handler takes it several times to      *)
(* build a result, while the worker of the record queue adds rounds.          *)
(*                                                                            *)
(* Fans are numbers of an ordered set with their points; a fan code is the    *)
(* set of its fans. Left out: rounds of seed lists in play, which do not come *)
(* here (DuplicateGames), the players index, averages and rates, ratings.     *)
EXTENDS Integers, Sequences, FiniteSets
Seqs == INSTANCE SequencesExt
Sets == INSTANCE FiniteSetsExt

CONSTANTS
    Records,     \* the records that games hand in
    Squares,     \* fan -> round(fan * fan)
    Written,     \* fan -> the fan that its text in the table is read back as
    Superior,    \* fan -> the fans that dedupe2 drops beside it
    Asked,       \* filters as readers send them
    Sorts,       \* orders that readers ask for
    Readers,     \* connections to /ws/stats
    MaxVersion,  \* bound
    Overall,     \* what a reader of the totals of all rounds asks for
    NoFilter

StatSeats == 0..3
Bot == 0
Anyone == -1
Fans == DOMAIN Superior

\* A round as a game hands it in: four seats; unless it was drawn a seat that
\* won, which took the tile from another or drew it; no player sits twice.
RoundRecord ==
    [key : Nat \X Nat, unranked : BOOLEAN, duplicate : BOOLEAN, completed : BOOLEAN,
     drawn : BOOLEAN, players : [StatSeats -> Nat], winner : -1..3, from : -1..3,
     types : SUBSET STRING, time : Nat, fan : DOMAIN Squares,
     results : SUBSET SUBSET Fans, melds : [StatSeats -> Nat]]
Sound(r) ==
    /\ \A s, t \in StatSeats : r.players[s] = r.players[t] => s = t \/ r.players[s] = Bot
    /\ ~r.drawn => /\ {r.winner, r.from} \subseteq StatSeats
                   /\ r.winner = r.from => "self_drawn" \in r.types

\* StatsFilter, as a reader sends it; 0 and the largest number stand for no bound.
Filter ==
    [player : Int, mode : Int, nonstandard : BOOLEAN, since : Int, until : Int, minFan : Int,
     maxFan : Int, fans : SUBSET Fans, notFans : SUBSET Fans, players : SUBSET Int,
     notPlayers : SUBSET Int, winner : Int, from : Int, selfDrawn : BOOLEAN,
     notSelfDrawn : BOOLEAN, dedupe : BOOLEAN]

ASSUME RecordsAssumption == \A r \in Records : r \in RoundRecord /\ Sound(r)
ASSUME FansAssumption == Superior \in Seq(SUBSET Fans)
ASSUME SquaresAssumption ==
    Squares \in [DOMAIN Squares -> Nat] /\ 0 \in DOMAIN Squares /\ DOMAIN Squares \subseteq Int
ASSUME WrittenAssumption ==
    /\ Written \in [DOMAIN Squares -> DOMAIN Squares]
    /\ \A f, g \in DOMAIN Squares : f <= g => Written[f] <= Written[g]
Orders == {"time", "fan"} \X {"asc", "desc"}
ASSUME SortsAssumption == Sorts \subseteq Orders
ASSUME MaxVersionAssumption == MaxVersion \in Nat \ {0}
ASSUME FiltersAssumption ==
    /\ Overall # NoFilter /\ Asked \intersect {Overall, NoFilter} = {}
    /\ Asked \subseteq Filter

VARIABLES
    rows,        \* stats_round_entries
    rounds,      \* rounds_
    order,       \* rounds_by_time_desc_: keys
    version,     \* version_
    reading,     \* connection -> how far its handler has got
    wanted,      \* connection -> what it is about to answer
    built,       \* connection -> the result it is building
    cache        \* connection -> StatsWsSession

statsVars == <<rows, rounds, order, version, reading, wanted, built, cache>>

-----------------------------------------------------------------------------
(* Rounds                                                                    *)

\* ProjectRoundRecord keeps nothing of a winner when the game was drawn.
Projected(r) ==
    IF ~r.drawn THEN r
    ELSE [r EXCEPT !.winner = -1, !.from = -1, !.types = {}, !.fan = 0, !.results = {}]

\* A round as it is read back from its row.
ReadBack(r) == [r EXCEPT !.fan = Written[@]]

PlayerAt(r, s) == IF s \in StatSeats THEN r.players[s] ELSE Bot
WinnerOf(r) == PlayerAt(r, r.winner)
FromOf(r) == PlayerAt(r, r.from)
HasPlayer(r, p) == \E s \in StatSeats : r.players[s] = p
SelfDrawn(r) == "self_drawn" \in r.types

PtGain(r, p) ==
    LET points == Squares[r.fan]
    IN  IF r.drawn \/ p = Bot THEN 0
        ELSE IF WinnerOf(r) = p THEN 3 * points
        ELSE IF ~SelfDrawn(r) /\ FromOf(r) = p THEN -(3 * points)
        ELSE IF SelfDrawn(r) THEN -points ELSE 0

MeldCount(r, p) ==
    IF HasPlayer(r, p) THEN r.melds[CHOOSE s \in StatSeats : r.players[s] = p] ELSE 0

\* rebuild_time_index_locked: the newest first.
Before(a, b) ==
    \/ a.time > b.time
    \/ a.time = b.time /\ a.fan > b.fan
    \/ a.time = b.time /\ a.fan = b.fan /\ a.key[1] > b.key[1]
    \/ a.time = b.time /\ a.fan = b.fan /\ a.key[1] = b.key[1] /\ a.key[2] > b.key[2]

\* std::sort: an element comes after all those above it, as many as they are.
Sorted(S, above) ==
    [i \in 1..Cardinality(S) |-> CHOOSE x \in S : Cardinality({y \in S : <<y, x>> \in above}) = i - 1]

\* The entries of a list that are in a set, in their order.
Picked(keys, chosen) ==
    LET at == {i \in DOMAIN keys : keys[i] \in chosen}
        places == Sorted(at, {p \in at \X at : p[1] < p[2]})
    IN  [n \in DOMAIN places |-> keys[places[n]]]

\* The round that an entry of the index points at, and the rounds of a list.
Entry(rs, k) == CHOOSE r \in rs : r.key = k
EntriesOf(rs, keys) == {Entry(rs, k) : k \in Seqs!ToSet(keys)}
TimeIndex(entries) ==
    LET sorted == Sorted(entries, {p \in entries \X entries : Before(p[1], p[2])})
    IN  [i \in DOMAIN sorted |-> sorted[i].key]

-----------------------------------------------------------------------------
(* Filters                                                                   *)

\* ParseStatsFilterFromJson: the old switch wins over the mode, which must be
\* one of four, and "not self-drawn" over "self-drawn".
FilterOf(q) ==
    [q EXCEPT !.mode = IF q.nonstandard THEN 1 ELSE IF @ \in -1..2 THEN @ ELSE 0,
              !.selfDrawn = @ /\ ~q.notSelfDrawn]

Deduped(code) == {f \in code : \A g \in code : f \notin Superior[g]}

\* Mutant: duplicate games with high numbers are unranked games as well.
InModeByNumber(mode, r) ==
    /\ mode = 2 => r.duplicate
    /\ mode = 1 => r.unranked
    /\ mode = 0 => ~r.unranked /\ ~r.duplicate

InMode(mode, r) ==
    /\ mode = 2 => r.duplicate
    /\ mode = 1 => r.unranked /\ ~r.duplicate
    /\ mode = 0 => ~r.unranked /\ ~r.duplicate

FanCodes(f, r) == IF f.dedupe THEN {Deduped(code) : code \in r.results} ELSE r.results

Matches(f, r) ==
    /\ f.player # Anyone => HasPlayer(r, f.player)
    /\ InMode(f.mode, r)
    /\ f.since <= r.time /\ r.time <= f.until
    /\ f.minFan <= r.fan /\ r.fan <= f.maxFan
    /\ f.fans # {} => \E code \in FanCodes(f, r) : f.fans \subseteq code
    /\ \A code \in FanCodes(f, r) : f.notFans \intersect code = {}
    /\ \A p \in f.players : HasPlayer(r, p)
    /\ \A p \in f.notPlayers : ~HasPlayer(r, p)
    /\ f.winner # Anyone => WinnerOf(r) = f.winner
    /\ f.from # Anyone => FromOf(r) = f.from
    /\ f.selfDrawn => SelfDrawn(r)
    /\ f.notSelfDrawn => ~SelfDrawn(r)

\* Mutant: rounds of the last moment asked for are left out.
TimeStretchHalfOpen(rs, index, f) ==
    LET begin == Cardinality({i \in DOMAIN index : Entry(rs, index[i]).time >= f.until})
        late == {i \in (begin + 1)..Len(index) : Entry(rs, index[i]).time >= f.since}
    IN  SubSeq(index, begin + 1, begin + Cardinality(late))

\* Query looks only at the stretch of the index between the two times, whose
\* ends it finds by bisection.
TimeStretch(rs, index, f) ==
    LET begin == Cardinality({i \in DOMAIN index : Entry(rs, index[i]).time > f.until})
        late == {i \in (begin + 1)..Len(index) : Entry(rs, index[i]).time >= f.since}
    IN  SubSeq(index, begin + 1, begin + Cardinality(late))

Query(rs, index, f) ==
    LET stretch == TimeStretch(rs, index, f)
    IN  Picked(stretch, {k \in Seqs!ToSet(stretch) : Matches(f, Entry(rs, k))})

\* The rounds that a reader of q is answered with at present.
ResultFor(q) == IF q = Overall THEN order ELSE Query(rounds, order, FilterOf(q))

-----------------------------------------------------------------------------
(* Totals                                                                    *)

Won(p, r) == ~r.drawn /\ (p = Anyone \/ (WinnerOf(r) # Bot /\ WinnerOf(r) = p))
Shot(p, r) == p # Anyone /\ ~r.drawn /\ ~SelfDrawn(r) /\ FromOf(r) = p
WasSelfDrawn(p, r) ==
    p # Anyone /\ ~r.drawn /\ SelfDrawn(r) /\ WinnerOf(r) # p /\ HasPlayer(r, p)

\* add_round, for every round of a collection.
Collection(p, rs) ==
    LET wins == {r \in rs : Won(p, r)}
        shoots == {r \in rs : Shot(p, r)}
        selfDrawneds == {r \in rs : WasSelfDrawn(p, r)}
        Pt(r) == 3 * Squares[r.fan]
        Gain(r) == IF p = Anyone THEN 0 ELSE PtGain(r, p)
        Melds(r) == IF p # Anyone THEN MeldCount(r, p)
                    ELSE r.melds[0] + r.melds[1] + r.melds[2] + r.melds[3]
    IN  [tot_rounds |-> Cardinality(rs),
         tot_wins |-> Cardinality(wins),
         tot_hwins |-> Cardinality({r \in wins : SelfDrawn(r)}),
         tot_shoots |-> Cardinality(shoots),
         tot_win_pt |-> Sets!MapThenSumSet(Pt, wins),
         tot_shoot_pt |-> Sets!MapThenSumSet(Pt, shoots),
         tot_selfdrawned_pt |-> Sets!MapThenSumSet(Pt, selfDrawneds),
         tot_round_pt |-> Sets!MapThenSumSet(Gain, rs),
         tot_meld_count |-> Sets!MapThenSumSet(Melds, rs)]

\* place_entry: fan by fan the codes so far are kept and, where they have the
\* fan, taken without it as well.
Placed(code) ==
    LET step[i \in 0..Cardinality(Fans)] ==
          IF i = 0 THEN {code} ELSE step[i - 1] \cup {c \ {i} : c \in step[i - 1]}
    IN  step[Cardinality(Fans)] \ {{}}

\* fan_stats, or with the deduplicated codes fan_stats_no_superior: the rounds
\* in which a combination of fans occurs.
Occurrences(f, rs, fans) ==
    {r \in rs : (f.player = Anyone \/ Won(f.player, r)) /\ \E code \in FanCodes(f, r) : fans \in Placed(code)}

\* BuildStatsRecordOrder: rounds of one fan stay in the order of time.
FanSorted(rs, keys, descending) ==
    LET found == {r.fan : r \in EntriesOf(rs, keys)}
        fans == Sorted(found, {p \in found \X found : IF descending THEN p[1] > p[2] ELSE p[1] < p[2]})
        Bucket(fan) == Picked(keys, {k \in Seqs!ToSet(keys) : Entry(rs, k).fan = fan})
    IN  Seqs!FlattenSeq([i \in DOMAIN fans |-> IF descending THEN Bucket(fans[i])
                                              ELSE Seqs!Reverse(Bucket(fans[i]))])

RecordOrder(rs, keys, sort) ==
    IF sort[1] = "fan" THEN FanSorted(rs, keys, sort[2] = "desc")
    ELSE IF sort[2] = "desc" THEN keys ELSE Seqs!Reverse(keys)

-----------------------------------------------------------------------------
NoData == Collection(Anyone, {})
NoResult == [filter |-> NoFilter, version |-> 0, rounds |-> <<>>, data |-> NoData, sorted |-> {}]
Nothing == [filter |-> NoFilter, sort |-> <<"time", "desc">>, then |-> "idle"]

StatsTypeOK ==
    /\ \A r, s \in rows : r.key = s.key => r = s
    /\ version \in 0..MaxVersion
    /\ reading \in [Readers -> {"closed", "idle", "version", "query", "compare", "store",
                                "refresh", "sort"}]
    /\ \A c \in Readers : wanted[c].then \in {"idle", "refresh", "sort"}
    /\ Seqs!ToSet(order) = {r.key : r \in rounds}

StatsInit ==
    /\ rows = {} /\ rounds = {} /\ order = <<>> /\ version = 1
    /\ reading = [c \in Readers |-> "closed"]
    /\ wanted = [c \in Readers |-> Nothing]
    /\ built = [c \in Readers |-> NoResult]
    /\ cache = [c \in Readers |-> NoResult]

Step(c, from, to) == reading[c] = from /\ reading' = [reading EXCEPT ![c] = to]

\* The connection goes on to answer w, if it does not answer at once.
Wants(c, w) == wanted' = [wanted EXCEPT ![c] = IF reading'[c] = "idle" THEN Nothing ELSE w]

\* persist_round_locked: the row of the round is inserted or replaced.
Persisted(r) == {q \in rows : q.key # r.key} \cup {ReadBack(r)}

\* UpsertRoundRecord: the row is written, then the round and the index change.
Upsert(record) ==
    LET r == Projected(record)
    IN  /\ record.completed /\ version < MaxVersion
        /\ rows' = Persisted(r)
        /\ rounds' = {q \in rounds : q.key # r.key} \cup {r}
        /\ order' = TimeIndex(rounds')
        /\ version' = version + 1
        /\ UNCHANGED <<reading, wanted, built, cache>>

\* LoadFromDatabase, when the server starts again.
LoadFromDatabase ==
    /\ version' = 1
    /\ rounds' = rows
    /\ order' = TimeIndex(rows)
    /\ reading' = [c \in Readers |-> "closed"]
    /\ wanted' = [c \in Readers |-> Nothing]
    /\ built' = [c \in Readers |-> NoResult]
    /\ cache' = [c \in Readers |-> NoResult]
    /\ UNCHANGED rows

OpenStats(c) ==
    /\ Step(c, "closed", "idle")
    /\ UNCHANGED <<rows, rounds, order, version, wanted, built, cache>>

CloseStats(c) ==
    /\ Step(c, "idle", "closed")
    /\ cache' = [cache EXCEPT ![c] = NoResult]
    /\ UNCHANGED <<rows, rounds, order, version, wanted, built>>

\* GetReusableStatsCache
Reusable(c, q) == cache[c].filter = q /\ cache[c].version = version

\* handleNewMessage for "overall_stats" and "filter"; the latter goes on with
\* the first page of the records.
AskStats(c, q) ==
    LET then == IF q = Overall THEN "idle" ELSE "refresh"
    IN  /\ Step(c, "idle", IF Reusable(c, q) THEN then ELSE "version")
        /\ Wants(c, [filter |-> q, sort |-> <<"time", "desc">>, then |-> then])
        /\ UNCHANGED <<rows, rounds, order, version, built, cache>>

\* "get_records"
AskRecords(c, sort) ==
    /\ Step(c, "idle", "refresh")
    /\ Wants(c, [filter |-> NoFilter, sort |-> sort, then |-> "sort"])
    /\ UNCHANGED <<rows, rounds, order, version, built, cache>>

\* RefreshStatsCacheForRecords: without a result the answer is an error, an
\* outdated one is built again.
RefreshForRecords(c) ==
    /\ Step(c, "refresh", IF cache[c] = NoResult THEN "idle"
                          ELSE IF cache[c].version = version THEN "sort" ELSE "version")
    /\ Wants(c, [filter |-> cache[c].filter, sort |-> wanted[c].sort, then |-> "sort"])
    /\ UNCHANGED <<rows, rounds, order, version, built, cache>>

\* BuildOverallStatsResult and BuildStatsCache: the version before ...
ReadVersion(c) ==
    /\ Step(c, "version", "query")
    /\ built' = [built EXCEPT ![c] = [NoResult EXCEPT !.filter = wanted[c].filter,
                                                      !.version = version]]
    /\ UNCHANGED <<rows, rounds, order, version, wanted, cache>>

PlayerOf(q) == IF q = Overall THEN Anyone ELSE q.player
TotalsOf(q, keys) == Collection(PlayerOf(q), EntriesOf(rounds, keys))

\* ... the query, with the totals of a filter under the same mutex ...
RunQuery(c) ==
    LET q == wanted[c].filter
        keys == ResultFor(q)
    IN  /\ Step(c, "query", "compare")
        /\ built' = [built EXCEPT ![c].rounds = keys,
                                  ![c].data = IF q = Overall THEN NoData ELSE TotalsOf(q, keys)]
        /\ UNCHANGED <<rows, rounds, order, version, wanted, cache>>

\* Mutant: the version after is taken as it is.
CompareNothing(c) ==
    /\ Step(c, "compare", "store")
    /\ built' = [built EXCEPT ![c].version = version,
                              ![c].data = IF wanted[c].filter = Overall
                                          THEN TotalsOf(Overall, built[c].rounds) ELSE @]
    /\ UNCHANGED <<rows, rounds, order, version, wanted, cache>>

\* ... and the version after, which must be the same. The totals of all rounds
\* are made from the pointers that the query has returned.
Compare(c) ==
    /\ Step(c, "compare", IF built[c].version = version THEN "store" ELSE "version")
    /\ built' = IF built[c].version = version /\ wanted[c].filter = Overall
                THEN [built EXCEPT ![c].data = TotalsOf(Overall, built[c].rounds)] ELSE built
    /\ UNCHANGED <<rows, rounds, order, version, wanted, cache>>

\* StoreStatsCache; the orders of the old result go with it.
Store(c) ==
    /\ Step(c, "store", wanted[c].then)
    /\ cache' = [cache EXCEPT ![c] = built[c]]
    /\ built' = [built EXCEPT ![c] = NoResult]
    /\ Wants(c, wanted[c])
    /\ UNCHANGED <<rows, rounds, order, version>>

\* GetSortedStatsRounds keeps every order it has made.
Sort(c) ==
    LET sort == wanted[c].sort
    IN  /\ Step(c, "sort", "idle")
        /\ cache' = IF \E s \in cache[c].sorted : s.by = sort THEN cache
                    ELSE [cache EXCEPT ![c].sorted =
                            @ \cup {[by |-> sort, keys |-> RecordOrder(rounds, cache[c].rounds, sort)]}]
        /\ Wants(c, wanted[c])
        /\ UNCHANGED <<rows, rounds, order, version, built>>

StatsNext ==
    \/ \E record \in Records : Upsert(record)
    \/ LoadFromDatabase
    \/ \E c \in Readers :
         \/ OpenStats(c) \/ CloseStats(c)
         \/ \E q \in Asked \cup {Overall} : AskStats(c, q)
         \/ \E sort \in Sorts : AskRecords(c, sort)
         \/ RefreshForRecords(c) \/ ReadVersion(c) \/ RunQuery(c) \/ Compare(c) \/ Store(c) \/ Sort(c)

StatsSpec == StatsInit /\ [][StatsNext]_statsVars

-----------------------------------------------------------------------------
(* Properties                                                                *)

\* The order that a reader has asked for: by time, or by fan and then by time.
InOrder(keys, sort) ==
    \A i, j \in DOMAIN keys :
      LET a == Entry(rounds, keys[i])
          b == Entry(rounds, keys[j])
          first == IF sort[1] = "fan" /\ a.fan # b.fan THEN a.fan > b.fan ELSE Before(a, b)
      IN  i < j => (first <=> sort[2] = "desc")

Wanted(q) == {r \in rounds : q # Overall => Matches(FilterOf(q), r)}

\* An answer has exactly the rounds that match, newest first, although only the
\* stretch between two bisections is looked at; and every order made of them
\* later has the same rounds, sorted as it should be.
AnswersTrue ==
    \A q \in Asked \cup {Overall} :
      LET keys == ResultFor(q)
      IN  /\ EntriesOf(rounds, keys) = Wanted(q)
          /\ InOrder(keys, <<"time", "desc">>)
          /\ \A sort \in Orders :
               LET sorted == RecordOrder(rounds, keys, sort)
               IN  /\ EntriesOf(rounds, sorted) = Wanted(q) /\ Len(sorted) = Len(keys)
                   /\ InOrder(sorted, sort)

\* A cached result that is still used is what the table would answer now: the
\* version was read before and after its query, and every change of the rounds
\* raises it. It has exactly the rounds that match, newest first, with their
\* totals; and every order kept with it is that of its own rounds.
CacheTrue ==
    \A c \in Readers :
      LET result == cache[c]
          found == EntriesOf(rounds, result.rounds)
      IN  result # NoResult /\ result.version = version =>
            /\ found = Wanted(result.filter)
            /\ InOrder(result.rounds, <<"time", "desc">>)
            /\ result.data = Collection(PlayerOf(result.filter), found)
            /\ \A s \in result.sorted :
                 /\ EntriesOf(rounds, s.keys) = found /\ Len(s.keys) = Len(result.rounds)
                 /\ InOrder(s.keys, s.by)

\* The totals that are added up one beside the other agree: what a player has
\* won and lost makes his points, the points of the players of a table cancel,
\* every round belongs to one mode, and a combination of fans is counted where
\* some result has all of it.
TotalsAgree ==
    /\ \A s \in {r.players : r \in rounds} : \A n \in StatSeats :
         LET p == s[n]
             c == Collection(p, {r \in rounds : HasPlayer(r, p)})
         IN  p # Bot => 3 * c.tot_round_pt = 3 * (c.tot_win_pt - c.tot_shoot_pt) - c.tot_selfdrawned_pt
    /\ \A r \in rounds :
         LET Gain(s) == PtGain(r, r.players[s])
         IN  (\A s \in StatSeats : r.players[s] # Bot) => Sets!MapThenSumSet(Gain, StatSeats) = 0
    /\ \A r \in rounds : Cardinality({mode \in 0..2 : InMode(mode, r)}) = 1
    /\ \A q \in Asked : \A fans \in (SUBSET Fans) \ {{}} :
         Occurrences(q, rounds, fans) =
           {r \in rounds : /\ q.player = Anyone \/ Won(q.player, r)
                           /\ \E code \in FanCodes(q, r) : fans \subseteq code}

=============================================================================
