--------------------------- MODULE MCDuplicateGames ---------------------------
(* Instances of DuplicateGames for TLC. *)
EXTENDS DuplicateGames, TLC

CONSTANTS w1, w2, recorder, s1, s2

MCWorkers == {w1, w2}
MCThreads == {w1, w2, recorder}
MCSessions == {s1, s2}
MCRecords == MCSessions \X (1..Rounds)
MCSymmetry == Permutations(MCWorkers) \cup Permutations(MCSessions)

\* A second round is played only while there is no other session.
OneGameOrOneRound ==
    \A s \in Sessions : round[s] > 1 => \A other \in Sessions \ {s} : stage[other] = "none"

MCGamesSpec == GamesInit /\ [][GamesNext /\ OneGameOrOneRound']_allVars

\* UsesStore as far as there is one game; the theorem GamesUseStore is about any
\* number of them.
OneGameUsesStore == Init /\ [][(\E s \in Sessions : stage[s] = "none") => Next]_vars
=============================================================================
