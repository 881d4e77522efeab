------------------------------ MODULE Statistics ------------------------------
(***************************************************************************)
(* What the program computes from table match, in four places that do not  *)
(* share code:                                                             *)
(*   - the update-statistics job (src/src/jobs/statistics/update.rs);      *)
(*   - the match and statistics queries (src/src/api/matches.rs);          *)
(*   - the placements and scores of the mmr-recalculation job              *)
(*     (src/src/jobs/statistics/mmr_recalculation.rs);                     *)
(*   - the list of matches in a data export (src/src/api/exports.rs).      *)
(* The table grows by the worker's MatchFound and MatchCompleted handlers  *)
(* (src/src/worker.rs); every reachable table is an input to all four.     *)
(*                                                                         *)
(* A match has its participants in columns 1 to 3 or 4: a sequence.  The   *)
(* order of completed_at is the order of completion.  The lists are whole  *)
(* (LIMIT and OFFSET are left out), an average is the pair sum, count.     *)
(***************************************************************************)
EXTENDS Integers, FiniteSets, SequencesExt

CONSTANTS
    Users,     \* user ids
    Bots,      \* bot ids
    Owner,     \* Owner[b]: the user whose bot b is
    Matches,   \* match ids
    Lineup,    \* Lineup[m]: the participants of m, in the order of its columns
    Scores,    \* Scores[m]: final scores the game server may report for m
    None       \* NULL

Participants == Users \cup Bots

ASSUME OwnerAssumption == Owner \in [Bots -> Users] /\ Users \cap Bots = {}
ASSUME ScoresAssumption ==
    \A m \in Matches : Scores[m] \subseteq Int /\ None \notin Scores[m]
\* The columns are what the message says (worker.rs:128): nothing keeps a
\* participant out of a second one.
ASSUME LineupAssumption ==
    \A m \in Matches : Lineup[m] \in Seq(Participants) /\ Len(Lineup[m]) \in {3, 4}

VARIABLES
    started,    \* matches with a row
    score,      \* score[m][i]: column participant<i>_score
    finished    \* matches with completed_at, in its order

vars == <<started, score, finished>>

Seats(m) == DOMAIN Lineup[m]
Completed(m) == m \in ToSet(finished)

\* The column in which the if-else chains find participant p: the first.
SeatOf(m, p) ==
    CHOOSE i \in Seats(m) : /\ Lineup[m][i] = p
                            /\ \A j \in Seats(m) : Lineup[m][j] = p => i <= j
Plays(p, m) == m \in started /\ p \in ToSet(Lineup[m])

\* score.unwrap_or(0)
Points(m, i) == IF score[m][i] = None THEN 0 ELSE score[m][i]

Init ==
    /\ started = {}
    /\ score = [m \in Matches |-> [i \in Seats(m) |-> None]]
    /\ finished = <<>>

\* handle_match_found inserts the row with all scores NULL.
InsertMatch(m) ==
    /\ m \notin started
    /\ started' = started \cup {m}
    /\ UNCHANGED <<score, finished>>

\* Mistake: a second delivery of the message completes the match again.
Mutant_CompletedAgain(m, report) ==
    /\ m \in started
    /\ \A i \in Seats(m) : i # SeatOf(m, Lineup[m][i]) => report[i] = None
    /\ Completed(m) => report = score[m]
    /\ score' = [score EXCEPT ![m] = report]
    /\ finished' = Append(finished, m)
    /\ UNCHANGED started

\* handle_match_completed writes completed_at and the scores the message
\* has; a participant it leaves out keeps NULL, and so does every column of a
\* participant but the first.  A second delivery of the message writes the
\* same values.
RecordResult(m, report) ==
    /\ m \in started
    /\ \A i \in Seats(m) : i # SeatOf(m, Lineup[m][i]) => report[i] = None
    /\ Completed(m) => report = score[m]
    /\ score' = [score EXCEPT ![m] = report]
    /\ finished' = IF Completed(m) THEN finished ELSE Append(finished, m)
    /\ UNCHANGED started

Next ==
    \E m \in Matches :
        \/ InsertMatch(m)
        \/ \E report \in [Seats(m) -> Scores[m] \cup {None}] : RecordResult(m, report)

Spec == Init /\ [][Next]_vars

-----------------------------------------------------------------------------
(* The update-statistics job.                                              *)

\* The scores get_placement_from_scores looks at: NULL counts as 0 in the
\* first three columns and is left out in the fourth.
JobCounts(m) == {i \in Seats(m) : i <= 3 \/ score[m][i] # None}

\* Mistake: the last of the equal places.
Mutant_SharedLast(m, i) ==
    Cardinality({j \in JobCounts(m) : Points(m, j) >= Points(m, i)})

\* Mistake: only the first three columns are compared.
Mutant_FirstThree(m, i) ==
    1 + Cardinality({j \in 1..3 : Points(m, j) > Points(m, i)})

\* The first position in descending order that holds the target score, so
\* equal scores share the best of their places; 4 if nobody has it.
JobPlacement(m, i) ==
    IF \E j \in JobCounts(m) : Points(m, j) = Points(m, i)
       THEN 1 + Cardinality({j \in JobCounts(m) : Points(m, j) > Points(m, i)})
       ELSE 4

\* The matches the job reads for p.
JobGames(p) == {m \in Matches : Plays(p, m)}

\* p's completed matches in their order.
FinishedOf(p) ==
    LET upTo[n \in 0..Len(finished)] ==
            IF n = 0 THEN <<>>
            ELSE IF Plays(p, finished[n]) THEN Append(upTo[n - 1], finished[n])
                                          ELSE upTo[n - 1]
    IN upTo[Len(finished)]

\* JobGames sorted: matches still being played are not filtered out and, as
\* None < Some, come first; all their scores are NULL, so their order does not
\* matter.
JobMatches(p) == SetToSeq({m \in JobGames(p) : ~Completed(m)}) \o FinishedOf(p)

JobWins(m, p) == JobPlacement(m, SeatOf(m, p)) = 1

\* Mistake: a run of losses goes on counting from the wins before it.
Mutant_StreakKeepsCount(acc, win) ==
    IF win THEN [count |-> IF acc.win THEN acc.count + 1 ELSE 1, win |-> TRUE]
           ELSE [count |-> acc.count - 1, win |-> FALSE]

\* The loop's streak_count and last_was_win.
StreakStep(acc, win) ==
    IF win THEN [count |-> IF acc.win THEN acc.count + 1 ELSE 1, win |-> TRUE]
           ELSE [count |-> IF acc.win THEN -1 ELSE acc.count - 1, win |-> FALSE]

JobStreak(p) ==
    LET games == JobMatches(p)
        after[n \in 0..Len(games)] ==
            IF n = 0 THEN [count |-> 0, win |-> FALSE]
                     ELSE StreakStep(after[n - 1], JobWins(games[n], p))
    IN after[Len(games)].count

JobStats(p) ==
    LET games == JobGames(p)
    IN [total |-> Cardinality(games),
        place |-> [k \in 1..4 |->
                     Cardinality({m \in games : JobPlacement(m, SeatOf(m, p)) = k})],
        average |-> <<SumFunction([m \in games |-> Points(m, SeatOf(m, p))]),
                      Cardinality(games)>>]

-----------------------------------------------------------------------------
(* The queries of matches.rs and the list in an export.                    *)

\* From<match::Model>: a stable sort by descending score, NULL as 0, then
\* places in that order, so equal scores go by column.
Placement(m, i) ==
    1 + Cardinality({j \in Seats(m) : \/ Points(m, j) > Points(m, i)
                                      \/ Points(m, j) = Points(m, i) /\ j < i})

\* A participant in a match response.
Participant(m, i) ==
    [id |-> Lineup[m][i], score |-> score[m][i], placement |-> Placement(m, i)]

\* The entry of p that find meets first in the sorted response: of p's columns
\* the one with the best place.
BestSeat(m, p) ==
    CHOOSE i \in Seats(m) :
        /\ Lineup[m][i] = p
        /\ \A j \in Seats(m) : Lineup[m][j] = p => Placement(m, i) <= Placement(m, j)

UserMatchHistory(u) == {m \in Matches : Plays(u, m)}
BotMatchHistory(b) == {m \in Matches : Plays(b, m)}

\* Mistake: the fourth column forgotten in the access check.
Mutant_ThreeColumns(u, m) ==
    \/ \E i \in 1..3 : Lineup[m][i] = u
    \/ \E b \in Bots : Owner[b] = u /\ b \in {Lineup[m][i] : i \in 1..3}

\* get_match answers a participant and the owner of one.
MayGetMatch(u, m) ==
    \/ u \in ToSet(Lineup[m])
    \/ \E b \in Bots : Owner[b] = u /\ b \in ToSet(Lineup[m])

\* The counters of get_user_stats and get_bot_stats.
Counters(p, games) ==
    LET Mine(m) == Participant(m, BestSeat(m, p))
        scored == {m \in games : Mine(m).score # None}
    IN [total |-> Cardinality(games),
        place |-> [k \in 1..4 |-> Cardinality({m \in games : Mine(m).placement = k})],
        average |-> <<SumFunction([m \in scored |-> Mine(m).score]),
                      Cardinality(scored)>>]

UserStats(u) == Counters(u, {m \in ToSet(finished) : Plays(u, m)})
BotStats(b) == Counters(b, {m \in ToSet(finished) : Plays(b, m)})
ApiStats(p) == IF p \in Users THEN UserStats(p) ELSE BotStats(p)

\* The matches of a data export, each with the score of the user's column.
ExportMatches(u) ==
    {[id |-> m, score |-> score[m][SeatOf(m, u)]] : m \in {n \in Matches : Plays(u, n)}}

-----------------------------------------------------------------------------
(* The recalculation of ratings: users and bots are rated separately, but  *)
(* by their places among all participants.                                 *)

\* get_match_participants sorts like the match response.
EloPlacement(m, i) == Placement(m, i)

\* Whom a pass may rate: the users that are active and not deleted, or the
\* bots that still exist, when it reads them.
Pools == (SUBSET Users) \cup (SUBSET Bots)

\* The columns of m that are rated against each other.
Rated(m, pool) == {i \in Seats(m) : Lineup[m][i] \in pool}

\* Completed matches count; one with fewer than two rated entries is skipped.
RatedMatches(pool) == {m \in ToSet(finished) : Cardinality(Rated(m, pool)) >= 2}

\* Mistake: the number of all participants as the divisor.
Mutant_ScoreByTable(m, i, pool) == Len(Lineup[m]) - EloPlacement(m, i) + 1

\* actual_score of calculate_mmr_changes, times the number of those rated.
ActualScore(m, i, pool) == Cardinality(Rated(m, pool)) - EloPlacement(m, i) + 1

-----------------------------------------------------------------------------
(* Properties.                                                             *)

\* Types; a match completes once and only after it was found, only a completed
\* match has scores, and only in the first column of a participant
\* (worker.rs:180, :188).
TypeOK ==
    /\ started \subseteq Matches
    /\ \A m \in Matches : score[m] \in [Seats(m) -> Scores[m] \cup {None}]
    /\ ToSet(finished) \subseteq started /\ IsInjective(finished)
    /\ \A m \in Matches \ ToSet(finished) : \A i \in Seats(m) : score[m][i] = None
    /\ \A m \in Matches : \A i \in Seats(m) :
          i # SeatOf(m, Lineup[m][i]) => score[m][i] = None

\* No other column has p's score.
Untied(m, p) ==
    \A i \in Seats(m) : i # SeatOf(m, p) => Points(m, i) # Points(m, SeatOf(m, p))

\* The job and the queries count the same games, places and scores for
\* everyone whose matches are all over, with a score in every column and
\* without ties (update.rs:177 and :275 against matches.rs:32 and :419): the
\* two implementations treat NULL, ties, the fourth column and a participant
\* in two columns differently.  A match of the last sort has a column without
\* a score.
JobAgreesWithQueries ==
    \A p \in Participants :
        (\A m \in Matches : Plays(p, m) =>
            /\ Completed(m) /\ Untied(m, p)
            /\ \A i \in Seats(m) : score[m][i] # None)
        => JobStats(p) = ApiStats(p)

\* Where they differ the job is the more generous one: whoever has a score in
\* every entry that the query finds for him has at least as many games at
\* place k or better in the stored statistics as in the answer of the query
\* (update.rs:372: ties share the better place, matches being played count as
\* wins).  Of a participant in two columns the job takes the first and the
\* query the better placed; where that is the second, which never has a score,
\* the job may be the less generous one.
JobIsGenerous ==
    \A p \in Participants :
        (\A m \in Matches : Plays(p, m) /\ Completed(m)
                                => score[m][BestSeat(m, p)] # None)
        => LET job == JobStats(p).place
               api == ApiStats(p).place
           IN /\ job[1] >= api[1]
              /\ job[1] + job[2] >= api[1] + api[2]
              /\ job[1] + job[2] + job[3] >= api[1] + api[2] + api[3]
              /\ job[1] + job[2] + job[3] + job[4] >= api[1] + api[2] + api[3] + api[4]

\* current_streak is the length of the run of wins, or minus the length of
\* the run of other games, that the player's games end with (update.rs:238).
StreakIsLastRun ==
    \A p \in Participants :
        LET games == JobMatches(p)
            n == Len(games)
            Run(k, win) == \A i \in (n - k + 1)..n : JobWins(games[i], p) = win
        IN IF n = 0
              THEN JobStreak(p) = 0
              ELSE LET win == JobWins(games[n], p)
                       len == CHOOSE k \in 1..n : Run(k, win) /\ (k < n => ~Run(k + 1, win))
                   IN JobStreak(p) = IF win THEN len ELSE -len

\* The place an entry has among those it is rated against.
PlaceAmongRated(m, i, pool) ==
    1 + Cardinality({j \in Rated(m, pool) : EloPlacement(m, j) < EloPlacement(m, i)})

\* Playing with those who are not rated (of the other kind, suspended, gone)
\* never raises a rating: whoever the pass rates, each rated entry is credited
\* with at most the score its place among the rated ones is worth, and with
\* exactly that one if no other is ahead (mmr_recalculation.rs:247 divides a
\* place among all participants by the number of those rated).  The last of n
\* with no other ahead is so credited with 1/n, and not with 0 as the comment
\* before it says.
MixedTableNeverHelps ==
    \A pool \in Pools : \A m \in RatedMatches(pool) : \A i \in Rated(m, pool) :
        LET fair == Cardinality(Rated(m, pool)) - PlaceAmongRated(m, i, pool) + 1
            behind == \E j \in Seats(m) \ Rated(m, pool) :
                          EloPlacement(m, j) < EloPlacement(m, i)
        IN IF behind THEN ActualScore(m, i, pool) < fair
                     ELSE ActualScore(m, i, pool) = fair

\* The comment at mmr_recalculation.rs:246, "last place gets 0.0": the last of
\* those rated is credited with nothing.  The code does not keep to it.
LastPlaceGetsNothing ==
    \A pool \in Pools : \A m \in RatedMatches(pool) : \A i \in Rated(m, pool) :
        PlaceAmongRated(m, i, pool) = Cardinality(Rated(m, pool))
            => ActualScore(m, i, pool) = 0

\* Whatever a user finds in a match history or in a data export, his own or
\* that of a bot of his, can be opened with get_match, and shows the score
\* the export shows (matches.rs:151, :228, :309, exports.rs:503).
HistoryCanBeOpened ==
    \A u \in Users :
        /\ \A m \in UserMatchHistory(u)
                    \cup UNION {BotMatchHistory(b) : b \in {c \in Bots : Owner[c] = u}} :
              MayGetMatch(u, m)
        /\ \A e \in ExportMatches(u) :
              /\ MayGetMatch(u, e.id)
              /\ \E i \in Seats(e.id) : /\ Participant(e.id, i).id = u
                                        /\ Participant(e.id, i).score = e.score

=============================================================================
