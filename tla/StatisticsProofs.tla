--------------------------- MODULE StatisticsProofs ---------------------------
(***************************************************************************)
(* Statistics for any number of matches, scores and participants.          *)
(***************************************************************************)
EXTENDS Statistics, FiniteSetTheorems, SequenceTheorems, WellFoundedInduction, TLAPS

-----------------------------------------------------------------------------
(* The table.                                                              *)

\* The inductive invariant: types, and that only finitely many matches have
\* been made so far.
TableInv ==
    /\ TypeOK
    /\ score = [m \in Matches |-> score[m]]
    /\ finished \in Seq(Matches)
    /\ IsFiniteSet(started)

LEMMA Least ==
    ASSUME NEW T, T \subseteq Nat, T # {}
    PROVE  \E n \in T : \A m \in T : n <= m
<1>1. PICK n \in T : \A m \in T : ~ (<<m, n>> \in OpToRel(<, Nat))
  BY WFMin, NatLessThanWellFounded
<1>2. \A m \in T : ~ m < n
  BY <1>1 DEF OpToRel
<1> QED
  BY <1>2

\* Columns are the numbers 1 to 3 or 4; every participant has a first one.
LEMMA SeatFacts ==
    ASSUME NEW m \in Matches
    PROVE  /\ Seats(m) \in {1..3, 1..4}
           /\ Lineup[m] \in [Seats(m) -> Participants]
           /\ \A p \in ToSet(Lineup[m]) : SeatOf(m, p) \in Seats(m)
                                              /\ Lineup[m][SeatOf(m, p)] = p
<1>1. Lineup[m] \in Seq(Participants) /\ Len(Lineup[m]) \in {3, 4}
  BY LineupAssumption
<1>2. Seats(m) = 1..Len(Lineup[m]) /\ Lineup[m] \in [Seats(m) -> Participants]
  BY <1>1, LenProperties DEF Seats
<1>3. ASSUME NEW p \in ToSet(Lineup[m])
      PROVE  \E i \in Seats(m) : /\ Lineup[m][i] = p
                                 /\ \A j \in Seats(m) : Lineup[m][j] = p => i <= j
  <2> DEFINE T == {i \in Seats(m) : Lineup[m][i] = p}
  <2>1. T # {} /\ T \subseteq Nat
    BY <1>1, <1>2 DEF ToSet, Seats
  <2>2. \E i \in T : \A j \in T : i <= j
    BY <2>1, Least
  <2> QED
    BY <2>2
<1> QED
  BY <1>1, <1>2, <1>3 DEF SeatOf

LEMMA TableInit == Init => TableInv
<1> SUFFICES ASSUME Init PROVE TableInv
  OBVIOUS
<1>1. finished = <<>> /\ ToSet(finished) = {} /\ IsInjective(finished)
  BY DEF Init, ToSet, IsInjective
<1>2. finished \in Seq(Matches) /\ IsFiniteSet(started)
  BY <1>1, FS_EmptySet DEF Init
<1>3. \A m \in Matches : score[m] = [i \in Seats(m) |-> None]
  BY DEF Init
<1> QED
  BY <1>1, <1>2, <1>3 DEF Init, TableInv, TypeOK

\* A completion adds the match at the end, where it was not before.
LEMMA FinishedGrows ==
    ASSUME NEW s \in Seq(Matches), NEW m \in Matches, IsInjective(s), m \notin ToSet(s)
    PROVE  /\ Append(s, m) \in Seq(Matches) /\ IsInjective(Append(s, m))
           /\ ToSet(Append(s, m)) = ToSet(s) \cup {m}
<1> DEFINE t == Append(s, m)
<1>1. /\ t \in Seq(Matches) /\ Len(t) = Len(s) + 1 /\ t[Len(s) + 1] = m
      /\ \A i \in 1..Len(s) : t[i] = s[i]
  BY AppendProperties
<1>2. DOMAIN t = 1..(Len(s) + 1) /\ DOMAIN s = 1..Len(s) /\ Len(s) \in Nat
  BY <1>1, LenProperties
<1> HIDE DEF t
<1>3. ToSet(t) = ToSet(s) \cup {m}
  BY <1>1, <1>2 DEF ToSet
<1>4. \A i \in 1..Len(s) : t[i] # m
  BY <1>1, <1>2 DEF ToSet
<1>5. IsInjective(t)
  BY <1>1, <1>2, <1>4 DEF IsInjective
<1> QED
  BY <1>1, <1>3, <1>5 DEF t

LEMMA TableStep == TableInv /\ [Next]_vars => TableInv'
<1> SUFFICES ASSUME TableInv, [Next]_vars PROVE TableInv'
  OBVIOUS
<1> USE DEF TableInv, TypeOK
<1>1. ASSUME NEW m \in Matches, InsertMatch(m) PROVE TableInv'
  <2>1. IsFiniteSet(started')
    BY <1>1, FS_AddElement DEF InsertMatch
  <2> QED
    BY <1>1, <2>1 DEF InsertMatch, Seats
<1>2. ASSUME NEW m \in Matches, NEW report \in [Seats(m) -> Scores[m] \cup {None}],
             RecordResult(m, report)
      PROVE  TableInv'
  <2>1. /\ m \in started /\ started' = started /\ score' = [score EXCEPT ![m] = report]
        /\ \A i \in Seats(m) : i # SeatOf(m, Lineup[m][i]) => report[i] = None
    BY <1>2 DEF RecordResult
  <2>2. CASE Completed(m)
    <3>1. score' = score /\ finished' = finished
      BY <1>2, <2>1, <2>2 DEF RecordResult
    <3> QED
      BY <2>1, <3>1 DEF Seats
  <2>3. CASE ~Completed(m)
    <3>1. finished' = Append(finished, m) /\ m \notin ToSet(finished)
      BY <1>2, <2>3 DEF RecordResult, Completed
    <3>2. /\ finished' \in Seq(Matches) /\ IsInjective(finished')
          /\ ToSet(finished') = ToSet(finished) \cup {m}
      BY <3>1, FinishedGrows
    <3> QED
      BY <2>1, <3>2 DEF Seats
  <2> QED
    BY <2>2, <2>3
<1>3. CASE UNCHANGED vars
  BY <1>3 DEF vars, Seats
<1> QED
  BY <1>1, <1>2, <1>3 DEF Next

LEMMA TableHolds == Spec => []TableInv
BY TableInit, TableStep, PTL DEF Spec

\* Columns keep their types; a match completes once and after it was found
\* (worker.rs:128, :180).
THEOREM TableTypeCorrect == Spec => []TypeOK
<1>1. TableInv => TypeOK
  BY DEF TableInv
<1> QED
  BY <1>1, TableHolds, PTL

-----------------------------------------------------------------------------
(* Histories and access.                                                   *)

\* Whoever finds a match in a history or in an export may open it and sees the
\* same score (matches.rs:151, :228, :309, exports.rs:503).
THEOREM HistoriesOpen == Spec => []HistoryCanBeOpened
<1>1. TableInv => HistoryCanBeOpened
  <2> SUFFICES ASSUME NEW u \in Users PROVE
          /\ \A m \in UserMatchHistory(u)
                      \cup UNION {BotMatchHistory(b) : b \in {c \in Bots : Owner[c] = u}} :
                MayGetMatch(u, m)
          /\ \A e \in ExportMatches(u) :
                /\ MayGetMatch(u, e.id)
                /\ \E i \in Seats(e.id) : /\ Participant(e.id, i).id = u
                                          /\ Participant(e.id, i).score = e.score
    BY DEF HistoryCanBeOpened
  <2>1. \A m \in UserMatchHistory(u) : MayGetMatch(u, m)
    BY DEF UserMatchHistory, Plays, MayGetMatch
  <2>2. \A b \in Bots : Owner[b] = u => \A m \in BotMatchHistory(b) : MayGetMatch(u, m)
    BY DEF BotMatchHistory, Plays, MayGetMatch
  <2>3. ASSUME NEW e \in ExportMatches(u)
        PROVE  /\ MayGetMatch(u, e.id)
               /\ \E i \in Seats(e.id) : /\ Participant(e.id, i).id = u
                                         /\ Participant(e.id, i).score = e.score
    <3>1. PICK m \in Matches : Plays(u, m) /\ e = [id |-> m, score |-> score[m][SeatOf(m, u)]]
      BY <2>3 DEF ExportMatches
    <3>2. SeatOf(m, u) \in Seats(m) /\ Lineup[m][SeatOf(m, u)] = u
      BY <3>1, SeatFacts DEF Plays
    <3> QED
      BY <3>1, <3>2 DEF Plays, MayGetMatch, Participant
  <2> QED
    BY <2>1, <2>2, <2>3
<1> QED
  BY <1>1, TableHolds, PTL

-----------------------------------------------------------------------------
(* Places.                                                                 *)

\* The participants that the match response puts before column i: a strict
\* order of the columns.
Before(m, i) == {j \in Seats(m) : \/ Points(m, j) > Points(m, i)
                                  \/ Points(m, j) = Points(m, i) /\ j < i}
\* The ones the statistics job puts before it.
JobBefore(m, i) == {j \in JobCounts(m) : Points(m, j) > Points(m, i)}

LEMMA PointsAreInt ==
    ASSUME TableInv, NEW m \in Matches, NEW i \in Seats(m)
    PROVE  Points(m, i) \in Int
<1>1. score[m][i] \in Scores[m] \cup {None} /\ Scores[m] \subseteq Int
  BY ScoresAssumption DEF TableInv, TypeOK
<1> QED
  BY <1>1 DEF Points

\* A set of columns without i is small.
LEMMA ColumnsCount ==
    ASSUME NEW m \in Matches, NEW i \in Seats(m), NEW S, S \subseteq Seats(m) \ {i}
    PROVE  IsFiniteSet(S) /\ Cardinality(S) \in 0..3
<1> DEFINE T == (1..4) \ {i}
<1>1. i \in 1..4 /\ S \subseteq T
  BY SeatFacts
<1>2. 1 \in Int /\ 4 \in Int
  OBVIOUS
<1>3. IsFiniteSet(1..4) /\ Cardinality(1..4) = IF 1 > 4 THEN 0 ELSE 4 - 1 + 1
  BY <1>2, FS_Interval, Zenon
<1>4. IsFiniteSet(T) /\ Cardinality(T) = 3
  BY <1>1, <1>3, FS_RemoveElement
<1> HIDE DEF T
<1>5. IsFiniteSet(S) /\ Cardinality(S) <= Cardinality(T)
  BY <1>1, <1>4, FS_Subset
<1> QED
  BY <1>4, <1>5, FS_CardinalityType

LEMMA PlacesInRange ==
    ASSUME TableInv, NEW m \in Matches, NEW i \in Seats(m)
    PROVE  /\ Placement(m, i) = 1 + Cardinality(Before(m, i)) /\ Placement(m, i) \in 1..4
           /\ JobPlacement(m, i) \in 1..4
<1>1. Before(m, i) \subseteq Seats(m) \ {i}
  BY PointsAreInt, SeatFacts DEF Before
<1>2. JobBefore(m, i) \subseteq Seats(m) \ {i}
  BY PointsAreInt DEF JobBefore, JobCounts
<1>3. Cardinality(Before(m, i)) \in 0..3 /\ Cardinality(JobBefore(m, i)) \in 0..3
  BY <1>1, <1>2, ColumnsCount
<1> QED
  BY <1>3 DEF Placement, Before, JobPlacement, JobBefore

\* The entry that the queries find is one of p's columns, and p's first column
\* if it has a score.
LEMMA BestSeatFacts ==
    ASSUME TableInv, NEW m \in Matches, NEW p \in ToSet(Lineup[m])
    PROVE  /\ BestSeat(m, p) \in Seats(m) /\ Lineup[m][BestSeat(m, p)] = p
           /\ score[m][BestSeat(m, p)] # None => BestSeat(m, p) = SeatOf(m, p)
<1> DEFINE Mine == {i \in Seats(m) : Lineup[m][i] = p}
           T == {Placement(m, i) : i \in Mine}
<1>1. T \subseteq Nat
  BY PlacesInRange
<1>2. T # {}
  BY SeatFacts
<1>3. \E n \in T : \A k \in T : n <= k
  BY <1>1, <1>2, Least
<1>4. \E i \in Mine : \A j \in Mine : Placement(m, i) <= Placement(m, j)
  BY <1>3
<1>5. BestSeat(m, p) \in Seats(m) /\ Lineup[m][BestSeat(m, p)] = p
  BY <1>4 DEF BestSeat
<1>6. \A i \in Seats(m) : i # SeatOf(m, Lineup[m][i]) => score[m][i] = None
  BY DEF TableInv, TypeOK
<1> QED
  BY <1>5, <1>6

\* Ties and NULL apart the two computations of a place agree (update.rs:372,
\* matches.rs:68).
LEMMA UntiedPlacesAgree ==
    ASSUME TableInv, NEW m \in Matches, NEW p \in ToSet(Lineup[m]), Untied(m, p),
           \A i \in Seats(m) : score[m][i] # None
    PROVE  JobPlacement(m, SeatOf(m, p)) = Placement(m, SeatOf(m, p))
<1> DEFINE i == SeatOf(m, p)
<1>1. i \in Seats(m) /\ JobCounts(m) = Seats(m)
  BY SeatFacts DEF JobCounts
<1>2. JobBefore(m, i) = Before(m, i)
  BY <1>1, SeatFacts DEF JobBefore, Before, Untied
<1>3. JobPlacement(m, i) = 1 + Cardinality(JobBefore(m, i))
  BY <1>1 DEF JobPlacement, JobBefore
<1> QED
  BY <1>1, <1>2, <1>3, PlacesInRange

\* Whoever has a score gets from the job at least the place that the query
\* gives.
LEMMA JobPlaceIsNoWorse ==
    ASSUME TableInv, NEW m \in Matches, NEW i \in Seats(m), score[m][i] # None
    PROVE  JobPlacement(m, i) <= Placement(m, i)
<1>1. JobBefore(m, i) \in SUBSET Before(m, i)
  BY DEF JobBefore, JobCounts, Before
<1>2. Before(m, i) \subseteq Seats(m) \ {i}
  BY PointsAreInt, SeatFacts DEF Before
<1>3. /\ IsFiniteSet(Before(m, i))
      /\ Cardinality(JobBefore(m, i)) <= Cardinality(Before(m, i))
      /\ Cardinality(JobBefore(m, i)) \in Nat /\ Cardinality(Before(m, i)) \in Nat
  BY <1>1, <1>2, ColumnsCount, FS_Subset, FS_CardinalityType
<1>4. JobPlacement(m, i) = 1 + Cardinality(JobBefore(m, i))
  BY DEF JobPlacement, JobBefore, JobCounts
<1> QED
  BY <1>3, <1>4, PlacesInRange

\* The match response ranks its columns without ties.
LEMMA PlacesAreRanks ==
    ASSUME TableInv, NEW m \in Matches, NEW i \in Seats(m), NEW j \in Seats(m)
    PROVE  Placement(m, j) < Placement(m, i) <=> j \in Before(m, i)
<1>1. \A k \in Seats(m) : Points(m, k) \in Int /\ k \in Int
  BY PointsAreInt, SeatFacts
<1>2. ASSUME NEW k \in Seats(m), NEW l \in Seats(m), l \in Before(m, k)
      PROVE  Placement(m, l) < Placement(m, k)
  <2>1. Before(m, l) \in SUBSET Before(m, k) /\ l \notin Before(m, l)
    BY <1>1, <1>2 DEF Before
  <2>2. Before(m, k) \subseteq Seats(m) \ {k}
    BY <1>1 DEF Before
  <2>3. IsFiniteSet(Before(m, k))
    BY <2>2, ColumnsCount
  <2>4. /\ Cardinality(Before(m, l)) <= Cardinality(Before(m, k))
        /\ Cardinality(Before(m, l)) # Cardinality(Before(m, k))
        /\ Cardinality(Before(m, l)) \in Nat /\ Cardinality(Before(m, k)) \in Nat
    BY <1>2, <2>1, <2>3, FS_Subset, FS_CardinalityType
  <2> QED
    BY <2>4, PlacesInRange
<1>3. j \in Before(m, i) \/ i = j \/ i \in Before(m, j)
  BY <1>1 DEF Before
<1>4. Placement(m, i) \in Int /\ Placement(m, j) \in Int
  BY PlacesInRange
<1> QED
  BY <1>2, <1>3, <1>4

-----------------------------------------------------------------------------
(* The recalculation.                                                      *)

\* Whoever a pass rates, it credits a place among all participants as if it
\* were one among those rated, which is never worth more
\* (mmr_recalculation.rs:247).
THEOREM MixedTables == Spec => []MixedTableNeverHelps
<1>1. TableInv => MixedTableNeverHelps
  <2> SUFFICES ASSUME TableInv, NEW pool \in Pools, NEW m \in RatedMatches(pool), NEW i \in Rated(m, pool)
               PROVE  LET fair == Cardinality(Rated(m, pool)) - PlaceAmongRated(m, i, pool) + 1
                          behind == \E j \in Seats(m) \ Rated(m, pool) :
                                        EloPlacement(m, j) < EloPlacement(m, i)
                      IN IF behind THEN ActualScore(m, i, pool) < fair
                                   ELSE ActualScore(m, i, pool) = fair
    BY DEF MixedTableNeverHelps
  <2> DEFINE All == Before(m, i)
             Own == {j \in Rated(m, pool) : EloPlacement(m, j) < EloPlacement(m, i)}
             behind == \E j \in Seats(m) \ Rated(m, pool) : EloPlacement(m, j) < EloPlacement(m, i)
  <2>1. m \in Matches /\ i \in Seats(m) /\ Rated(m, pool) \subseteq Seats(m)
    BY DEF TableInv, TypeOK, Rated, RatedMatches
  <2>2. \A j \in Seats(m) : EloPlacement(m, j) < EloPlacement(m, i) <=> j \in All
    BY <2>1, PlacesAreRanks DEF EloPlacement
  <2>3. All \subseteq Seats(m) \ {i}
    BY <2>1, PointsAreInt, SeatFacts DEF Before
  <2>4. Own = All \cap Rated(m, pool) /\ Own \in SUBSET All
    BY <2>1, <2>2, <2>3
  <2>5. behind <=> All # Own
    BY <2>1, <2>2, <2>3, <2>4
  <2>6. IsFiniteSet(All) /\ Cardinality(All) \in Nat
    BY <2>1, <2>3, ColumnsCount
  <2>7. IsFiniteSet(Own) /\ Cardinality(Own) \in Nat /\ Cardinality(Own) <= Cardinality(All)
    BY <2>4, <2>6, FS_Subset, FS_CardinalityType
  <2>8. behind <=> Cardinality(Own) # Cardinality(All)
    BY <2>4, <2>5, <2>6, FS_Subset
  <2>9. IsFiniteSet(Rated(m, pool)) /\ Cardinality(Rated(m, pool)) \in Nat
    <3>1. Seats(m) \in {1..3, 1..4}
      BY <2>1, SeatFacts
    <3>2. 1 \in Int /\ 3 \in Int /\ 4 \in Int
      OBVIOUS
    <3>3. IsFiniteSet(1..3) /\ IsFiniteSet(1..4)
      BY <3>2, FS_Interval, Zenon
    <3> QED
      BY <2>1, <3>1, <3>3, FS_Subset, FS_CardinalityType
  <2>10. EloPlacement(m, i) = 1 + Cardinality(All)
    BY <2>1, PlacesInRange DEF EloPlacement
  <2>11. PlaceAmongRated(m, i, pool) = 1 + Cardinality(Own)
    BY DEF PlaceAmongRated
  <2> HIDE DEF All, Own, behind
  <2>12. IF behind THEN ActualScore(m, i, pool)
                          < Cardinality(Rated(m, pool)) - PlaceAmongRated(m, i, pool) + 1
                   ELSE ActualScore(m, i, pool)
                          = Cardinality(Rated(m, pool)) - PlaceAmongRated(m, i, pool) + 1
    BY <2>6, <2>7, <2>8, <2>9, <2>10, <2>11 DEF ActualScore
  <2> QED
    BY <2>12 DEF behind
<1> QED
  BY <1>1, TableHolds, PTL

-----------------------------------------------------------------------------
(* The statistics of a participant.                                        *)

\* The completed matches of p, which the queries read.
ApiGames(p) == {m \in ToSet(finished) : Plays(p, m)}

LEMMA ApiStatsAreCounters ==
    ASSUME NEW p \in Participants
    PROVE  ApiStats(p) = Counters(p, ApiGames(p))
BY DEF Participants, ApiStats, UserStats, BotStats, ApiGames

LEMMA GamesFacts ==
    ASSUME TableInv, NEW p \in Participants
    PROVE  /\ ApiGames(p) = {m \in JobGames(p) : Completed(m)}
           /\ JobGames(p) \subseteq Matches /\ IsFiniteSet(JobGames(p))
           /\ \A m \in JobGames(p) : p \in ToSet(Lineup[m]) /\ SeatOf(m, p) \in Seats(m)
<1>1. JobGames(p) \in SUBSET started /\ IsFiniteSet(started)
  BY DEF TableInv, JobGames, Plays
<1>2. IsFiniteSet(JobGames(p))
  BY <1>1, FS_Subset
<1>3. \A m \in JobGames(p) : m \in Matches /\ p \in ToSet(Lineup[m]) /\ SeatOf(m, p) \in Seats(m)
  BY SeatFacts DEF JobGames, Plays
<1>4. ApiGames(p) = {m \in JobGames(p) : Completed(m)}
  BY DEF ApiGames, JobGames, Completed, TableInv, TypeOK
<1> QED
  BY <1>2, <1>3, <1>4

\* The two implementations agree on whoever has only finished matches with a
\* score in every column and no tie with his (update.rs:177, :275,
\* matches.rs:32, :419).
THEOREM StatisticsAgree == Spec => []JobAgreesWithQueries
<1>1. TableInv => JobAgreesWithQueries
  <2> SUFFICES ASSUME TableInv, NEW p \in Participants,
                      \A m \in Matches : Plays(p, m) =>
                          /\ Completed(m) /\ Untied(m, p)
                          /\ \A i \in Seats(m) : score[m][i] # None
               PROVE  JobStats(p) = ApiStats(p)
    BY DEF JobAgreesWithQueries
  <2> DEFINE games == JobGames(p)
             Mine(m) == Participant(m, BestSeat(m, p))
             scored == {m \in games : Mine(m).score # None}
  <2>1. \A m \in games : /\ m \in Matches /\ p \in ToSet(Lineup[m]) /\ SeatOf(m, p) \in Seats(m)
                         /\ Completed(m) /\ Untied(m, p)
                         /\ \A i \in Seats(m) : score[m][i] # None
                         /\ BestSeat(m, p) = SeatOf(m, p)
    BY GamesFacts, BestSeatFacts DEF JobGames
  <2>2. ApiGames(p) = games
    BY <2>1, GamesFacts
  <2>3. \A m \in games : JobPlacement(m, SeatOf(m, p)) = Mine(m).placement
    BY <2>1, UntiedPlacesAgree DEF Participant
  <2>4. \A m \in games : Points(m, SeatOf(m, p)) = Mine(m).score /\ Mine(m).score # None
    BY <2>1 DEF Participant, Points
  <2>5. scored = games
    BY <2>4
  <2>6. [k \in 1..4 |-> Cardinality({m \in games : JobPlacement(m, SeatOf(m, p)) = k})]
          = [k \in 1..4 |-> Cardinality({m \in games : Mine(m).placement = k})]
    <3>1. \A k \in 1..4 : {m \in games : JobPlacement(m, SeatOf(m, p)) = k}
                            = {m \in games : Mine(m).placement = k}
      BY <2>3
    <3> QED
      BY <3>1
  <2>7. [m \in games |-> Points(m, SeatOf(m, p))] = [m \in scored |-> Mine(m).score]
    BY <2>4, <2>5
  <2>8. ApiStats(p) = Counters(p, games)
    BY <2>2, ApiStatsAreCounters
  <2>9. JobStats(p) =
          [total |-> Cardinality(games),
           place |-> [k \in 1..4 |-> Cardinality({m \in games : JobPlacement(m, SeatOf(m, p)) = k})],
           average |-> <<SumFunction([m \in games |-> Points(m, SeatOf(m, p))]), Cardinality(games)>>]
    BY DEF JobStats
  <2>10. Counters(p, games) =
          [total |-> Cardinality(games),
           place |-> [k \in 1..4 |-> Cardinality({m \in games : Mine(m).placement = k})],
           average |-> <<SumFunction([m \in scored |-> Mine(m).score]), Cardinality(scored)>>]
    BY DEF Counters
  <2> HIDE DEF games, Mine, scored
  <2> QED
    BY <2>5, <2>6, <2>7, <2>8, <2>9, <2>10
<1> QED
  BY <1>1, TableHolds, PTL

LEMMA DisjointCount ==
    ASSUME NEW G, IsFiniteSet(G), NEW S \in SUBSET G, NEW T \in SUBSET G, S \cap T = {}
    PROVE  /\ Cardinality(S) \in Nat /\ Cardinality(T) \in Nat
           /\ Cardinality(S \cup T) = Cardinality(S) + Cardinality(T)
<1>1. IsFiniteSet(S) /\ IsFiniteSet(T)
  BY FS_Subset
<1>2. /\ Cardinality(S) \in Nat /\ Cardinality(T) \in Nat
      /\ Cardinality(S \cup T) = Cardinality(S) + Cardinality(T) - Cardinality({})
  BY <1>1, FS_Union, FS_CardinalityType
<1>3. Cardinality({}) = 0
  BY FS_EmptySet
<1> QED
  BY <1>2, <1>3

\* How many of the games G have a place, and how many have it or a better
\* one, when f gives the places.
CountAt(G, f) == [k \in 1..4 |-> Cardinality({m \in G : f[m] = k})]
CountUpTo(G, f) == [k \in 1..4 |-> Cardinality({m \in G : f[m] <= k})]

LEMMA CountsByPlace ==
    ASSUME NEW G, IsFiniteSet(G), NEW f \in [G -> 1..4]
    PROVE  /\ CountAt(G, f) \in [1..4 -> Nat]
           /\ CountUpTo(G, f)[1] = CountAt(G, f)[1]
           /\ \A k \in 2..4 : CountUpTo(G, f)[k] = CountUpTo(G, f)[k - 1] + CountAt(G, f)[k]
<1> DEFINE At == [k \in 1..4 |-> {m \in G : f[m] = k}]
           UpTo == [k \in 1..4 |-> {m \in G : f[m] <= k}]
<1>1. \A k \in 1..4 : At[k] \in SUBSET G /\ UpTo[k] \in SUBSET G
  OBVIOUS
<1>2. UpTo[1] = At[1]
  OBVIOUS
<1>3. \A k \in 2..4 : UpTo[k] = UpTo[k - 1] \cup At[k] /\ UpTo[k - 1] \cap At[k] = {}
  OBVIOUS
<1>4. /\ CountAt(G, f) = [k \in 1..4 |-> Cardinality(At[k])]
      /\ CountUpTo(G, f) = [k \in 1..4 |-> Cardinality(UpTo[k])]
  BY DEF CountAt, CountUpTo
<1> HIDE DEF At, UpTo
<1>5. \A k \in 1..4 : Cardinality(At[k]) \in Nat
  BY <1>1, FS_Subset, FS_CardinalityType
<1>6. \A k \in 2..4 : Cardinality(UpTo[k]) = Cardinality(UpTo[k - 1]) + Cardinality(At[k])
  <2> SUFFICES ASSUME NEW k \in 2..4
               PROVE  Cardinality(UpTo[k]) = Cardinality(UpTo[k - 1]) + Cardinality(At[k])
    OBVIOUS
  <2>1. k \in 1..4 /\ k - 1 \in 1..4
    OBVIOUS
  <2>2. UpTo[k - 1] \in SUBSET G /\ At[k] \in SUBSET G
    BY <1>1, <2>1
  <2> QED
    BY <1>3, <2>2, DisjointCount
<1> QED
  BY <1>2, <1>4, <1>5, <1>6

\* Whoever plays more games and places no worse in any has as many games at
\* every place or better.
LEMMA MoreGamesNoWorse ==
    ASSUME NEW G, IsFiniteSet(G), NEW H \in SUBSET G,
           NEW f \in [G -> 1..4], NEW g \in [H -> 1..4], \A m \in H : f[m] <= g[m],
           NEW job, job = CountAt(G, f), NEW api, api = CountAt(H, g)
    PROVE  /\ job[1] >= api[1]
           /\ job[1] + job[2] >= api[1] + api[2]
           /\ job[1] + job[2] + job[3] >= api[1] + api[2] + api[3]
           /\ job[1] + job[2] + job[3] + job[4] >= api[1] + api[2] + api[3] + api[4]
<1> DEFINE jobTo == CountUpTo(G, f)
           apiTo == CountUpTo(H, g)
<1>1. IsFiniteSet(H)
  BY FS_Subset
<1>2. \A k \in 1..4 : apiTo[k] <= jobTo[k]
  <2> SUFFICES ASSUME NEW k \in 1..4 PROVE apiTo[k] <= jobTo[k]
    OBVIOUS
  <2> DEFINE S == {m \in H : g[m] <= k}
             T == {m \in G : f[m] <= k}
  <2>1. S \in SUBSET T /\ T \in SUBSET G
    OBVIOUS
  <2>2. apiTo[k] = Cardinality(S) /\ jobTo[k] = Cardinality(T)
    BY DEF CountUpTo
  <2> HIDE DEF S, T
  <2> QED
    BY <2>1, <2>2, FS_Subset
<1>3. /\ job \in [1..4 -> Nat] /\ jobTo[1] = job[1]
      /\ \A k \in 2..4 : jobTo[k] = jobTo[k - 1] + job[k]
  BY CountsByPlace
<1>4. /\ api \in [1..4 -> Nat] /\ apiTo[1] = api[1]
      /\ \A k \in 2..4 : apiTo[k] = apiTo[k - 1] + api[k]
  BY <1>1, CountsByPlace
<1> HIDE DEF jobTo, apiTo
<1>5. \A k \in 1..4 : job[k] \in Nat /\ api[k] \in Nat
  BY <1>3, <1>4
<1>6. /\ jobTo[2] = job[1] + job[2] /\ jobTo[3] = jobTo[2] + job[3] /\ jobTo[4] = jobTo[3] + job[4]
      /\ apiTo[2] = api[1] + api[2] /\ apiTo[3] = apiTo[2] + api[3] /\ apiTo[4] = apiTo[3] + api[4]
  BY <1>3, <1>4
<1>7. \A k \in 1..4 : apiTo[k] <= jobTo[k]
  BY <1>2
<1>8. /\ apiTo[1] <= jobTo[1] /\ apiTo[2] <= jobTo[2] /\ apiTo[3] <= jobTo[3] /\ apiTo[4] <= jobTo[4]
  BY <1>7
<1>9. /\ job[1] \in Nat /\ job[2] \in Nat /\ job[3] \in Nat /\ job[4] \in Nat
       /\ api[1] \in Nat /\ api[2] \in Nat /\ api[3] \in Nat /\ api[4] \in Nat
  BY <1>5
<1> QED
  BY <1>3, <1>4, <1>6, <1>8, <1>9

\* The stored statistics are no worse than the answer of the query for whoever
\* has a score in every entry that the query finds (update.rs:372).
THEOREM JobGenerous == Spec => []JobIsGenerous
<1>1. TableInv => JobIsGenerous
  <2> SUFFICES ASSUME TableInv, NEW p \in Participants,
                      \A m \in Matches : Plays(p, m) /\ Completed(m)
                                              => score[m][BestSeat(m, p)] # None
               PROVE  LET job == JobStats(p).place
                          api == ApiStats(p).place
                      IN /\ job[1] >= api[1]
                         /\ job[1] + job[2] >= api[1] + api[2]
                         /\ job[1] + job[2] + job[3] >= api[1] + api[2] + api[3]
                         /\ job[1] + job[2] + job[3] + job[4]
                               >= api[1] + api[2] + api[3] + api[4]
    BY DEF JobIsGenerous
  <2> DEFINE G == JobGames(p)
             H == ApiGames(p)
             f == [m \in G |-> JobPlacement(m, SeatOf(m, p))]
             g == [m \in H |-> Placement(m, BestSeat(m, p))]
  <2>1. /\ IsFiniteSet(G) /\ H \in SUBSET G
        /\ \A m \in G : /\ m \in Matches /\ p \in ToSet(Lineup[m])
                       /\ SeatOf(m, p) \in Seats(m) /\ BestSeat(m, p) \in Seats(m)
    BY GamesFacts, BestSeatFacts
  <2>2. f \in [G -> 1..4] /\ g \in [H -> 1..4]
    BY <2>1, PlacesInRange
  <2>3. \A m \in H : score[m][SeatOf(m, p)] # None /\ BestSeat(m, p) = SeatOf(m, p)
    BY <2>1, BestSeatFacts DEF ApiGames, Completed
  <2>4. \A m \in H : f[m] <= g[m]
    BY <2>1, <2>3, JobPlaceIsNoWorse
  <2>5. JobStats(p).place = CountAt(G, f)
    <3>1. \A k \in 1..4 : {m \in G : JobPlacement(m, SeatOf(m, p)) = k} = {m \in G : f[m] = k}
      OBVIOUS
    <3>2. JobStats(p).place
            = [k \in 1..4 |-> Cardinality({m \in G : JobPlacement(m, SeatOf(m, p)) = k})]
      BY DEF JobStats
    <3> QED
      BY <3>1, <3>2 DEF CountAt
  <2>6. ApiStats(p).place = CountAt(H, g)
    <3>1. \A k \in 1..4 : {m \in H : Participant(m, BestSeat(m, p)).placement = k} = {m \in H : g[m] = k}
      BY DEF Participant
    <3>2. Counters(p, H).place
            = [k \in 1..4 |-> Cardinality({m \in H : Participant(m, BestSeat(m, p)).placement = k})]
      BY DEF Counters
    <3> QED
      BY <3>1, <3>2, ApiStatsAreCounters DEF CountAt
  <2> HIDE DEF G, H, f, g
  <2> DEFINE job == JobStats(p).place
             api == ApiStats(p).place
  <2> HIDE DEF job, api
  <2>7. job = CountAt(G, f) /\ api = CountAt(H, g)
    BY <2>5, <2>6 DEF job, api
  <2>8. /\ job[1] >= api[1]
        /\ job[1] + job[2] >= api[1] + api[2]
        /\ job[1] + job[2] + job[3] >= api[1] + api[2] + api[3]
        /\ job[1] + job[2] + job[3] + job[4] >= api[1] + api[2] + api[3] + api[4]
    BY <2>1, <2>2, <2>4, <2>7, MoreGamesNoWorse
  <2> QED
    BY <2>8 DEF job, api
<1> QED
  BY <1>1, TableHolds, PTL

-----------------------------------------------------------------------------
(* Loops: recursive functions on 0..n.  The induction that they call for   *)
(* goes by the least element of a set of naturals.                         *)

LEMMA Induction ==
    ASSUME NEW T, 0 \in T, \A n \in Nat : n \in T => n + 1 \in T
    PROVE  \A n \in Nat : n \in T
<1> SUFFICES ASSUME Nat \ T # {} PROVE FALSE
  OBVIOUS
<1>1. PICK n \in Nat \ T : \A m \in Nat \ T : n <= m
  BY Least
<1>2. n # 0 /\ n - 1 \in Nat
  BY <1>1
<1>3. n - 1 \in T
  BY <1>1, <1>2
<1> QED
  BY <1>1, <1>2, <1>3

\* A loop of n passes has a run: pass k takes the value v to next[k][v].
LEMMA LoopRuns ==
    ASSUME NEW V, NEW base \in V, NEW n \in Nat, NEW next \in [1..n -> [V -> V]]
    PROVE  \E f \in [0..n -> V] : f[0] = base /\ \A k \in 1..n : f[k] = next[k][f[k - 1]]
<1> DEFINE Runs(l, f) == f[0] = base /\ \A k \in 1..l : f[k] = next[k][f[k - 1]]
           T == {l \in Nat : l <= n => \E f \in [0..l -> V] : Runs(l, f)}
<1>1. 0 \in T
  <2>1. [k \in 0..0 |-> base] \in [0..0 -> V] /\ Runs(0, [k \in 0..0 |-> base])
    OBVIOUS
  <2> QED
    BY <2>1
<1>2. ASSUME NEW l \in Nat, l \in T PROVE l + 1 \in T
  <2> SUFFICES ASSUME l + 1 <= n PROVE \E f \in [0..(l + 1) -> V] : Runs(l + 1, f)
    OBVIOUS
  <2>1. PICK f \in [0..l -> V] : Runs(l, f)
    BY <1>2
  <2> DEFINE g == [k \in 0..(l + 1) |-> IF k = l + 1 THEN next[k][f[l]] ELSE f[k]]
  <2>2. next[l + 1] \in [V -> V] /\ f[l] \in V
    OBVIOUS
  <2>3. g \in [0..(l + 1) -> V]
    BY <2>2
  <2>4. \A k \in 0..l : g[k] = f[k]
    OBVIOUS
  <2>5. g[l + 1] = next[l + 1][f[l]]
    OBVIOUS
  <2>6. \A k \in 1..(l + 1) : k \in 1..l \/ k = l + 1
    OBVIOUS
  <2> HIDE DEF g
  <2>7. Runs(l + 1, g)
    BY <2>1, <2>4, <2>5, <2>6
  <2> QED
    BY <2>3, <2>7
<1> HIDE DEF T
<1>3. n \in T
  BY <1>1, <1>2, Induction
<1> QED
  BY <1>3 DEF T

\* What the first value has and every pass keeps, all values have.
LEMMA LoopKeeps ==
    ASSUME NEW n \in Nat, NEW T \in SUBSET (0..n), 0 \in T,
           \A k \in 1..n : k - 1 \in T => k \in T
    PROVE  T = 0..n
<1> DEFINE U == {k \in Nat : k <= n => k \in T}
<1>1. 0 \in U
  OBVIOUS
<1>2. ASSUME NEW k \in Nat, k \in U PROVE k + 1 \in U
  <2> SUFFICES ASSUME k + 1 <= n PROVE k + 1 \in T
    OBVIOUS
  <2>1. k \in T /\ k + 1 \in 1..n /\ (k + 1) - 1 = k
    BY <1>2
  <2> QED
    BY <2>1
<1> HIDE DEF U
<1>3. \A k \in Nat : k \in U
  BY <1>1, <1>2, Induction
<1>4. \A k \in 0..n : k \in T
  BY <1>3 DEF U
<1> QED
  BY <1>4

-----------------------------------------------------------------------------
(* The streak.                                                             *)

LEMMA FinishedOfType ==
    ASSUME TableInv, NEW p
    PROVE  FinishedOf(p) \in Seq(Matches)
<1> DEFINE V == Seq(Matches)
           n == Len(finished)
           Pass(k, s) == IF Plays(p, finished[k]) THEN Append(s, finished[k]) ELSE s
           Body(f) == [k \in 0..n |-> IF k = 0 THEN <<>> ELSE Pass(k, f[k - 1])]
           upTo == CHOOSE f : f = Body(f)
<1>1. n \in Nat /\ <<>> \in V /\ \A k \in 1..n : finished[k] \in Matches
  BY LenProperties DEF TableInv
<1>2. \A k \in 1..n : \A s \in V : Pass(k, s) \in V
  BY <1>1, AppendProperties
<1>3. \E f : f = Body(f)
  <2> DEFINE next == [k \in 1..n |-> [s \in V |-> Pass(k, s)]]
  <2>1. next \in [1..n -> [V -> V]] /\ \A k \in 1..n : \A s \in V : next[k][s] = Pass(k, s)
    BY <1>2
  <2> HIDE DEF next, V, Pass, n
  <2>2. PICK f \in [0..n -> V] : f[0] = <<>> /\ \A k \in 1..n : f[k] = next[k][f[k - 1]]
    <3> DEFINE base == <<>>
    <3>1. base \in V /\ n \in Nat /\ next \in [1..n -> [V -> V]]
      BY <1>1, <2>1
    <3> HIDE DEF base
    <3>2. \E f \in [0..n -> V] : f[0] = base /\ \A k \in 1..n : f[k] = next[k][f[k - 1]]
      BY <3>1, LoopRuns
    <3> QED
      BY <3>2 DEF base
  <2>3. \A k \in 1..n : k - 1 \in 0..n /\ f[k - 1] \in V
    BY <1>1
  <2>4. \A k \in 1..n : f[k] = Pass(k, f[k - 1])
    BY <2>1, <2>2, <2>3
  <2>5. \A k \in 0..n : f[k] = IF k = 0 THEN <<>> ELSE Pass(k, f[k - 1])
    BY <1>1, <2>2, <2>4
  <2>6. f = Body(f)
    BY <2>5
  <2> QED
    BY <2>6
<1>4. upTo = Body(upTo)
  BY <1>3
<1> DEFINE T == {k \in 0..n : upTo[k] \in V}
<1>5. upTo[0] = <<>> /\ \A k \in 1..n : upTo[k] = Pass(k, upTo[k - 1])
  <2> HIDE DEF upTo, Pass, V
  <2> QED
    BY <1>1, <1>4
<1>6. T = 0..n
  <2> HIDE DEF upTo, Pass, V, n
  <2>1. 0 \in T /\ \A k \in 1..n : k - 1 \in T => k \in T
    BY <1>1, <1>2, <1>5
  <2> HIDE DEF T
  <2>2. T \in SUBSET (0..n)
    BY DEF T
  <2> QED
    BY <1>1, <2>1, <2>2, LoopKeeps
<1>7. n \in T
  BY <1>1, <1>6
<1> QED
  BY <1>7 DEF FinishedOf

\* JobMatches is a sequence: its SetToSeq exists.
LEMMA JobMatchesType ==
    ASSUME TableInv, NEW p \in Participants
    PROVE  JobMatches(p) \in Seq(Matches)
<1> DEFINE S == {m \in JobGames(p) : ~Completed(m)}
<1>1. S \in SUBSET Matches /\ S \in SUBSET JobGames(p) /\ IsFiniteSet(JobGames(p))
  BY GamesFacts
<1> HIDE DEF S
<1>2. IsFiniteSet(S)
  BY <1>1, FS_Subset
<1>3. Cardinality(S) \in Nat /\ \E f \in [1..Cardinality(S) -> S] : IsInjective(f)
  BY <1>2, FS_CardinalityType DEF ExistsBijection, Bijection, Injection
<1>4. SetToSeq(S) \in [1..Cardinality(S) -> S]
  BY <1>3 DEF SetToSeq
<1>5. SetToSeq(S) \in Seq(Matches)
  BY <1>1, <1>3, <1>4
<1> QED
  BY <1>5, FinishedOfType, ConcatProperties DEF JobMatches, S

\* The results w up to the k-th end with a run of exactly l of a kind.
EndsWithRun(w, k, l) ==
    /\ \A i \in (k - l + 1)..k : w[i] = w[k]
    /\ l < k => w[k - l] # w[k]

\* And acc counts that run.
CountsRun(w, k, acc) ==
    \E l \in 1..k : /\ EndsWithRun(w, k, l)
                    /\ acc = [count |-> IF w[k] THEN l ELSE -l, win |-> w[k]]

\* After every pass the counter is the length of the run that just went on or
\* began: a change of sides starts it anew.
LEMMA StreakCountsRun ==
    ASSUME NEW n \in Nat, NEW w \in [1..n -> BOOLEAN], NEW after,
           after[0] = [count |-> 0, win |-> FALSE],
           \A k \in 1..n : after[k] = StreakStep(after[k - 1], w[k])
    PROVE  \A k \in 1..n : CountsRun(w, k, after[k])
<1> DEFINE T == {k \in 0..n : k = 0 \/ CountsRun(w, k, after[k])}
<1>1. 0 \in T
  OBVIOUS
<1>2. ASSUME NEW k \in 1..n, k - 1 \in T PROVE k \in T
  <2>1. after[k] = StreakStep(after[k - 1], w[k]) /\ w[k] \in BOOLEAN
    OBVIOUS
  <2>2. CASE k = 1
    <3>1. EndsWithRun(w, k, 1)
      BY <2>2 DEF EndsWithRun
    <3>2. after[k - 1] = [count |-> 0, win |-> FALSE]
      BY <2>2
    <3>3. after[k] = [count |-> IF w[k] THEN 1 ELSE -1, win |-> w[k]]
      BY <2>1, <3>2 DEF StreakStep
    <3> QED
      BY <2>2, <3>1, <3>3 DEF CountsRun
  <2>3. CASE k # 1
    <3>1. PICK l \in 1..(k - 1) :
             /\ EndsWithRun(w, k - 1, l)
             /\ after[k - 1] = [count |-> IF w[k - 1] THEN l ELSE -l, win |-> w[k - 1]]
      <4>1. CountsRun(w, k - 1, after[k - 1])
        BY <1>2, <2>3
      <4> QED
        BY <4>1 DEF CountsRun
    <3>2. w[k - 1] \in BOOLEAN /\ k - 1 \in 1..n
      BY <2>3
    <3>3. CASE w[k] = w[k - 1]
      <4>1. EndsWithRun(w, k, l + 1)
        <5>1. ASSUME NEW i \in (k - (l + 1) + 1)..k PROVE w[i] = w[k]
          <6>1. i = k \/ i \in ((k - 1) - l + 1)..(k - 1)
            OBVIOUS
          <6> QED
            BY <3>1, <3>3, <6>1 DEF EndsWithRun
        <5>2. l + 1 < k => w[k - (l + 1)] # w[k]
          <6>1. k - (l + 1) = (k - 1) - l
            OBVIOUS
          <6> QED
            BY <3>1, <3>3, <6>1 DEF EndsWithRun
        <5> QED
          BY <5>1, <5>2 DEF EndsWithRun
      <4>2. after[k] = [count |-> IF w[k] THEN l + 1 ELSE -(l + 1), win |-> w[k]]
        <5>1. CASE w[k] = TRUE
          <6>1. after[k - 1].win = TRUE /\ after[k - 1].count = l
            BY <3>1, <3>3, <5>1
          <6> QED
            BY <2>1, <5>1, <6>1 DEF StreakStep
        <5>2. CASE w[k] = FALSE
          <6>1. after[k - 1].win = FALSE /\ after[k - 1].count = -l
            BY <3>1, <3>3, <5>2
          <6>2. StreakStep(after[k - 1], w[k]) = [count |-> after[k - 1].count - 1, win |-> FALSE]
            BY <5>2, <6>1 DEF StreakStep
          <6>3. -l - 1 = -(l + 1)
            OBVIOUS
          <6> QED
            BY <2>1, <5>2, <6>1, <6>2, <6>3
        <5> QED
          BY <2>1, <5>1, <5>2
      <4>3. l + 1 \in 1..k
        OBVIOUS
      <4> QED
        BY <4>1, <4>2, <4>3 DEF CountsRun
    <3>4. CASE w[k] # w[k - 1]
      <4>1. EndsWithRun(w, k, 1)
        BY <2>3, <3>4 DEF EndsWithRun
      <4>2. after[k] = [count |-> IF w[k] THEN 1 ELSE -1, win |-> w[k]]
        BY <2>1, <3>1, <3>2, <3>4 DEF StreakStep
      <4> QED
        BY <4>1, <4>2 DEF CountsRun
    <3> QED
      BY <3>3, <3>4
  <2> QED
    BY <2>2, <2>3
<1> HIDE DEF T
<1>3. T \in SUBSET (0..n)
  BY DEF T
<1>4. T = 0..n
  BY <1>1, <1>2, <1>3, LoopKeeps
<1> QED
  BY <1>4 DEF T

\* A sequence ends with only one run.
LEMMA RunIsUnique ==
    ASSUME NEW w, NEW n \in Nat, NEW k \in 1..n, NEW l \in 1..n,
           EndsWithRun(w, n, k), EndsWithRun(w, n, l)
    PROVE  k = l
<1>1. ASSUME NEW a \in 1..n, NEW b \in 1..n, EndsWithRun(w, n, a), EndsWithRun(w, n, b), a < b
      PROVE  FALSE
  <2>1. n - a \in (n - b + 1)..n
    BY <1>1
  <2> QED
    BY <1>1, <2>1 DEF EndsWithRun
<1> QED
  BY <1>1

\* JobStreak is the last value of a loop over the results.
LEMMA StreakLoop ==
    ASSUME TableInv, NEW p \in Participants
    PROVE  LET games == JobMatches(p)
               n == Len(games)
           IN  /\ n \in Nat
               /\ \E after :
                     /\ after[0] = [count |-> 0, win |-> FALSE]
                     /\ \A k \in 1..n : after[k] = StreakStep(after[k - 1], JobWins(games[k], p))
                     /\ JobStreak(p) = after[n].count
<1> DEFINE games == JobMatches(p)
           n == Len(games)
           start == [count |-> 0, win |-> FALSE]
           V == [count : Int, win : BOOLEAN]
           Pass(k, acc) == StreakStep(acc, JobWins(games[k], p))
           Body(f) == [k \in 0..n |-> IF k = 0 THEN start ELSE Pass(k, f[k - 1])]
           after == CHOOSE f : f = Body(f)
<1>1. n \in Nat
  BY JobMatchesType, LenProperties
<1>2. start \in V
  OBVIOUS
<1>3. \A k \in 1..n : \A acc \in V : Pass(k, acc) \in V
  BY DEF StreakStep
<1>4. JobStreak(p) = after[n].count
  BY DEF JobStreak
<1> HIDE DEF n, start, V, Pass, games
<1>5. \E f : f = Body(f)
  <2> DEFINE next == [k \in 1..n |-> [acc \in V |-> Pass(k, acc)]]
  <2>1. next \in [1..n -> [V -> V]] /\ \A k \in 1..n : \A acc \in V : next[k][acc] = Pass(k, acc)
    BY <1>3
  <2> HIDE DEF next
  <2>2. PICK f \in [0..n -> V] : f[0] = start /\ \A k \in 1..n : f[k] = next[k][f[k - 1]]
    BY <1>1, <1>2, <2>1, LoopRuns
  <2>3. \A k \in 1..n : k - 1 \in 0..n /\ f[k - 1] \in V
    BY <1>1
  <2>4. \A k \in 1..n : f[k] = Pass(k, f[k - 1])
    BY <2>1, <2>2, <2>3
  <2>5. \A k \in 0..n : f[k] = IF k = 0 THEN start ELSE Pass(k, f[k - 1])
    BY <1>1, <2>2, <2>4
  <2>6. f = Body(f)
    BY <2>5
  <2> QED
    BY <2>6
<1>6. after = Body(after)
  BY <1>5
<1> HIDE DEF after
<1>7. after[0] = start /\ \A k \in 1..n : after[k] = Pass(k, after[k - 1])
  BY <1>1, <1>6
<1> QED
  BY <1>1, <1>4, <1>7 DEF n, start, Pass, games

\* current_streak is the length of the run that the player's games end with,
\* negative if it is not one of wins (update.rs:238).
THEOREM StreakTheorem == Spec => []StreakIsLastRun
<1>1. TableInv => StreakIsLastRun
  <2> SUFFICES ASSUME TableInv, NEW p \in Participants
               PROVE  LET games == JobMatches(p)
                          n == Len(games)
                          Run(k, win) == \A i \in (n - k + 1)..n : JobWins(games[i], p) = win
                      IN IF n = 0
                            THEN JobStreak(p) = 0
                            ELSE LET win == JobWins(games[n], p)
                                     len == CHOOSE k \in 1..n : Run(k, win) /\ (k < n => ~Run(k + 1, win))
                                 IN JobStreak(p) = IF win THEN len ELSE -len
    BY DEF StreakIsLastRun
  <2> DEFINE games == JobMatches(p)
             n == Len(games)
             w == [i \in 1..n |-> JobWins(games[i], p)]
             Run(k, win) == \A i \in (n - k + 1)..n : JobWins(games[i], p) = win
             win == JobWins(games[n], p)
             Whole(k) == Run(k, win) /\ (k < n => ~Run(k + 1, win))
             len == CHOOSE k \in 1..n : Whole(k)
  <2>1. w \in [1..n -> BOOLEAN] /\ \A i \in 1..n : w[i] = JobWins(games[i], p)
    BY DEF JobWins
  <2>2. PICK after : /\ after[0] = [count |-> 0, win |-> FALSE]
                     /\ \A k \in 1..n : after[k] = StreakStep(after[k - 1], JobWins(games[k], p))
                     /\ JobStreak(p) = after[n].count
    BY StreakLoop
  <2>3. n \in Nat
    BY StreakLoop
  <2> HIDE DEF games, n, w
  <2>4. \A k \in 1..n : after[k] = StreakStep(after[k - 1], w[k])
    BY <2>1, <2>2
  <2>5. CASE n = 0
    BY <2>2, <2>5 DEF n, games
  <2>6. CASE n # 0
    <3>1. PICK l \in 1..n : /\ EndsWithRun(w, n, l)
                            /\ after[n] = [count |-> IF w[n] THEN l ELSE -l, win |-> w[n]]
      <4>1. n \in 1..n
        BY <2>3, <2>6
      <4>2. \A k \in 1..n : CountsRun(w, k, after[k])
        BY <2>1, <2>2, <2>3, <2>4, StreakCountsRun
      <4> QED
        BY <4>1, <4>2 DEF CountsRun
    <3>2. win = w[n] /\ win \in BOOLEAN
      BY <2>1, <2>3, <2>6
    <3>3. \A k \in 1..n : Run(k, win) <=> \A i \in (n - k + 1)..n : w[i] = w[n]
      <4>1. \A k \in 1..n : \A i \in (n - k + 1)..n : i \in 1..n
        BY <2>3
      <4> QED
        BY <2>1, <3>2, <4>1
    <3>4. \A k \in 1..n : Whole(k) <=> EndsWithRun(w, n, k)
      <4> SUFFICES ASSUME NEW k \in 1..n PROVE Whole(k) <=> EndsWithRun(w, n, k)
        OBVIOUS
      <4>1. k < n => /\ k + 1 \in 1..n /\ n - (k + 1) + 1 = n - k
                     /\ (n - k)..n = {n - k} \cup ((n - k + 1)..n)
        BY <2>3
      <4> HIDE DEF Run, win
      <4> QED
        BY <3>3, <4>1 DEF EndsWithRun
    <3> HIDE DEF win, Whole
    <3>5. len \in 1..n /\ Whole(len)
      BY <3>1, <3>4
    <3> HIDE DEF len
    <3>6. len = l
      BY <2>3, <3>1, <3>4, <3>5, RunIsUnique
    <3>7. JobStreak(p) = IF win THEN len ELSE -len
      BY <2>2, <3>1, <3>2, <3>6
    <3> QED
      BY <2>6, <3>7 DEF len, Whole, Run, win, n, games
  <2> QED
    BY <2>5, <2>6 DEF n, games
<1> QED
  BY <1>1, TableHolds, PTL

=============================================================================
