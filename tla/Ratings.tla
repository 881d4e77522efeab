------------------------------- MODULE Ratings -------------------------------
(***************************************************************************)
(* matchmaking_rank of users and bots and peak_mmr of their statistics,    *)
(* and who writes them:                                                    *)
(*   - the worker, which adds the deltas of a MatchCompleted message to    *)
(*     the ranks, one participant after the other (src/src/worker.rs);     *)
(*   - the mmr-recalculation job, which computes all ranks anew from table *)
(*     match and raises the peaks                                          *)
(*     (src/src/jobs/statistics/mmr_recalculation.rs);                     *)
(*   - the update-statistics job, which creates the statistics rows and    *)
(*     writes the peak it has read (src/src/jobs/statistics/update.rs).    *)
(* None of them uses a transaction; an action is one statement.  Users are *)
(* suspended and deleted softly, bots deleted with their statistics.  What *)
(* a job computes from the matches is Elo here and module Statistics in    *)
(* detail.                                                                 *)
(***************************************************************************)
EXTENDS Integers, Sequences

CONSTANTS
    Users, Bots,  \* ids of the participants
    Matches,      \* match ids
    Lineup,       \* Lineup[m]: the participants in the message of match m
    Delta,        \* Delta[m][p]: mmr_delta of p in the message of match m
    Elo(_, _, _), \* Elo(S, pool, p): p's rank after matches S, rating pool
    InitialRank,  \* INITIAL_MMR
    MayGo,        \* participants who may be deleted
    MaxFaults,    \* how often the worker or a job fails
    MaxModerations, \* how often users are suspended or activated
    None          \* "no value"

Participants == Users \cup Bots

ASSUME KindsAssumption == Users \cap Bots = {} /\ None \notin Participants \cup Matches
ASSUME LineupAssumption == Lineup \in [Matches -> Seq(Participants)]
ASSUME DeltaAssumption == Delta \in [Matches -> [Participants -> Int]]
ASSUME EloAssumption ==
    /\ InitialRank \in Nat /\ None \notin Nat
    /\ \A S \in SUBSET Matches, pool \in (SUBSET Users) \cup (SUBSET Bots) : \A p \in pool :
          /\ Elo(S, pool, p) \in Nat
          /\ Elo({}, pool, p) = InitialRank
ASSUME MaxFaultsAssumption == MaxFaults \in Nat
ASSUME MaxModerationsAssumption == MaxModerations \in Nat

VARIABLES
    rank,       \* matchmaking_rank
    peak,       \* peak_mmr, None while there is no statistics row
    gone,       \* users with deleted_at, bots without a row
    suspended,  \* users whose account_status is not Active
    moderations,
    match,      \* match[m]: "absent", "open" or "completed"
    \* the broker and the worker
    sent, inbox, acked,   \* MatchCompleted messages: published, ready, done
    worker,     \* [pc, m, todo, p, seen]: its message and local variables
    faults,
    \* the jobs
    calc,       \* mmr-recalculation: [pc, pool, todo, new, p, seen]
    stats,      \* update-statistics: [pc, todo, ranks, p, seen]
    \* history
    applied,    \* applied[m]: the participants to whose rank m's delta was added
    missed,     \* messages acknowledged because their match was not found
    raised      \* peaks raised since the update-statistics job read them

table == <<rank, peak>>
people == <<gone, suspended, moderations>>
broker == <<sent, inbox, acked, faults>>
history == <<applied, missed>>
vars == <<table, people, match, broker, worker, calc, stats, history, raised>>

IdleWorker == [pc |-> "idle", m |-> None, todo |-> <<>>, p |-> None, seen |-> None]
IdleCalc == [pc |-> "idle", pool |-> {}, todo |-> {}, new |-> <<>>,
             p |-> None, seen |-> None]
IdleStats == [pc |-> "idle", todo |-> {}, ranks |-> <<>>, p |-> None, seen |-> None]

Exists(p) == p \notin gone \cap Bots
Rateable(pool) == pool \ (gone \cup suspended)   \* the rows that the jobs select
Completed == {m \in Matches : match[m] = "completed"}
AtLeast(a, b) == IF a >= b THEN a ELSE b

Init ==
    /\ rank = [p \in Participants |-> InitialRank]
    /\ peak = [p \in Participants |-> None]
    /\ gone = {} /\ suspended = {} /\ moderations = 0
    /\ match = [m \in Matches |-> "absent"]
    /\ sent = {} /\ inbox = {} /\ acked = {}
    /\ worker = IdleWorker /\ calc = IdleCalc /\ stats = IdleStats
    /\ faults = 0
    /\ applied = [m \in Matches |-> {}]
    /\ missed = {} /\ raised = {}

-----------------------------------------------------------------------------
(* What surrounds the ranks.                                               *)

\* handle_match_found makes the row of the match.
InsertMatch(m) ==
    /\ match[m] = "absent"
    /\ match' = [match EXCEPT ![m] = "open"]
    /\ UNCHANGED <<table, people, broker, worker, calc, stats, history, raised>>

\* The game server reports a result; the message may overtake MatchFound.
Publish(m) ==
    /\ m \notin sent
    /\ sent' = sent \cup {m} /\ inbox' = inbox \cup {m}
    /\ UNCHANGED <<table, people, match, acked, faults, worker, calc, stats, history, raised>>

\* delete_user and delete_bot, which takes the bot's statistics along.
Delete(p) ==
    /\ p \in MayGo \ gone
    /\ gone' = gone \cup {p}
    /\ peak' = [peak EXCEPT ![p] = IF p \in Bots THEN None ELSE @]
    /\ UNCHANGED <<rank, suspended, moderations, match, broker, worker, calc, stats, history,
                   raised>>

\* moderate_user: a user is suspended or banned, or becomes Active again; all
\* that the jobs ask is whether he is Active.
Moderate(u) ==
    /\ moderations < MaxModerations
    /\ moderations' = moderations + 1
    /\ suspended' = IF u \in suspended THEN suspended \ {u} ELSE suspended \cup {u}
    /\ UNCHANGED <<table, gone, match, broker, worker, calc, stats, history, raised>>

-----------------------------------------------------------------------------
(* handle_match_completed.                                                 *)

\* Mistake: a rejected message is dropped.
Mutant_Drop == worker' = IdleWorker /\ UNCHANGED inbox

Requeue == inbox' = inbox \cup {worker.m} /\ worker' = IdleWorker

Consume(m) ==
    /\ worker.pc = "idle" /\ m \in inbox
    /\ inbox' = inbox \ {m}
    /\ worker' = [IdleWorker EXCEPT !.pc = "findMatch", !.m = m]
    /\ UNCHANGED <<table, people, match, sent, acked, faults, calc, stats, history, raised>>

\* Mistake: a match that is completed already is taken as done.
Mutant_SkipCompleted ==
    /\ worker.pc = "findMatch"
    /\ IF match[worker.m] = "absent"
          THEN missed' = missed \cup {worker.m} ELSE UNCHANGED missed
    /\ worker' = [worker EXCEPT !.pc = IF match[worker.m] = "open"
                                          THEN "complete" ELSE "ack"]
    /\ UNCHANGED <<table, people, match, broker, calc, stats, applied, raised>>

FindMatch ==
    /\ worker.pc = "findMatch"
    /\ \/ /\ match[worker.m] = "absent"
          /\ missed' = missed \cup {worker.m}
          /\ worker' = [worker EXCEPT !.pc = "ack"]
       \/ /\ match[worker.m] # "absent"
          /\ worker' = [worker EXCEPT !.pc = "complete"]
          /\ UNCHANGED missed
    /\ UNCHANGED <<table, people, match, broker, calc, stats, applied, raised>>

\* completed_at, scores and deltas in one UPDATE.
CompleteMatch ==
    /\ worker.pc = "complete"
    /\ match' = [match EXCEPT ![worker.m] = "completed"]
    /\ worker' = [worker EXCEPT !.pc = "readRank", !.todo = Lineup[worker.m]]
    /\ UNCHANGED <<table, people, broker, calc, stats, history, raised>>

\* find_by_id of the next participant; a missing row is skipped.
ReadRank ==
    /\ worker.pc = "readRank" /\ worker.todo # <<>>
    /\ LET p == Head(worker.todo)
       IN worker' = IF Exists(p)
                       THEN [worker EXCEPT !.pc = "writeRank", !.todo = Tail(@),
                                           !.p = p, !.seen = rank[p]]
                       ELSE [worker EXCEPT !.todo = Tail(@)]
    /\ UNCHANGED <<table, people, match, broker, calc, stats, history, raised>>

\* Mistake: the rank may fall below 0.
Mutant_NoFloor ==
    /\ worker.pc = "writeRank"
    /\ rank' = [rank EXCEPT ![worker.p] = worker.seen + Delta[worker.m][worker.p]]
    /\ applied' = [applied EXCEPT ![worker.m] = @ \cup {worker.p}]
    /\ worker' = [worker EXCEPT !.pc = "readRank", !.p = None, !.seen = None]
    /\ UNCHANGED <<peak, people, match, broker, calc, stats, missed, raised>>

\* The update by id; a bot deleted since is an error, the message comes again.
WriteRank ==
    /\ worker.pc = "writeRank"
    /\ \/ /\ Exists(worker.p)
          /\ rank' = [rank EXCEPT ![worker.p] =
                         AtLeast(worker.seen + Delta[worker.m][worker.p], 0)]
          /\ applied' = [applied EXCEPT ![worker.m] = @ \cup {worker.p}]
          /\ worker' = [worker EXCEPT !.pc = "readRank", !.p = None, !.seen = None]
          /\ UNCHANGED inbox
       \/ ~Exists(worker.p) /\ Requeue /\ UNCHANGED <<rank, applied>>
    /\ UNCHANGED <<peak, people, match, sent, acked, faults, calc, stats, missed, raised>>

Acknowledge ==
    /\ worker.pc = "ack" \/ (worker.pc = "readRank" /\ worker.todo = <<>>)
    /\ acked' = acked \cup {worker.m}
    /\ worker' = IdleWorker
    /\ UNCHANGED <<table, people, match, sent, inbox, faults, calc, stats, history, raised>>

WorkerFault ==
    /\ worker.pc # "idle" /\ faults < MaxFaults
    /\ faults' = faults + 1
    /\ Requeue
    /\ UNCHANGED <<table, people, match, sent, acked, calc, stats, history, raised>>

-----------------------------------------------------------------------------
(* The mmr-recalculation job: recalculate_user_mmr, then                   *)
(* recalculate_bot_mmr, which differ in the table they work on.            *)

\* The rows to rate: users who are Active and not deleted, or all bots.
CalcSelect ==
    /\ calc.pc \in {"idle", "bots"}
    /\ LET pool == IF calc.pc = "idle" THEN Users ELSE Bots
       IN calc' = [IdleCalc EXCEPT !.pc = "matches", !.todo = Rateable(pool), !.pool = pool]
    /\ UNCHANGED <<table, people, match, broker, worker, stats, history, raised>>

\* The completed matches; the new ranks follow from these alone.
CalcMatches ==
    /\ calc.pc = "matches"
    /\ calc' = [calc EXCEPT !.pc = "write",
                   !.new = [p \in calc.todo |-> Elo(Completed, calc.todo, p)]]
    /\ UNCHANGED <<table, people, match, broker, worker, stats, history, raised>>

\* Mistake: a rank is only ever raised.
Mutant_OnlyRaise(p) ==
    /\ calc.pc = "write" /\ p \in calc.todo /\ Exists(p)
    /\ rank' = [rank EXCEPT ![p] = AtLeast(calc.new[p], @)]
    /\ calc' = [calc EXCEPT !.pc = "readPeak", !.todo = @ \ {p}, !.p = p]
    /\ UNCHANGED <<peak, people, match, broker, worker, stats, history, raised>>

\* The update of the next row, in any order; a row that is gone is an error
\* that ends the job.
CalcWrite(p) ==
    /\ calc.pc = "write" /\ p \in calc.todo
    /\ \/ /\ Exists(p)
          /\ rank' = [rank EXCEPT ![p] = calc.new[p]]
          /\ calc' = [calc EXCEPT !.pc = "readPeak", !.todo = @ \ {p}, !.p = p]
       \/ ~Exists(p) /\ calc' = IdleCalc /\ UNCHANGED rank
    /\ UNCHANGED <<peak, people, match, broker, worker, stats, history, raised>>

CalcReadPeak ==
    /\ calc.pc = "readPeak"
    /\ calc' = IF peak[calc.p] = None
                  THEN [calc EXCEPT !.pc = "write"]
                  ELSE [calc EXCEPT !.pc = "raise", !.seen = peak[calc.p]]
    /\ UNCHANGED <<table, people, match, broker, worker, stats, history, raised>>

\* Mistake: the new rank becomes the peak even if it is lower.
Mutant_PeakIsLast ==
    /\ calc.pc = "raise" /\ peak[calc.p] # None
    /\ peak' = [peak EXCEPT ![calc.p] = calc.new[calc.p]]
    /\ raised' = raised \cup {calc.p}
    /\ calc' = [calc EXCEPT !.pc = "write", !.seen = None]
    /\ UNCHANGED <<rank, people, match, broker, worker, stats, history>>

CalcRaise ==
    /\ calc.pc = "raise"
    /\ \/ /\ calc.new[calc.p] > calc.seen /\ peak[calc.p] # None
          /\ peak' = [peak EXCEPT ![calc.p] = calc.new[calc.p]]
          /\ raised' = raised \cup {calc.p}
          /\ calc' = [calc EXCEPT !.pc = "write", !.seen = None]
       \/ /\ calc.new[calc.p] <= calc.seen
          /\ calc' = [calc EXCEPT !.pc = "write", !.seen = None]
          /\ UNCHANGED <<peak, raised>>
       \/ /\ calc.new[calc.p] > calc.seen /\ peak[calc.p] = None
          /\ calc' = IdleCalc
          /\ UNCHANGED <<peak, raised>>
    /\ UNCHANGED <<rank, people, match, broker, worker, stats, history>>

\* The users are done, the bots are next; or the job is done.
CalcNext ==
    /\ calc.pc = "write" /\ calc.todo = {}
    /\ calc' = IF calc.pool = Users THEN [IdleCalc EXCEPT !.pc = "bots"] ELSE IdleCalc
    /\ UNCHANGED <<table, people, match, broker, worker, stats, history, raised>>

CalcFault ==
    /\ calc.pc # "idle" /\ faults < MaxFaults
    /\ faults' = faults + 1
    /\ calc' = IdleCalc
    /\ UNCHANGED <<table, people, match, sent, inbox, acked, worker, stats, history, raised>>

-----------------------------------------------------------------------------
(* The update-statistics job, as far as the peak goes.                     *)

StatsSelect(pool) ==
    /\ stats.pc = "idle"
    /\ stats' = [IdleStats EXCEPT !.pc = "read", !.todo = Rateable(pool),
                                  !.ranks = [p \in Rateable(pool) |-> rank[p]]]
    /\ UNCHANGED <<table, people, match, broker, worker, calc, history, raised>>

StatsRead(p) ==
    /\ stats.pc = "read" /\ p \in stats.todo
    /\ stats' = [stats EXCEPT !.pc = "write", !.todo = @ \ {p}, !.p = p, !.seen = peak[p]]
    /\ raised' = raised \ {p}
    /\ UNCHANGED <<table, people, match, broker, worker, calc, history>>

\* An existing row gets back the peak that was read, a new one the rank that
\* was selected.  The row may have gone, and a bot's may be refused by its
\* foreign key: an error that ends the job.
StatsWrite ==
    /\ stats.pc = "write"
    /\ \/ /\ Exists(stats.p)
          /\ peak' = [peak EXCEPT ![stats.p] =
                         IF stats.seen = None THEN stats.ranks[stats.p] ELSE stats.seen]
          /\ stats' = [stats EXCEPT !.pc = "read", !.p = None, !.seen = None]
       \/ ~Exists(stats.p) /\ stats' = IdleStats /\ UNCHANGED peak
    /\ UNCHANGED <<rank, people, match, broker, worker, calc, history, raised>>

StatsDone ==
    /\ stats.pc = "read" /\ stats.todo = {}
    /\ stats' = IdleStats
    /\ UNCHANGED <<table, people, match, broker, worker, calc, history, raised>>

-----------------------------------------------------------------------------

Handle == FindMatch \/ CompleteMatch \/ ReadRank \/ WriteRank \/ Acknowledge

Calc ==
    \/ CalcSelect \/ CalcMatches \/ (\E p \in Participants : CalcWrite(p))
    \/ CalcReadPeak \/ CalcRaise \/ CalcNext

Stats ==
    \/ StatsSelect(Users) \/ StatsSelect(Bots)
    \/ (\E p \in Participants : StatsRead(p))
    \/ StatsWrite \/ StatsDone

Next ==
    \/ \E m \in Matches : InsertMatch(m) \/ Publish(m) \/ Consume(m)
    \/ \E p \in Participants : Delete(p)
    \/ \E u \in Users : Moderate(u)
    \/ Handle \/ WorkerFault
    \/ Calc \/ CalcFault
    \/ Stats

Spec == Init /\ [][Next]_vars

\* The worker is restarted and every message gets its turn; cron goes on to
\* run the recalculation.
Fairness ==
    /\ WF_vars(Handle)
    /\ \A m \in Matches : SF_vars(Consume(m))
    /\ WF_vars(Calc)

FairSpec == Spec /\ Fairness

-----------------------------------------------------------------------------
(* Properties.                                                             *)

MaybeRank == Nat \cup {None}

\* Ranks and peaks are never negative, whatever the deltas; what a process
\* works on exists, and a deleted bot has no statistics.
TypeOK ==
    /\ rank \in [Participants -> Nat]
    /\ peak \in [Participants -> MaybeRank]
    /\ gone \subseteq Participants /\ suspended \subseteq Users
    /\ moderations \in 0..MaxModerations
    /\ \A p \in gone \cap Bots : peak[p] = None
    /\ match \in [Matches -> {"absent", "open", "completed"}]
    /\ inbox \subseteq sent /\ acked \subseteq sent /\ missed \subseteq sent
    /\ inbox \cap acked = {} /\ worker.m \notin inbox \cup acked
    /\ worker.pc \in {"idle", "findMatch", "complete", "readRank", "writeRank", "ack"}
    /\ worker.pc \in {"readRank", "writeRank"} => match[worker.m] = "completed"
    /\ worker.pc = "writeRank" => worker.p \in Participants /\ worker.seen \in Nat
    /\ calc.pc \in {"idle", "matches", "write", "readPeak", "raise", "bots"}
    /\ calc.todo \subseteq Participants
    /\ calc.pc \in {"readPeak", "raise"} => calc.p \in Participants \ calc.todo
    /\ stats.pc \in {"idle", "read", "write"}
    /\ stats.pc = "write" => stats.p \in Participants /\ stats.seen \in MaybeRank
    /\ faults \in 0..MaxFaults

\* An acknowledged result is in the table and its delta was added to every
\* participant's rank, unless the participant is gone or the message overtook
\* MatchFound (worker.rs:169: a delivery that ends early must not let the
\* next one skip a participant).
AcknowledgedIsApplied ==
    \A m \in acked \ missed :
        /\ match[m] = "completed"
        /\ \A i \in DOMAIN Lineup[m] : Lineup[m][i] \in applied[m] \cup gone

\* A peak never falls, except when the update-statistics job writes back a
\* peak that the recalculation has raised since it was read (update.rs:57,
\* mmr_recalculation.rs:86), or the bot is deleted.
PeakFallsOnlyInRace ==
    [][\A p \in Participants :
          peak[p] # None =>
            \/ peak'[p] # None /\ peak'[p] >= peak[p]
            \/ peak'[p] = None /\ p \in gone' \cap Bots
            \/ p \in raised /\ stats.p = p /\ peak'[p] = stats.seen]_vars

\* Every MatchCompleted message is acknowledged in the end, whatever fails
\* and whoever is deleted meanwhile (client.rs:178).
MessageIsSettled == \A m \in Matches : m \in sent ~> m \in acked

\* Lost updates between the worker and the job, deltas added twice after a
\* failure and jobs that died half-way are repaired for everybody whom the job
\* selects (mmr_recalculation.rs:25 against worker.rs:208): once no results,
\* deletions and moderations come in any more, the rank of every bot and of
\* every Active user becomes and stays what the recalculation makes of the
\* completed matches.  The rank of a user who is suspended or banned is left as
\* it is, wrong or not.
RatingsConverge ==
    <>[](\A pool \in {Users, Bots} : \A p \in Rateable(pool) :
            rank[p] = Elo(Completed, Rateable(pool), p))

=============================================================================
