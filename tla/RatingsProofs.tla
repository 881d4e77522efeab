---------------------------- MODULE RatingsProofs ----------------------------
(***************************************************************************)
(* Ranks and peaks for any participants, matches, lineups, deltas and any  *)
(* formula: types, that an acknowledged result was applied, and that a     *)
(* peak falls in one race only.                                            *)
(***************************************************************************)
EXTENDS Ratings, SequenceTheorems, TLAPS

WorkerPcs == {"idle", "findMatch", "complete", "readRank", "writeRank", "ack"}
CalcPcs == {"idle", "matches", "write", "readPeak", "raise", "bots"}

\* What a job has selected or computed: a rank for some of the participants.
Ranks == UNION {[S -> Nat] : S \in SUBSET Participants}

TableTypes ==
    /\ rank \in [Participants -> Nat]
    /\ peak \in [Participants -> MaybeRank]
    /\ gone \subseteq Participants /\ suspended \subseteq Users
    /\ moderations \in 0..MaxModerations
    /\ \A p \in gone \cap Bots : peak[p] = None
    /\ match \in [Matches -> {"absent", "open", "completed"}]
    /\ applied \in [Matches -> SUBSET Participants]
    /\ faults \in 0..MaxFaults

\* A message is in the worker's hands or in the broker's, and not in both.
BrokerInv ==
    /\ sent \subseteq Matches /\ inbox \subseteq sent /\ acked \subseteq sent
    /\ missed \subseteq sent
    /\ inbox \cap acked = {}
    /\ worker.pc = "idle" => worker.m = None
    /\ worker.pc # "idle" => worker.m \in sent \ (inbox \cup acked)

WorkerTypes ==
    /\ worker \in [pc : WorkerPcs, m : Matches \cup {None}, todo : Seq(Participants),
                   p : Participants \cup {None}, seen : MaybeRank]
    /\ worker.pc = "writeRank" => worker.p \in Participants /\ worker.seen \in Nat

CalcTypes ==
    /\ calc \in [pc : CalcPcs, pool : {{}, Users, Bots}, todo : SUBSET Participants,
                 new : Ranks, p : Participants \cup {None}, seen : MaybeRank]
    /\ calc.pc = "matches" => calc.todo \in (SUBSET Users) \cup (SUBSET Bots)
    /\ calc.pc \in {"write", "readPeak", "raise"} => calc.todo \subseteq DOMAIN calc.new
    /\ calc.pc \in {"readPeak", "raise"} =>
          calc.p \in DOMAIN calc.new /\ calc.p \notin calc.todo
    /\ calc.pc = "raise" => calc.seen \in Nat

StatsTypes ==
    /\ stats \in [pc : {"idle", "read", "write"}, todo : SUBSET Participants, ranks : Ranks,
                  p : Participants \cup {None}, seen : MaybeRank]
    /\ stats.pc # "idle" => stats.todo \subseteq DOMAIN stats.ranks
    /\ stats.pc = "write" => stats.p \in DOMAIN stats.ranks

\* How far the worker has come with its message: each participant is done, or
\* waits in todo, or is the one in hand.
InHand(m, i) ==
    \/ Lineup[m][i] \in applied[m] \cup gone
    \/ \E j \in DOMAIN worker.todo : worker.todo[j] = Lineup[m][i]
    \/ worker.pc = "writeRank" /\ worker.p = Lineup[m][i]

Progress ==
    /\ worker.pc = "ack" => worker.m \in missed
    /\ worker.pc \in {"readRank", "writeRank"} =>
          /\ match[worker.m] = "completed"
          /\ \A i \in DOMAIN Lineup[worker.m] : InHand(worker.m, i)

\* Only the statistics job makes peaks, and lowers them; only the recalculation
\* raises them.  So what the one has read is no more than the peak, and
\* what the other has read no less.
PeaksRead ==
    /\ stats.pc = "write" /\ peak[stats.p] # None =>
          /\ stats.seen \in Nat /\ stats.seen <= peak[stats.p]
          /\ stats.p \in raised \/ stats.seen = peak[stats.p]
    /\ calc.pc = "raise" =>
          \/ peak[calc.p] \in Nat /\ peak[calc.p] <= calc.seen
          \/ calc.p \in gone \cap Bots

\* What the worker does.
WorkerStep == (\E m \in Matches : Consume(m)) \/ Handle \/ WorkerFault

TypeInv == TableTypes /\ BrokerInv /\ WorkerTypes /\ CalcTypes /\ StatsTypes

\* The inductive invariant.
IInv == TypeInv /\ Progress /\ AcknowledgedIsApplied /\ PeaksRead

-----------------------------------------------------------------------------
(* Lemmas about the operators.                                             *)

LEMMA AtLeastNat == ASSUME NEW a \in Int, NEW b \in Nat PROVE AtLeast(a, b) \in Nat
BY DEF AtLeast

LEMMA EmptyRanks == <<>> \in Ranks
<1>1. <<>> \in [{} -> Nat]
  OBVIOUS
<1> QED
  BY <1>1 DEF Ranks

LEMMA RanksOf == ASSUME NEW r \in Ranks, NEW p \in DOMAIN r PROVE p \in Participants /\ r[p] \in Nat
BY DEF Ranks

LEMMA RanksMade ==
    ASSUME NEW S \in SUBSET Participants, NEW r, r \in [S -> Nat] PROVE r \in Ranks /\ DOMAIN r = S
BY DEF Ranks

LEMMA HeadTail ==
    ASSUME NEW S, NEW s \in Seq(S), s # <<>>
    PROVE  /\ Head(s) \in S /\ Tail(s) \in Seq(S)
           /\ \A i \in DOMAIN s : s[i] = Head(s) \/ \E j \in DOMAIN Tail(s) : Tail(s)[j] = s[i]
<1>1. Head(s) \in S /\ Tail(s) \in Seq(S) /\ Head(s) = s[1]
  BY HeadTailProperties
<1>2. ASSUME NEW i \in DOMAIN s, i # 1
      PROVE  \E j \in DOMAIN Tail(s) : Tail(s)[j] = s[i]
  <2>1. i \in 1..Len(s) /\ Len(s) \in Nat
    OBVIOUS
  <2>2. Len(Tail(s)) = Len(s) - 1 /\ \A j \in 1..Len(Tail(s)) : Tail(s)[j] = s[j + 1]
    BY HeadTailProperties
  <2>3. DOMAIN Tail(s) = 1..Len(Tail(s))
    BY <1>1
  <2>4. i - 1 \in DOMAIN Tail(s) /\ Tail(s)[i - 1] = s[i]
    BY <1>2, <2>1, <2>2, <2>3
  <2> QED
    BY <2>4
<1> QED
  BY <1>1, <1>2

-----------------------------------------------------------------------------
(* The types.                                                              *)

LEMMA InitTypes == Init => TypeInv
<1>1. <<>> \in Seq(Participants)
  OBVIOUS
<1> QED
BY <1>1, EmptyRanks, EloAssumption, KindsAssumption, MaxFaultsAssumption,
   MaxModerationsAssumption
DEF Init, TypeInv, TableTypes, BrokerInv, WorkerTypes, CalcTypes, StatsTypes,
    IdleWorker, IdleCalc, IdleStats, WorkerPcs, CalcPcs, MaybeRank

LEMMA InsertMatchTypes == ASSUME TypeInv, NEW m \in Matches, InsertMatch(m) PROVE TypeInv'
BY DEF InsertMatch, people, table, broker, history,
       TypeInv, TableTypes, BrokerInv, WorkerTypes, CalcTypes, StatsTypes

LEMMA PublishTypes == ASSUME TypeInv, NEW m \in Matches, Publish(m) PROVE TypeInv'
BY DEF Publish, people, table, broker, history,
       TypeInv, TableTypes, BrokerInv, WorkerTypes, CalcTypes, StatsTypes

LEMMA DeleteTypes == ASSUME TypeInv, NEW p \in Participants, Delete(p) PROVE TypeInv'
BY DEF Delete, people, table, broker, history, MaybeRank,
       TypeInv, TableTypes, BrokerInv, WorkerTypes, CalcTypes, StatsTypes

LEMMA ModerateTypes == ASSUME TypeInv, NEW u \in Users, Moderate(u) PROVE TypeInv'
BY MaxModerationsAssumption
DEF Moderate, table, broker, history,
    TypeInv, TableTypes, BrokerInv, WorkerTypes, CalcTypes, StatsTypes

\* The worker's steps leave the jobs alone.
LEMMA WorkerOnly ==
    ASSUME WorkerStep
    PROVE  /\ UNCHANGED <<calc, stats, people, peak, raised, sent>>
           /\ CalcTypes => CalcTypes'
           /\ StatsTypes => StatsTypes'
<1>1. UNCHANGED <<calc, stats, people, peak, raised, sent>>
  BY DEF WorkerStep, Consume, Handle, FindMatch, CompleteMatch, ReadRank, WriteRank, Acknowledge,
         WorkerFault, people, table, broker, history
<1> QED
  BY <1>1 DEF CalcTypes, StatsTypes

LEMMA WorkerInHand ==
    ASSUME TypeInv, worker.pc # "idle"
    PROVE  worker.m \in Matches /\ worker.m \in sent \ (inbox \cup acked)
BY DEF TypeInv, BrokerInv

LEMMA IdleTypes ==
    ASSUME worker' = IdleWorker
    PROVE  WorkerTypes' /\ worker'.pc = "idle" /\ worker'.m = None
<1>1. <<>> \in Seq(Participants)
  OBVIOUS
<1> QED
  BY <1>1 DEF WorkerTypes, IdleWorker, WorkerPcs, MaybeRank

LEMMA WorkerTypesStep ==
    ASSUME TypeInv, WorkerStep
    PROVE  WorkerTypes'
<1>0. WorkerTypes
  BY DEF TypeInv
<1>1. ASSUME NEW m \in Matches, Consume(m)
      PROVE  WorkerTypes'
  <2>1. <<>> \in Seq(Participants)
    OBVIOUS
  <2> QED
    BY <1>1, <2>1 DEF Consume, WorkerTypes, IdleWorker, WorkerPcs, MaybeRank
<1>2. CASE FindMatch
  BY <1>0, <1>2 DEF FindMatch, WorkerTypes, WorkerPcs
<1>3. CASE CompleteMatch
  <2>1. Lineup[worker.m] \in Seq(Participants)
    BY <1>3, WorkerInHand, LineupAssumption DEF CompleteMatch
  <2> QED
    BY <1>0, <1>3, <2>1 DEF CompleteMatch, WorkerTypes, WorkerPcs
<1>4. CASE ReadRank
  <2>1. /\ worker.todo \in Seq(Participants) /\ worker.todo # <<>>
        /\ \A p \in Participants : rank[p] \in Nat
    BY <1>0, <1>4 DEF ReadRank, WorkerTypes, TypeInv, TableTypes
  <2>2. Head(worker.todo) \in Participants /\ Tail(worker.todo) \in Seq(Participants)
    BY <2>1, HeadTail
  <2> QED
    BY <1>0, <1>4, <2>1, <2>2 DEF ReadRank, WorkerTypes, WorkerPcs, MaybeRank
<1>5. CASE WriteRank
  <2>1. CASE Requeue
    BY <2>1, IdleTypes DEF Requeue
  <2>2. CASE worker' = [worker EXCEPT !.pc = "readRank", !.p = None, !.seen = None]
    BY <1>0, <2>2 DEF WorkerTypes, WorkerPcs, MaybeRank
  <2> QED
    BY <1>5, <2>1, <2>2 DEF WriteRank
<1>6. CASE Acknowledge \/ WorkerFault
  BY <1>6, IdleTypes DEF Acknowledge, WorkerFault, Requeue
<1> QED
  BY <1>1, <1>2, <1>3, <1>4, <1>5, <1>6 DEF Handle, WorkerStep

LEMMA BrokerStep ==
    ASSUME TypeInv, WorkerStep
    PROVE  BrokerInv'
<1>0. BrokerInv /\ worker \in [pc : WorkerPcs, m : Matches \cup {None}, todo : Seq(Participants),
                               p : Participants \cup {None}, seen : MaybeRank]
  BY DEF TypeInv, WorkerTypes
<1>1. ASSUME NEW m \in Matches, Consume(m)
      PROVE  BrokerInv'
  <2>1. worker'.m = m /\ worker'.pc = "findMatch"
    BY <1>1 DEF Consume, IdleWorker
  <2> QED
    BY <1>0, <1>1, <2>1 DEF Consume, BrokerInv, people, table, history
<1>2. CASE /\ worker.pc # "idle" /\ worker'.pc # "idle" /\ worker'.m = worker.m
           /\ UNCHANGED <<sent, inbox, acked>>
           /\ missed' \in {missed, missed \cup {worker.m}}
  BY <1>0, <1>2 DEF BrokerInv
<1>3. CASE worker.pc # "idle" /\ Requeue /\ UNCHANGED <<sent, acked, missed>>
  BY <1>0, <1>3, IdleTypes DEF Requeue, BrokerInv
<1>4. CASE Acknowledge
  BY <1>0, <1>4, IdleTypes DEF Acknowledge, BrokerInv, people, history
<1>5. CASE FindMatch \/ CompleteMatch \/ ReadRank
  BY <1>0, <1>2, <1>5 DEF FindMatch, CompleteMatch, ReadRank, people, broker, history
<1>6. CASE WriteRank
  BY <1>0, <1>2, <1>3, <1>6 DEF WriteRank
<1>7. CASE WorkerFault
  BY <1>3, <1>7 DEF WorkerFault, people, history
<1> QED
  BY <1>1, <1>4, <1>5, <1>6, <1>7 DEF Handle, WorkerStep

LEMMA TableStep ==
    ASSUME TypeInv, WorkerStep
    PROVE  TableTypes'
<1>0. TableTypes /\ UNCHANGED <<peak, gone, suspended, moderations>>
  BY WorkerOnly DEF TypeInv, people
<1>1. CASE CompleteMatch
  BY <1>0, <1>1, WorkerInHand DEF CompleteMatch, TableTypes, people, table, broker, history
<1>2. CASE WriteRank
  <2>1. CASE UNCHANGED <<rank, applied>>
    BY <1>0, <1>2, <2>1 DEF WriteRank, people, TableTypes
  <2>2. CASE /\ rank' = [rank EXCEPT ![worker.p] =
                            AtLeast(worker.seen + Delta[worker.m][worker.p], 0)]
             /\ applied' = [applied EXCEPT ![worker.m] = @ \cup {worker.p}]
    <3>1. worker.p \in Participants /\ worker.seen \in Nat /\ worker.m \in Matches
      BY <1>2, WorkerInHand DEF WriteRank, TypeInv, WorkerTypes
    <3>2. AtLeast(worker.seen + Delta[worker.m][worker.p], 0) \in Nat
      <4> DEFINE sum == worker.seen + Delta[worker.m][worker.p]
      <4>1. Delta[worker.m][worker.p] \in Int
        BY <3>1, DeltaAssumption
      <4>2. sum \in Int
        BY <3>1, <4>1
      <4> HIDE DEF sum
      <4>3. AtLeast(sum, 0) \in Nat
        BY <4>2, AtLeastNat
      <4> QED
        BY <4>3 DEF sum
    <3>3. rank' \in [Participants -> Nat] /\ applied' \in [Matches -> SUBSET Participants]
      BY <1>0, <2>2, <3>1, <3>2 DEF TableTypes
    <3> QED
      BY <1>0, <1>2, <3>3 DEF WriteRank, people, TableTypes
  <2> QED
    BY <1>2, <2>1, <2>2 DEF WriteRank
<1>3. CASE WorkerFault
  BY <1>0, <1>3, MaxFaultsAssumption DEF WorkerFault, TableTypes, people, table, history
<1>4. CASE (\E m \in Matches : Consume(m)) \/ FindMatch \/ ReadRank \/ Acknowledge
  BY <1>0, <1>4 DEF Consume, FindMatch, ReadRank, Acknowledge, TableTypes, people, table, broker, history
<1> QED
  BY <1>1, <1>2, <1>3, <1>4 DEF Handle, WorkerStep

LEMMA WorkerKeepsTypes ==
    ASSUME TypeInv, WorkerStep
    PROVE  TypeInv'
<1>1. CalcTypes' /\ StatsTypes'
  BY WorkerOnly DEF TypeInv
<1>2. TableTypes' /\ BrokerInv' /\ WorkerTypes'
  BY TableStep, BrokerStep, WorkerTypesStep
<1> QED
  BY <1>1, <1>2 DEF TypeInv

\* The recalculation writes ranks and peaks; the rest it leaves alone.
LEMMA CalcOnly ==
    ASSUME TypeInv, Calc \/ CalcFault
    PROVE  /\ UNCHANGED <<people, match, sent, inbox, acked, worker, stats, applied, missed>>
           /\ BrokerInv' /\ WorkerTypes' /\ StatsTypes'
<1>1. UNCHANGED <<people, match, sent, inbox, acked, worker, stats, applied, missed>>
  BY DEF Calc, CalcFault, CalcSelect, CalcMatches, CalcWrite, CalcReadPeak, CalcRaise, CalcNext,
         table, broker, history
<1> QED
  BY <1>1 DEF TypeInv, BrokerInv, WorkerTypes, StatsTypes

LEMMA IdleCalcTypes ==
    /\ IdleCalc.pc = "idle"
    /\ IdleCalc \in [pc : CalcPcs, pool : {{}, Users, Bots}, todo : SUBSET Participants,
                     new : Ranks, p : Participants \cup {None}, seen : MaybeRank]
BY EmptyRanks DEF IdleCalc, CalcPcs, MaybeRank

LEMMA CalcKeepsTypes == ASSUME TypeInv, Calc \/ CalcFault PROVE TypeInv'
<1>0. TableTypes /\ CalcTypes
  BY DEF TypeInv
<1>1. ASSUME calc' = IdleCalc
      PROVE  CalcTypes'
  BY <1>1, IdleCalcTypes DEF CalcTypes
<1>2. CASE CalcFault
  <2>1. TableTypes'
    BY <1>0, <1>2, MaxFaultsAssumption DEF CalcFault, TableTypes, people, table, history
  <2> QED
    BY <1>1, <1>2, <2>1, CalcOnly DEF CalcFault, TypeInv
<1>3. CASE CalcSelect
  <2> DEFINE all == IF calc.pc = "idle" THEN Users ELSE Bots
  <2>1. /\ all \in {Users, Bots} /\ Rateable(all) \subseteq Participants
        /\ Rateable(all) \in (SUBSET Users) \cup (SUBSET Bots)
    BY DEF Participants, Rateable
  <2>2. calc' = [IdleCalc EXCEPT !.pc = "matches", !.todo = Rateable(all), !.pool = all]
    BY <1>3 DEF CalcSelect
  <2> HIDE DEF all
  <2>3. CalcTypes'
    BY <2>1, <2>2, IdleCalcTypes DEF CalcTypes, CalcPcs
  <2>4. TableTypes'
    BY <1>0, <1>3 DEF CalcSelect, TableTypes, people, table, broker, history
  <2> QED
    BY <2>3, <2>4, <1>3, CalcOnly DEF Calc, TypeInv
<1>4. CASE CalcMatches
  <2> DEFINE new == [p \in calc.todo |-> Elo(Completed, calc.todo, p)]
  <2>1. /\ calc.todo \in SUBSET Participants /\ Completed \in SUBSET Matches
        /\ calc.todo \in (SUBSET Users) \cup (SUBSET Bots)
    BY <1>0, <1>4 DEF CalcMatches, CalcTypes, Completed
  <2>2. \A p \in calc.todo : Elo(Completed, calc.todo, p) \in Nat
    BY <2>1, EloAssumption
  <2>3. new \in [calc.todo -> Nat]
    BY <2>2
  <2>4. calc' = [calc EXCEPT !.pc = "write", !.new = new]
    BY <1>4 DEF CalcMatches
  <2> HIDE DEF new
  <2>5. new \in Ranks /\ DOMAIN new = calc.todo
    BY <2>1, <2>3, RanksMade
  <2>6. CalcTypes'
    BY <1>0, <2>4, <2>5 DEF CalcTypes, CalcPcs
  <2>7. TableTypes'
    BY <1>0, <1>4 DEF CalcMatches, TableTypes, people, table, broker, history
  <2> QED
    BY <2>6, <2>7, <1>4, CalcOnly DEF Calc, TypeInv
<1>5. ASSUME NEW p \in Participants, CalcWrite(p)
      PROVE  TypeInv'
  <2>1. calc.pc = "write" /\ p \in calc.todo /\ p \in DOMAIN calc.new
    BY <1>0, <1>5 DEF CalcWrite, CalcTypes
  <2>2. calc.new[p] \in Nat
    BY <1>0, <2>1, RanksOf DEF CalcTypes
  <2>3. CalcTypes'
    <3>1. CASE calc' = [calc EXCEPT !.pc = "readPeak", !.todo = @ \ {p}, !.p = p]
      BY <1>0, <2>1, <3>1 DEF CalcTypes, CalcPcs
    <3> QED
      BY <1>1, <1>5, <3>1 DEF CalcWrite
  <2>4. TableTypes'
    BY <1>0, <1>5, <2>2 DEF CalcWrite, TableTypes, people, broker, history
  <2> QED
    BY <2>3, <2>4, <1>5, CalcOnly DEF Calc, TypeInv
<1>6. CASE CalcReadPeak
  <2>1. calc.pc = "readPeak" /\ calc.p \in Participants
    BY <1>0, <1>6, RanksOf DEF CalcReadPeak, CalcTypes
  <2>2. peak[calc.p] \in MaybeRank
    BY <1>0, <2>1 DEF TableTypes
  <2>3. CalcTypes'
    BY <1>0, <1>6, <2>1, <2>2 DEF CalcReadPeak, CalcTypes, CalcPcs, MaybeRank
  <2>4. TableTypes'
    BY <1>0, <1>6 DEF CalcReadPeak, TableTypes, people, table, broker, history
  <2> QED
    BY <2>3, <2>4, <1>6, CalcOnly DEF Calc, TypeInv
<1>7. CASE CalcRaise
  <2>1. calc.pc = "raise" /\ calc.p \in Participants /\ calc.new[calc.p] \in Nat
    BY <1>0, <1>7, RanksOf DEF CalcRaise, CalcTypes
  <2>2. CalcTypes'
    <3>1. CASE calc' = [calc EXCEPT !.pc = "write", !.seen = None]
      BY <1>0, <2>1, <3>1 DEF CalcTypes, CalcPcs, MaybeRank
    <3> QED
      BY <1>1, <1>7, <3>1 DEF CalcRaise
  <2>3. TableTypes'
    <3>1. CASE UNCHANGED peak
      BY <1>0, <1>7, <3>1 DEF CalcRaise, TableTypes, people, broker, history
    <3>2. CASE peak[calc.p] # None /\ peak' = [peak EXCEPT ![calc.p] = calc.new[calc.p]]
      BY <1>0, <1>7, <2>1, <3>2 DEF CalcRaise, TableTypes, MaybeRank, people, broker, history
    <3> QED
      BY <1>7, <3>1, <3>2 DEF CalcRaise
  <2> QED
    BY <2>2, <2>3, <1>7, CalcOnly DEF Calc, TypeInv
<1>8. CASE CalcNext
  <2>1. CalcTypes'
    BY <1>1, <1>8, IdleCalcTypes DEF CalcNext, CalcTypes, CalcPcs
  <2>2. TableTypes'
    BY <1>0, <1>8 DEF CalcNext, TableTypes, people, table, broker, history
  <2> QED
    BY <2>1, <2>2, <1>8, CalcOnly DEF Calc, TypeInv
<1> QED
  BY <1>2, <1>3, <1>4, <1>5, <1>6, <1>7, <1>8 DEF Calc

\* The statistics job writes peaks; the rest it leaves alone.
LEMMA StatsOnly ==
    ASSUME TypeInv, Stats
    PROVE  /\ UNCHANGED <<rank, people, match, sent, inbox, acked, faults, worker, calc, applied, missed>>
           /\ BrokerInv' /\ WorkerTypes' /\ CalcTypes'
<1>1. UNCHANGED <<rank, people, match, sent, inbox, acked, faults, worker, calc, applied, missed>>
  BY DEF Stats, StatsSelect, StatsRead, StatsWrite, StatsDone, people, table, broker, history
<1> QED
  BY <1>1 DEF TypeInv, BrokerInv, WorkerTypes, CalcTypes

LEMMA IdleStatsTypes ==
    /\ IdleStats.pc = "idle"
    /\ IdleStats \in [pc : {"idle", "read", "write"}, todo : SUBSET Participants, ranks : Ranks,
                      p : Participants \cup {None}, seen : MaybeRank]
BY EmptyRanks DEF IdleStats, MaybeRank

LEMMA StatsKeepsTypes == ASSUME TypeInv, Stats PROVE TypeInv'
<1>0. TableTypes /\ StatsTypes
  BY DEF TypeInv
<1>1. ASSUME UNCHANGED peak
      PROVE  TableTypes'
  BY <1>0, <1>1, StatsOnly DEF TableTypes, people
<1>2. ASSUME stats' = IdleStats
      PROVE  StatsTypes'
  BY <1>2, EmptyRanks DEF StatsTypes, IdleStats, MaybeRank
<1>3. ASSUME NEW pool \in {Users, Bots}, StatsSelect(pool)
      PROVE  TypeInv'
  <2> DEFINE chosen == Rateable(pool)
             ranks == [p \in chosen |-> rank[p]]
  <2>1. chosen \in SUBSET Participants
    BY DEF Participants, Rateable
  <2>2. ranks \in [chosen -> Nat]
    BY <1>0, <2>1 DEF TableTypes
  <2>3. stats' = [IdleStats EXCEPT !.pc = "read", !.todo = chosen, !.ranks = ranks]
    BY <1>3 DEF StatsSelect
  <2> HIDE DEF chosen, ranks
  <2>4. ranks \in Ranks /\ DOMAIN ranks = chosen
    BY <2>1, <2>2, RanksMade
  <2>5. StatsTypes'
    BY <2>1, <2>3, <2>4 DEF StatsTypes, IdleStats, MaybeRank
  <2>6. UNCHANGED peak
    BY <1>3 DEF StatsSelect, people, table
  <2> QED
    BY <1>1, <2>5, <2>6, StatsOnly DEF TypeInv
<1>4. ASSUME NEW p \in Participants, StatsRead(p)
      PROVE  TypeInv'
  <2>1. UNCHANGED peak /\ peak[p] \in MaybeRank
    BY <1>0, <1>4 DEF StatsRead, people, table, TableTypes
  <2>2. StatsTypes'
    BY <1>0, <1>4, <2>1 DEF StatsRead, StatsTypes
  <2> QED
    BY <1>1, <2>1, <2>2, StatsOnly DEF TypeInv
<1>5. CASE StatsWrite
  <2>1. stats.pc = "write" /\ stats.p \in Participants /\ stats.ranks[stats.p] \in Nat
    BY <1>0, <1>5, RanksOf DEF StatsWrite, StatsTypes
  <2>2. StatsTypes'
    <3>1. CASE stats' = [stats EXCEPT !.pc = "read", !.p = None, !.seen = None]
      BY <1>0, <2>1, <3>1 DEF StatsTypes, MaybeRank
    <3> QED
      BY <1>2, <1>5, <3>1 DEF StatsWrite
  <2>3. TableTypes'
    <3>1. CASE /\ Exists(stats.p)
               /\ peak' = [peak EXCEPT ![stats.p] =
                              IF stats.seen = None THEN stats.ranks[stats.p] ELSE stats.seen]
      BY <1>0, <2>1, <3>1, StatsOnly DEF Exists, people, StatsTypes, TableTypes, MaybeRank
    <3> QED
      BY <1>1, <1>5, <3>1 DEF StatsWrite
  <2> QED
    BY <2>2, <2>3, StatsOnly DEF TypeInv
<1>6. CASE StatsDone
  <2>1. UNCHANGED peak /\ stats' = IdleStats
    BY <1>6 DEF StatsDone, people, table
  <2> QED
    BY <1>1, <1>2, <2>1, StatsOnly DEF TypeInv
<1>7. Users \in {Users, Bots} /\ Bots \in {Users, Bots}
  OBVIOUS
<1> QED
  BY <1>3, <1>4, <1>5, <1>6, <1>7 DEF Stats

LEMMA StutterTypes == ASSUME TypeInv, UNCHANGED vars PROVE TypeInv'
BY DEF vars, people, table, broker, history, TypeInv, TableTypes, BrokerInv, WorkerTypes,
       CalcTypes, StatsTypes

LEMMA StepTypes == ASSUME TypeInv, [Next]_vars PROVE TypeInv'
BY InsertMatchTypes, PublishTypes, DeleteTypes, ModerateTypes, WorkerKeepsTypes, CalcKeepsTypes,
   StatsKeepsTypes, StutterTypes DEF Next, WorkerStep

\* What the invariant says of the types is what a run checks.
LEMMA TypesImply == ASSUME TypeInv, Progress PROVE TypeOK
<1>1. worker.m \notin inbox \cup acked
  BY KindsAssumption DEF TypeInv, BrokerInv
<1>2. calc.pc \in {"readPeak", "raise"} => calc.p \in Participants
  BY RanksOf DEF TypeInv, CalcTypes
<1>3. stats.pc = "write" => stats.p \in Participants
  BY RanksOf DEF TypeInv, StatsTypes
<1> QED
  BY <1>1, <1>2, <1>3
  DEF TypeOK, TypeInv, TableTypes, BrokerInv, WorkerTypes, CalcTypes, StatsTypes, Progress,
      WorkerPcs, CalcPcs

-----------------------------------------------------------------------------
(* An acknowledged result was applied.                                     *)

\* Nothing that was done for a match is undone.
Grows ==
    /\ \A m \in Matches : /\ match[m] = "completed" => match'[m] = "completed"
                          /\ applied[m] \subseteq applied'[m]
    /\ gone \subseteq gone' /\ missed \subseteq missed'

LEMMA StepGrows == ASSUME TypeInv, [Next]_vars PROVE Grows
<1>0. TableTypes
  BY DEF TypeInv
<1>1. CASE UNCHANGED <<match, applied, gone, missed>>
  BY <1>1 DEF Grows
<1>2. ASSUME NEW m \in Matches, InsertMatch(m)
      PROVE  Grows
  BY <1>0, <1>2 DEF InsertMatch, people, history, Grows, TableTypes
<1>3. ASSUME NEW p \in Participants, Delete(p)
      PROVE  Grows
  BY <1>3 DEF Delete, people, history, Grows
<1>4. CASE FindMatch \/ \E u \in Users : Moderate(u)
  BY <1>4 DEF FindMatch, Moderate, people, history, Grows
<1>5. CASE CompleteMatch
  BY <1>0, <1>5, WorkerInHand DEF CompleteMatch, people, history, Grows, TableTypes
<1>6. CASE WriteRank
  BY <1>0, <1>1, <1>6, WorkerInHand DEF WriteRank, people, Grows, TableTypes
<1>7. ASSUME (\E m \in Matches : Publish(m) \/ Consume(m)) \/ ReadRank \/ Acknowledge \/ WorkerFault
      PROVE  UNCHANGED <<match, applied, gone, missed>>
  BY <1>7 DEF Publish, Consume, ReadRank, Acknowledge, WorkerFault, people, history
<1>8. CASE Calc \/ CalcFault
  BY <1>1, <1>8, CalcOnly DEF people
<1>9. CASE Stats
  BY <1>1, <1>9, StatsOnly DEF people
<1>10. CASE UNCHANGED vars
  BY <1>1, <1>10 DEF vars, people, history
<1> QED
  BY <1>1, <1>2, <1>3, <1>4, <1>5, <1>6, <1>7, <1>8, <1>9, <1>10 DEF Next, Handle

LEMMA AppliedStays ==
    ASSUME TypeInv, AcknowledgedIsApplied, Grows, UNCHANGED acked
    PROVE  AcknowledgedIsApplied'
<1>1. acked \subseteq Matches
  BY DEF TypeInv, BrokerInv
<1> QED
  BY <1>1 DEF AcknowledgedIsApplied, Grows

LEMMA AcknowledgedStep ==
    ASSUME TypeInv, Progress, AcknowledgedIsApplied, [Next]_vars
    PROVE  AcknowledgedIsApplied'
<1>0. Grows /\ acked \subseteq Matches
  BY StepGrows DEF TypeInv, BrokerInv
<1>1. CASE Acknowledge
  <2>1. acked' = acked \cup {worker.m} /\ UNCHANGED <<match, applied, gone, missed>>
    BY <1>1 DEF Acknowledge, people, history
  <2>2. ASSUME worker.m \notin missed
        PROVE  /\ match[worker.m] = "completed"
               /\ \A i \in DOMAIN Lineup[worker.m] :
                     Lineup[worker.m][i] \in applied[worker.m] \cup gone
    <3>1. worker.pc = "readRank" /\ worker.todo = <<>> /\ DOMAIN worker.todo = {}
      BY <1>1, <2>2 DEF Acknowledge, Progress
    <3> QED
      BY <3>1 DEF Progress, InHand
  <2> QED
    BY <2>1, <2>2 DEF AcknowledgedIsApplied
<1>2. CASE UNCHANGED acked
  BY <1>0, <1>2, AppliedStays
<1>3. CASE Calc \/ CalcFault
  BY <1>2, <1>3, CalcOnly
<1>4. CASE Stats
  BY <1>2, <1>4, StatsOnly
<1>5. ASSUME \/ \E m \in Matches : InsertMatch(m) \/ Publish(m) \/ Consume(m)
             \/ \E p \in Participants : Delete(p)
             \/ \E u \in Users : Moderate(u)
             \/ FindMatch \/ CompleteMatch \/ ReadRank \/ WriteRank \/ WorkerFault
             \/ UNCHANGED vars
      PROVE  UNCHANGED acked
  BY <1>5 DEF InsertMatch, Publish, Consume, Delete, Moderate, FindMatch, CompleteMatch, ReadRank,
     WriteRank, WorkerFault, vars, people, broker
<1> QED
  BY <1>1, <1>2, <1>3, <1>4, <1>5 DEF Next, Handle

\* While the worker rests, what others do leaves its progress as it is.
LEMMA ProgressStays ==
    ASSUME TypeInv, Progress, Grows, UNCHANGED worker
    PROVE  Progress'
<1>1. worker.pc # "idle" => worker.m \in Matches
  BY WorkerInHand
<1> QED
  BY <1>1 DEF Progress, InHand, Grows

LEMMA ProgressStep ==
    ASSUME TypeInv, Progress, [Next]_vars
    PROVE  Progress'
<1>0. /\ Grows /\ (worker.pc # "idle" => worker.m \in Matches)
      /\ worker \in [pc : WorkerPcs, m : Matches \cup {None}, todo : Seq(Participants),
                     p : Participants \cup {None}, seen : MaybeRank]
  BY StepGrows, WorkerInHand DEF TypeInv, WorkerTypes
<1>1. CASE worker'.pc \in {"idle", "findMatch", "complete"}
  BY <1>1 DEF Progress
<1>2. CASE UNCHANGED worker
  BY <1>0, <1>2, ProgressStays
<1>3. CASE FindMatch
  BY <1>0, <1>3 DEF FindMatch, Progress
<1>4. CASE CompleteMatch
  <2>1. /\ worker'.m = worker.m /\ worker'.pc = "readRank" /\ worker'.todo = Lineup[worker.m]
        /\ match'[worker.m] = "completed"
    BY <1>0, <1>4 DEF CompleteMatch, TypeInv, TableTypes
  <2> QED
    BY <2>1 DEF Progress, InHand
<1>5. CASE ReadRank
  <2> DEFINE next == Head(worker.todo)
  <2>1. worker.pc = "readRank" /\ worker.todo \in Seq(Participants) /\ worker.todo # <<>>
    BY <1>0, <1>5 DEF ReadRank
  <2>2. \A i \in DOMAIN worker.todo :
            worker.todo[i] = next
              \/ \E j \in DOMAIN Tail(worker.todo) : Tail(worker.todo)[j] = worker.todo[i]
    BY <2>1, HeadTail
  <2>3. /\ worker'.m = worker.m /\ worker'.todo = Tail(worker.todo)
        /\ \/ worker'.pc = "writeRank" /\ worker'.p = next
           \/ worker'.pc = "readRank" /\ next \in gone
        /\ UNCHANGED <<match, applied, gone>>
    BY <1>0, <1>5 DEF ReadRank, Exists, people, history
  <2> HIDE DEF next
  <2>4. ASSUME NEW i \in DOMAIN Lineup[worker.m]
        PROVE  InHand(worker.m, i)'
    <3>1. InHand(worker.m, i)
      BY <2>1 DEF Progress
    <3> QED
      BY <2>1, <2>2, <2>3, <3>1 DEF InHand
  <2> QED
    BY <2>1, <2>3, <2>4 DEF Progress
<1>6. CASE WriteRank
  <2>1. CASE Requeue
    BY <1>1, <2>1, IdleTypes DEF Requeue
  <2>2. CASE ~Requeue
    <3>1. /\ worker.pc = "writeRank"
          /\ worker' = [worker EXCEPT !.pc = "readRank", !.p = None, !.seen = None]
          /\ applied' = [applied EXCEPT ![worker.m] = @ \cup {worker.p}]
          /\ UNCHANGED <<match, gone>>
      BY <1>6, <2>2 DEF WriteRank, people
    <3>2. /\ worker'.m = worker.m /\ worker'.todo = worker.todo /\ worker'.pc = "readRank"
          /\ applied'[worker.m] = applied[worker.m] \cup {worker.p}
      BY <1>0, <3>1 DEF TypeInv, TableTypes
    <3>3. ASSUME NEW i \in DOMAIN Lineup[worker.m]
          PROVE  InHand(worker.m, i)'
      BY <3>1, <3>2 DEF InHand, Progress
    <3> QED
      BY <3>1, <3>2, <3>3 DEF Progress
  <2> QED
    BY <2>1, <2>2
<1>7. ASSUME (\E m \in Matches : Consume(m)) \/ Acknowledge \/ WorkerFault
      PROVE  worker'.pc \in {"idle", "findMatch"}
  <2>1. ASSUME NEW m \in Matches, Consume(m)
        PROVE  worker'.pc = "findMatch"
    BY <2>1 DEF Consume, IdleWorker
  <2>2. CASE Acknowledge \/ WorkerFault
    BY <2>2, IdleTypes DEF Acknowledge, WorkerFault, Requeue
  <2> QED
    BY <1>7, <2>1, <2>2
<1>8. CASE Calc \/ CalcFault
  BY <1>2, <1>8, CalcOnly
<1>9. CASE Stats
  BY <1>2, <1>9, StatsOnly
<1>10. ASSUME \/ \E m \in Matches : InsertMatch(m) \/ Publish(m)
              \/ \E p \in Participants : Delete(p)
              \/ \E u \in Users : Moderate(u)
              \/ UNCHANGED vars
      PROVE  UNCHANGED worker
  BY <1>10 DEF InsertMatch, Publish, Delete, Moderate, vars
<1> QED
  BY <1>1, <1>2, <1>3, <1>4, <1>5, <1>6, <1>7, <1>8, <1>9, <1>10 DEF Next, Handle

-----------------------------------------------------------------------------
(* Peaks.                                                                  *)

\* Who touches a peak: all other steps leave the peaks and the two jobs'
\* readings of them as they are, or end a reading.
LEMMA PeakUntouched ==
    ASSUME TypeInv, PeaksRead, UNCHANGED <<peak, raised>>,
           stats'.pc # "write" \/ UNCHANGED stats,
           calc'.pc # "raise" \/ UNCHANGED calc, gone \subseteq gone'
    PROVE  PeaksRead'
BY DEF PeaksRead

LEMMA PeaksReadStep ==
    ASSUME TypeInv, PeaksRead, [Next]_vars
    PROVE  PeaksRead'
<1>0. /\ None \notin Nat /\ peak \in [Participants -> MaybeRank] /\ Bots \subseteq Participants
      /\ calc.pc \in {"readPeak", "raise"} =>
            calc.p \in Participants /\ calc.new[calc.p] \in Nat
      /\ calc.pc = "raise" => calc.seen \in Nat
      /\ stats.pc = "write" => stats.p \in Participants /\ stats.seen \in MaybeRank
      /\ calc \in [pc : CalcPcs, pool : {{}, Users, Bots}, todo : SUBSET Participants,
                   new : Ranks, p : Participants \cup {None}, seen : MaybeRank]
      /\ stats \in [pc : {"idle", "read", "write"}, todo : SUBSET Participants, ranks : Ranks,
                    p : Participants \cup {None}, seen : MaybeRank]
  BY EloAssumption, RanksOf DEF TypeInv, TableTypes, CalcTypes, StatsTypes, Participants
<1>1. CASE WorkerStep
  BY <1>1, WorkerOnly, PeakUntouched DEF people
<1>2. ASSUME \/ \E m \in Matches : InsertMatch(m) \/ Publish(m)
             \/ \E u \in Users : Moderate(u)
             \/ UNCHANGED vars
      PROVE  PeaksRead'
  BY <1>2, PeakUntouched DEF InsertMatch, Publish, Moderate, vars, people, table
<1>3. ASSUME NEW p \in Participants, Delete(p)
      PROVE  PeaksRead'
  <2>1. /\ UNCHANGED <<stats, calc, raised>> /\ gone' = gone \cup {p}
        /\ \A q \in Participants : peak'[q] = peak[q] \/ (q = p /\ p \in Bots /\ peak'[q] = None)
    BY <1>0, <1>3 DEF Delete
  <2> QED
    BY <1>0, <2>1 DEF PeaksRead
<1>4. CASE CalcReadPeak
  <2>1. /\ UNCHANGED <<peak, raised, stats, gone>> /\ calc'.p = calc.p /\ calc.p \in Participants
        /\ \/ calc'.pc = "write"
           \/ calc'.pc = "raise" /\ peak[calc.p] # None /\ calc'.seen = peak[calc.p]
    BY <1>0, <1>4 DEF CalcReadPeak, people, table
  <2>2. peak[calc.p] \in MaybeRank
    BY <1>0, <2>1
  <2> QED
    BY <1>0, <2>1, <2>2 DEF PeaksRead, MaybeRank
<1>5. CASE CalcRaise
  <2>1. calc.pc = "raise" /\ calc'.pc # "raise" /\ UNCHANGED <<stats, gone>>
    BY <1>0, <1>5, IdleCalcTypes DEF CalcRaise, people
  <2>2. CASE UNCHANGED <<peak, raised>>
    BY <2>1, <2>2, PeakUntouched
  <2>3. CASE /\ calc.new[calc.p] > calc.seen /\ peak[calc.p] # None
             /\ peak' = [peak EXCEPT ![calc.p] = calc.new[calc.p]]
             /\ raised' = raised \cup {calc.p}
    <3>1. peak[calc.p] \in Nat /\ peak[calc.p] <= calc.seen
      <4>1. calc.p \in gone \cap Bots => peak[calc.p] = None
        BY DEF TypeInv, TableTypes
      <4> QED
        BY <2>1, <2>3, <4>1 DEF PeaksRead
    <3>2. CASE stats.p = calc.p
      BY <1>0, <2>1, <2>3, <3>1, <3>2 DEF PeaksRead
    <3>3. CASE stats.p # calc.p
      BY <1>0, <2>1, <2>3, <3>3 DEF PeaksRead
    <3> QED
      BY <3>2, <3>3
  <2> QED
    BY <1>5, <2>2, <2>3 DEF CalcRaise
<1>6. ASSUME \/ CalcSelect \/ CalcMatches \/ CalcNext \/ CalcFault
             \/ \E p \in Participants : CalcWrite(p)
      PROVE  PeaksRead'
  <2>1. calc'.pc # "raise"
    BY <1>0, <1>6, IdleCalcTypes DEF CalcSelect, CalcMatches, CalcNext, CalcFault, CalcWrite
  <2>2. UNCHANGED <<peak, raised, stats, gone>>
    BY <1>6 DEF CalcSelect, CalcMatches, CalcNext, CalcFault, CalcWrite, people, table
  <2> QED
    BY <2>1, <2>2, PeakUntouched
<1>7. ASSUME NEW p \in Participants, StatsRead(p)
      PROVE  PeaksRead'
  <2>1. /\ UNCHANGED <<peak, calc, gone>> /\ stats'.p = p /\ stats'.seen = peak[p]
        /\ peak[p] \in MaybeRank
    BY <1>0, <1>7 DEF StatsRead, people, table
  <2> QED
    BY <1>0, <2>1 DEF PeaksRead, MaybeRank
<1>8. CASE StatsWrite
  <2>1. stats.pc = "write" /\ stats'.pc # "write" /\ UNCHANGED <<calc, gone, raised>>
    BY <1>0, <1>8, IdleStatsTypes DEF StatsWrite, people
  <2>2. CASE UNCHANGED peak
    BY <2>1, <2>2, PeakUntouched
  <2>3. CASE /\ Exists(stats.p)
             /\ peak' = [peak EXCEPT ![stats.p] =
                            IF stats.seen = None THEN stats.ranks[stats.p] ELSE stats.seen]
    <3>1. CASE calc.pc = "raise" /\ calc.p = stats.p
      <4>1. peak[stats.p] \in Nat /\ peak[stats.p] <= calc.seen
        BY <2>3, <3>1 DEF PeaksRead, Exists
      <4>2. stats.seen \in Nat /\ stats.seen <= peak[stats.p]
        BY <1>0, <2>1, <4>1 DEF PeaksRead
      <4>3. peak'[stats.p] = stats.seen
        BY <1>0, <2>1, <2>3, <4>2
      <4> QED
        BY <1>0, <2>1, <3>1, <4>1, <4>2, <4>3 DEF PeaksRead
    <3>2. CASE calc.pc # "raise"
      BY <2>1, <3>2 DEF PeaksRead
    <3>3. CASE calc.pc = "raise" /\ calc.p # stats.p
      BY <1>0, <2>1, <2>3, <3>3 DEF PeaksRead
    <3> QED
      BY <3>1, <3>2, <3>3
  <2> QED
    BY <1>8, <2>2, <2>3 DEF StatsWrite
<1>9. ASSUME StatsDone \/ StatsSelect(Users) \/ StatsSelect(Bots)
      PROVE  PeaksRead'
  <2>1. UNCHANGED <<peak, raised, calc, gone>> /\ stats'.pc # "write"
    BY <1>9, IdleStatsTypes DEF StatsDone, StatsSelect, people, table
  <2> QED
    BY <2>1, PeakUntouched
<1> QED
  BY <1>1, <1>2, <1>3, <1>4, <1>5, <1>6, <1>7, <1>8, <1>9 DEF Next, Calc, Stats, WorkerStep

\* What a step may do to the peaks.
PeakStep ==
    \A p \in Participants :
        peak[p] # None =>
            \/ peak'[p] # None /\ peak'[p] >= peak[p]
            \/ peak'[p] = None /\ p \in gone' \cap Bots
            \/ p \in raised /\ stats.p = p /\ peak'[p] = stats.seen

LEMMA PeakKept == ASSUME TypeInv, UNCHANGED peak PROVE PeakStep
<1>1. \A p \in Participants : peak[p] \in Nat \cup {None}
  BY DEF TypeInv, TableTypes, MaybeRank
<1> QED
  BY <1>1 DEF PeakStep

LEMMA PeakFalls ==
    ASSUME TypeInv, PeaksRead, Next
    PROVE  PeakStep
<1>0. /\ None \notin Nat /\ peak \in [Participants -> Nat \cup {None}]
      /\ calc.pc = "raise" =>
            calc.p \in Participants /\ calc.new[calc.p] \in Nat /\ calc.seen \in Nat
      /\ stats.pc = "write" => stats.p \in Participants
  BY EloAssumption, RanksOf DEF TypeInv, TableTypes, CalcTypes, StatsTypes, MaybeRank
<1>1. CASE WorkerStep
  BY <1>1, WorkerOnly, PeakKept
<1>2. ASSUME NEW p \in Participants, Delete(p)
      PROVE  PeakStep
  <2>1. \A q \in Participants :
            \/ peak'[q] = peak[q]
            \/ peak'[q] = None /\ q \in gone' \cap Bots
    BY <1>0, <1>2 DEF Delete
  <2>2. \A q \in Participants : peak[q] # None => peak[q] \in Nat
    BY <1>0
  <2> QED
    BY <2>1, <2>2 DEF PeakStep
<1>3. CASE CalcRaise
  <2>1. CASE UNCHANGED peak
    BY <2>1, PeakKept
  <2>2. CASE peak' # peak
    <3>1. /\ calc.pc = "raise" /\ calc.new[calc.p] > calc.seen /\ peak[calc.p] # None
          /\ peak' = [peak EXCEPT ![calc.p] = calc.new[calc.p]]
      BY <1>3, <2>2 DEF CalcRaise
    <3>2. calc.p \in gone \cap Bots => peak[calc.p] = None
      BY DEF TypeInv, TableTypes
    <3>3. peak[calc.p] \in Nat /\ peak[calc.p] <= calc.seen
      BY <3>1, <3>2 DEF PeaksRead
    <3>4. peak'[calc.p] \in Nat /\ peak'[calc.p] >= peak[calc.p]
      BY <1>0, <3>1, <3>3
    <3>5. \A q \in Participants \ {calc.p} : peak'[q] = peak[q] /\ peak[q] \in Nat \cup {None}
      BY <1>0, <3>1
    <3> QED
      BY <1>0, <3>4, <3>5 DEF PeakStep
  <2> QED
    BY <2>1, <2>2
<1>4. CASE StatsWrite
  <2>1. CASE UNCHANGED peak
    BY <2>1, PeakKept
  <2>2. CASE peak' # peak
    <3>1. /\ stats.pc = "write"
          /\ peak' = [peak EXCEPT ![stats.p] =
                        IF stats.seen = None THEN stats.ranks[stats.p] ELSE stats.seen]
      BY <1>4, <2>2 DEF StatsWrite
    <3>2. ASSUME peak[stats.p] # None
          PROVE  /\ peak'[stats.p] = stats.seen
                 /\ \/ stats.p \in raised
                    \/ peak'[stats.p] >= peak[stats.p] /\ peak'[stats.p] # None
      <4>1. stats.seen \in Nat /\ (stats.p \in raised \/ stats.seen = peak[stats.p])
        BY <3>1, <3>2 DEF PeaksRead
      <4>2. peak'[stats.p] = stats.seen
        BY <1>0, <3>1, <4>1
      <4> QED
        BY <1>0, <4>1, <4>2
    <3>3. \A q \in Participants \ {stats.p} : peak'[q] = peak[q] /\ peak[q] \in Nat \cup {None}
      BY <1>0, <3>1
    <3> QED
      BY <1>0, <3>2, <3>3 DEF PeakStep
  <2> QED
    BY <2>1, <2>2
<1>5. ASSUME \/ \E m \in Matches : InsertMatch(m) \/ Publish(m)
             \/ \E u \in Users : Moderate(u)
             \/ CalcSelect \/ CalcMatches \/ CalcReadPeak \/ CalcNext \/ CalcFault
             \/ \E p \in Participants : CalcWrite(p)
             \/ StatsSelect(Users) \/ StatsSelect(Bots) \/ StatsDone
             \/ \E p \in Participants : StatsRead(p)
      PROVE  UNCHANGED peak
  BY <1>5 DEF InsertMatch, Publish, Moderate, CalcSelect, CalcMatches, CalcReadPeak, CalcNext, CalcFault,
     CalcWrite, StatsSelect, StatsDone, StatsRead, people, table
<1> QED
  BY <1>1, <1>2, <1>3, <1>4, <1>5, PeakKept DEF Next, Calc, Stats, WorkerStep

-----------------------------------------------------------------------------
(* The theorems.                                                           *)

LEMMA InitInvariant == Init => IInv
<1> SUFFICES ASSUME Init
             PROVE  Progress /\ AcknowledgedIsApplied /\ PeaksRead
  BY InitTypes DEF IInv
<1>1. worker.pc = "idle" /\ calc.pc = "idle" /\ stats.pc = "idle" /\ acked = {}
  BY DEF Init, IdleWorker, IdleCalc, IdleStats
<1> QED
  BY <1>1 DEF Progress, AcknowledgedIsApplied, PeaksRead

LEMMA StepInvariant == IInv /\ [Next]_vars => IInv'
BY StepTypes, ProgressStep, AcknowledgedStep, PeaksReadStep DEF IInv

THEOREM InvariantHolds == Spec => []IInv
BY InitInvariant, StepInvariant, PTL DEF Spec

\* Ranks and peaks are natural numbers for any deltas, a message is never both
\* acknowledged and in the broker's or the worker's hands, and a job writes
\* only rows that it selected.
THEOREM TypeCorrect == Spec => []TypeOK
<1>1. IInv => TypeOK
  BY TypesImply DEF IInv
<1> QED
  BY <1>1, InvariantHolds, PTL

\* Whatever faults, redeliveries and deletions come between, a result that is
\* acknowledged is in the table and its delta was added to every participant
\* who is still there, for lineups of any length, unless the message overtook
\* MatchFound and there was no match yet.
THEOREM AcknowledgedMeansApplied == Spec => []AcknowledgedIsApplied
<1>1. IInv => AcknowledgedIsApplied
  BY DEF IInv
<1> QED
  BY <1>1, InvariantHolds, PTL

\* The write-back of a peak that the recalculation has raised since it was
\* read is the only way a peak can fall.
THEOREM PeaksFallInOneRace == Spec => PeakFallsOnlyInRace
<1>1. IInv /\ [Next]_vars => [PeakStep]_vars
  BY PeakFalls DEF IInv
<1>2. [PeakStep]_vars =>
        [\A p \in Participants :
          peak[p] # None =>
            \/ peak'[p] # None /\ peak'[p] >= peak[p]
            \/ peak'[p] = None /\ p \in gone' \cap Bots
            \/ p \in raised /\ stats.p = p /\ peak'[p] = stats.seen]_vars
  BY DEF PeakStep
<1> QED
  BY <1>1, <1>2, InvariantHolds, PTL DEF Spec, PeakFallsOnlyInRace

=============================================================================
