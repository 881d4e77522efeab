------------------------- MODULE MatchmakingProofs -------------------------
(***************************************************************************)
(* Proofs about Matchmaking for any number of players, queue entries,      *)
(* matches and requests.                                                   *)
(*                                                                         *)
(* What makes the worker safe against redelivery is inductive once it is   *)
(* said how far a handler has come: each entry of the message in hand is   *)
(* still to be looked at, about to be updated, or no longer waiting        *)
(* (Progress); and once it is known that messages are only about entries   *)
(* and matches that were made before (Referenced), for which nothing can   *)
(* be undone: no entry returns to "Waiting".                               *)
(***************************************************************************)
EXTENDS Matchmaking, FiniteSetTheorems, TLAPS

USE DEF IncomingMessage, Publish

-----------------------------------------------------------------------------
(* Type correctness.                                                       *)

LEMMA TypeInit == Init => TypeOK
BY MaxFaultsAssumption DEF Init, TypeOK, QueueStatus, Pc, WorkerPc

\* Every step keeps the types of the tables, the locals and the messages.
LEMMA TypeNext == TypeOK /\ [Next]_vars => TypeOK'
<1> SUFFICES ASSUME TypeOK, [Next]_vars PROVE TypeOK'
  OBVIOUS
<1> USE IdsAssumption, MaxFaultsAssumption
    DEF TypeOK, queueTable, matchTable, request, matchmaker, worker, broker
<1>1. ASSUME NEW q \in Requests, NEW p \in Players, JoinLobby(q, p) PROVE TypeOK'
  BY <1>1 DEF JoinLobby, Pc
<1>2. ASSUME NEW q \in Requests, NEW i \in QueueIds, LeaveFind(q, i) PROVE TypeOK'
  BY <1>2 DEF LeaveFind, Pc
<1>3. ASSUME NEW q \in Requests, JoinCheck(q) PROVE TypeOK'
  BY <1>3 DEF JoinCheck, Goto, Return, Pc
<1>4. ASSUME NEW q \in Requests, JoinInsert(q) PROVE TypeOK'
  <2>1. PICK i \in Unused :
          /\ status' = [status EXCEPT ![i] = "Waiting"]
          /\ player' = [player EXCEPT ![i] = who[q]]
          /\ entry' = [entry EXCEPT ![q] = i]
    BY <1>4 DEF JoinInsert
  <2>2. i \in QueueIds /\ who[q] \in Players
    BY <1>4 DEF JoinInsert, Unused
  <2>3. /\ status' \in [QueueIds -> QueueStatus]
        /\ player' \in [QueueIds -> Players \cup {None}]
        /\ entry' \in [Requests -> QueueIds \cup {None}]
    BY <2>1, <2>2 DEF QueueStatus
  <2>4. \A j \in QueueIds : status'[j] # "None" => player'[j] \in Players
    BY <2>1, <2>2
  <2>5. \A j \in QueueIds : status[j] # "None" => status'[j] # "None"
    BY <2>1, <2>2
  <2>6. /\ pc' = [pc EXCEPT ![q] = "publishJoin"]
        /\ UNCHANGED <<matchTable, who, matchmaker, worker, broker>>
    BY <1>4 DEF JoinInsert
  <2>7. pc' \in [Requests -> Pc] /\ status'[i] # "None"
    BY <2>1, <2>2, <2>6 DEF Pc
  <2>8. \A x \in Requests :
          /\ pc'[x] \in {"checkQueued", "insertEntry"} => who'[x] \in Players
          /\ pc'[x] \in {"publishJoin", "cancelEntry", "publishLeave"} =>
                entry'[x] \in QueueIds /\ status'[entry'[x]] # "None"
    BY <2>1, <2>2, <2>5, <2>6, <2>7
  <2> QED
    BY <2>3, <2>4, <2>6, <2>7, <2>8
<1>5. ASSUME NEW q \in Requests, JoinPublish(q) PROVE TypeOK'
  BY <1>5 DEF JoinPublish, Return, Pc
<1>6. ASSUME NEW q \in Requests, LeaveCancel(q) PROVE TypeOK'
  BY <1>6 DEF LeaveCancel, Exists, SetStatus, Goto, Return, Pc, QueueStatus
<1>7. ASSUME NEW q \in Requests, LeavePublish(q) PROVE TypeOK'
  BY <1>7 DEF LeavePublish, Return, Pc
<1>8. ASSUME NEW q \in Requests, Abort(q) PROVE TypeOK'
  BY <1>8 DEF Abort, Return, Pc
<1>9. ASSUME NEW m \in Matches, NEW S \in SUBSET known, FormMatch(m, S) PROVE TypeOK'
  BY <1>9 DEF FormMatch
<1>10. ASSUME NEW i \in QueueIds, GiveUp(i) PROVE TypeOK'
  BY <1>10 DEF GiveUp
<1>11. ASSUME NEW x \in Matches \cup QueueIds, Consume(x) PROVE TypeOK'
  BY <1>11 DEF Consume, WorkerPc
<1>12. ASSUME NEW i \in QueueIds, FindEntry(i) PROVE TypeOK'
  BY <1>12 DEF FindEntry
<1>13. ASSUME NEW s \in {"InMatch", "Cancelled"}, UpdateEntry(s), wpc # "idle" PROVE TypeOK'
  BY <1>13 DEF UpdateEntry, SetStatus, Requeue, WorkerIdle, WorkerPc, QueueStatus, Exists
<1>14. CASE CancelDone \/ InsertHistory
  BY <1>14 DEF CancelDone, InsertHistory, WorkerGoto, WorkerPc
<1>15. CASE InsertMatch
  BY <1>15 DEF InsertMatch, WorkerGoto, Requeue, WorkerIdle, WorkerPc
<1>16. CASE Acknowledge
  BY <1>16 DEF Acknowledge, WorkerIdle, WorkerPc
<1>17. CASE WorkerFault
  BY <1>17 DEF WorkerFault, Requeue, WorkerIdle, WorkerPc
<1>18. ASSUME NEW S \in SUBSET QueueIds, StaleQueues(S) PROVE TypeOK'
  BY <1>18 DEF StaleQueues, QueueStatus
<1>19. CASE UNCHANGED vars
  BY <1>19 DEF vars
<1>20. CASE Service
  <2> USE DEF Step, JoinStep
  <2> QED
    BY <1>20, <1>1, <1>2, <1>3, <1>4, <1>5, <1>6, <1>7, <1>8 DEF Service
<1>21. CASE Matchmaker
  BY <1>21, <1>9, <1>10 DEF Matchmaker
<1>22. CASE Worker
  <2>1. CASE MarkInMatch \/ CancelEntry
    BY <2>1, <1>13 DEF MarkInMatch, CancelEntry
  <2> QED
    BY <1>22, <2>1, <1>11, <1>12, <1>14, <1>15, <1>16, <1>17 DEF Worker, Handle
<1>23. CASE Cron
  BY <1>23, <1>18 DEF Cron
<1> QED
  BY <1>19, <1>20, <1>21, <1>22, <1>23 DEF Next

\* Tables, locals and messages stay within their types, and every match row
\* refers to a history row.
THEOREM TypeCorrect == Spec => []TypeOK
<1>1. Init => TypeOK
  BY TypeInit
<1>2. TypeOK /\ [Next]_vars => TypeOK'
  BY TypeNext
<1> QED
  BY <1>1, <1>2, PTL DEF Spec

-----------------------------------------------------------------------------
(* What can happen to an entry.                                            *)

LEMMA UnchangedStatus ==
    ASSUME [Next]_vars,
           \A q \in Requests : ~JoinInsert(q) /\ ~LeaveCancel(q),
           ~MarkInMatch, ~CancelEntry, \A S \in SUBSET QueueIds : ~StaleQueues(S)
    PROVE  status' = status /\ player' = player
BY DEF Next, Service, Step, JoinStep, Matchmaker, Worker, Handle, Cron, JoinLobby, LeaveFind, JoinCheck,
       JoinPublish, LeavePublish, Abort, FormMatch, GiveUp, Consume, FindEntry, CancelDone,
       InsertHistory, InsertMatch, Acknowledge, WorkerFault, queueTable, vars

\* An entry that was made stays made, and one that does not wait never does
\* again; what is settled stays settled, what is deleted stays deleted.
LEMMA StatusStep ==
    ASSUME TypeOK, [Next]_vars, NEW i \in QueueIds
    PROVE  /\ status[i] # "None" => status'[i] # "None"
           /\ status[i] \notin {"None", "Waiting"} => status'[i] # "Waiting"
           /\ status[i] \in {"InMatch", "Cancelled"} => status'[i] \in {"InMatch", "Cancelled"}
           /\ status[i] = "Deleted" => status'[i] = "Deleted"
<1>1. ASSUME NEW q \in Requests, JoinInsert(q)
      PROVE  status[i] # "None" => status'[i] = status[i]
  BY <1>1 DEF JoinInsert, Unused, TypeOK
<1>2. ASSUME NEW q \in Requests, LeaveCancel(q)
      PROVE  status'[i] = status[i] \/ (Exists(i) /\ status'[i] = "Cancelled")
  BY <1>2 DEF LeaveCancel, SetStatus, queueTable, TypeOK
<1>3. ASSUME NEW s \in {"InMatch", "Cancelled"}, UpdateEntry(s)
      PROVE  status'[i] = status[i] \/ (Exists(i) /\ status'[i] = s)
  BY <1>3 DEF UpdateEntry, SetStatus, queueTable, TypeOK
<1>4. ASSUME NEW S \in SUBSET QueueIds, StaleQueues(S)
      PROVE  status'[i] = status[i] \/ (status[i] = "Waiting" /\ status'[i] = "Deleted")
  BY <1>4 DEF StaleQueues
<1> QED
  BY <1>1, <1>2, <1>3, <1>4, UnchangedStatus DEF MarkInMatch, CancelEntry, Exists

\* No entry returns to the queue, and no deleted one comes back.
THEOREM LifecycleHolds == Spec => QueueLifecycle
<1>1. TypeOK /\ [Next]_vars =>
        [\A i \in QueueIds :
          /\ status[i] \in {"InMatch", "Cancelled"} => status'[i] \in {"InMatch", "Cancelled"}
          /\ status[i] = "Deleted" => status'[i] = "Deleted"]_vars
  BY StatusStep
<1> QED
  BY <1>1, TypeCorrect, PTL DEF Spec, QueueLifecycle

-----------------------------------------------------------------------------
(* Messages are about entries and matches made before.                     *)

\* Whatever the matchmaking service or a message refers to has been made.
Referenced ==
    /\ \A i \in known : status[i] # "None"
    /\ \A m \in Matches : \A i \in members[m] : status[i] # "None"
    /\ \A i \in QueueIds : i \in inbox \cup acked \cup {wmsg} => status[i] # "None"
    /\ \A m \in Matches : m \in inbox \cup acked \cup matches \cup {wmsg} => members[m] # {}

LEMMA MatchesAreNotEmpty ==
    ASSUME NEW S, Cardinality(S) \in MatchSizes
    PROVE  S # {}
BY MatchSizesAssumption, FS_EmptySet

\* Every step keeps to what has been made.
LEMMA ReferencedNext == TypeOK /\ Referenced /\ [Next]_vars => Referenced'
<1> SUFFICES ASSUME TypeOK, Referenced, [Next]_vars PROVE Referenced'
  OBVIOUS
<1> USE IdsAssumption DEF Referenced
<1>1. \A i \in QueueIds : status[i] # "None" => status'[i] # "None"
  BY StatusStep
<1>2. CASE UNCHANGED <<known, members, matches>> /\ inbox' \cup acked' \cup {wmsg'}
                \subseteq inbox \cup acked \cup {wmsg, None}
  BY <1>1, <1>2 DEF TypeOK
<1>3. ASSUME NEW q \in Requests, JoinPublish(q) PROVE Referenced'
  <2>1. /\ entry[q] \in QueueIds /\ status[entry[q]] # "None"
        /\ known' \subseteq known \cup {entry[q]}
        /\ UNCHANGED <<members, matches, inbox, acked, wmsg>>
    BY <1>3 DEF JoinPublish, TypeOK, matchTable, worker, broker
  <2> QED
    BY <1>1, <2>1 DEF TypeOK
<1>4. ASSUME NEW q \in Requests, LeavePublish(q) PROVE Referenced'
  <2>1. known' \subseteq known /\ UNCHANGED <<members, matches, inbox, acked, wmsg>>
    BY <1>4 DEF LeavePublish, matchTable, worker, broker
  <2> QED
    BY <1>1, <2>1 DEF TypeOK
<1>5. ASSUME NEW m \in Matches, NEW S \in SUBSET known, FormMatch(m, S) PROVE Referenced'
  <2>1. /\ S # {} /\ members' = [members EXCEPT ![m] = S] /\ known' \subseteq known
        /\ inbox' = inbox \cup {m} /\ UNCHANGED <<matches, acked, wmsg, status>>
    BY <1>5, MatchesAreNotEmpty DEF FormMatch, matchTable, worker, queueTable
  <2> QED
    BY <2>1 DEF TypeOK
<1>6. ASSUME NEW i \in QueueIds, GiveUp(i) PROVE Referenced'
  BY <1>6 DEF GiveUp, matchTable, worker, queueTable, TypeOK
<1>7. CASE InsertMatch
  <2>1. /\ wmsg \in Matches /\ matches' \subseteq matches \cup {wmsg}
        /\ inbox' \cup acked' \cup {wmsg'} \subseteq inbox \cup acked \cup {wmsg, None}
        /\ UNCHANGED <<known, members, status>>
    BY <1>7 DEF InsertMatch, TypeOK, WorkerGoto, Requeue, WorkerIdle, broker, matchmaker,
                queueTable
  <2> QED
    BY <2>1
<1>8. CASE Service
  <2>1. UNCHANGED <<known, members, matches, inbox, acked, wmsg>> \/ \E q \in Requests :
           JoinPublish(q) \/ LeavePublish(q)
    BY <1>8 DEF Service, Step, JoinStep, JoinLobby, LeaveFind, JoinCheck, JoinInsert, LeaveCancel, Abort,
                matchTable, matchmaker, worker, broker
  <2> QED
    BY <2>1, <1>2, <1>3, <1>4
<1>9. CASE Worker /\ ~InsertMatch
  <2>1. ASSUME NEW s, UpdateEntry(s)
        PROVE  UNCHANGED <<known, members, matches>> /\ inbox' \cup acked' \cup {wmsg'}
                  \subseteq inbox \cup acked \cup {wmsg, None}
    BY <2>1 DEF UpdateEntry, Requeue, WorkerIdle, matchTable, matchmaker, broker
  <2>2. UNCHANGED <<known, members, matches>> /\ inbox' \cup acked' \cup {wmsg'}
            \subseteq inbox \cup acked \cup {wmsg, None}
    BY <1>9, <2>1
       DEF Worker, Handle, Consume, FindEntry, MarkInMatch, CancelEntry, CancelDone, InsertHistory,
           Acknowledge, WorkerFault, WorkerGoto, Requeue, WorkerIdle, matchTable, matchmaker, broker
  <2> QED
    BY <2>2, <1>2
<1>10. CASE Cron \/ UNCHANGED vars
  BY <1>10, <1>2 DEF Cron, StaleQueues, vars, matchTable, matchmaker, worker, broker
<1> QED
  BY <1>5, <1>6, <1>7, <1>8, <1>9, <1>10 DEF Next, Matchmaker

\* Match and history rows are never removed.
LEMMA TablesGrow ==
    ASSUME [Next]_vars
    PROVE  history \subseteq history' /\ matches \subseteq matches'
BY DEF Next, Service, Step, JoinStep, Matchmaker, Worker, Handle, Cron, JoinLobby, LeaveFind, JoinCheck,
       JoinInsert, JoinPublish, LeaveCancel, LeavePublish, Abort, FormMatch, GiveUp, Consume,
       FindEntry, MarkInMatch, CancelEntry, UpdateEntry, CancelDone, InsertHistory, InsertMatch,
       Acknowledge, WorkerFault, StaleQueues, matchTable, vars

\* The members of a match that was made are not changed.
LEMMA MembersKept ==
    ASSUME TypeOK, [Next]_vars, NEW m \in Matches, members[m] # {}
    PROVE  members'[m] = members[m]
<1>1. ASSUME NEW n \in Matches, NEW S \in SUBSET known, FormMatch(n, S)
      PROVE  members'[m] = members[m]
  BY <1>1 DEF FormMatch, TypeOK
<1>2. ASSUME NEW i \in QueueIds, GiveUp(i)
      PROVE  members' = members
  BY <1>2 DEF GiveUp
<1>3. CASE Service \/ Worker \/ Cron \/ UNCHANGED vars
  BY <1>3
     DEF Service, Step, JoinStep, Worker, Handle, Cron, JoinLobby, LeaveFind, JoinCheck, JoinInsert,
         JoinPublish, LeaveCancel, LeavePublish, Abort, Consume, FindEntry, MarkInMatch,
         CancelEntry, UpdateEntry, CancelDone, InsertHistory, InsertMatch, Acknowledge,
         WorkerFault, StaleQueues, matchmaker, vars
<1> QED
  BY <1>1, <1>2, <1>3 DEF Next, Matchmaker

LEMMA MembersCount ==
    ASSUME TypeOK, NEW m \in Matches
    PROVE  Cardinality(members[m]) \in Nat
BY MatchmakingFinite, FS_Subset, FS_CardinalityType DEF TypeOK

-----------------------------------------------------------------------------
(* How far the worker has come with a message.                             *)

\* What an acknowledgement of x says.
Done(x) ==
    /\ x \in QueueIds => status[x] # "Waiting"
    /\ x \in Matches =>
        /\ \A i \in members[x] : status[i] # "Waiting"
        /\ x \in history
        /\ Cardinality(members[x]) >= MinParticipants => x \in matches

\* The worker has still to look at entry i, is about to update it, or it does
\* not wait any more.
Passed(i) == i \in wtodo \/ i = wentry \/ status[i] # "Waiting"

Progress ==
    /\ wpc = "markMembers" => \A i \in members[wmsg] : Passed(i)
    /\ wpc = "insertMatch" => \A i \in members[wmsg] : status[i] # "Waiting"
    /\ wpc = "cancelEntry" => Passed(wmsg)
    /\ wpc = "ack" => Done(wmsg)
    /\ \A x \in acked : Done(x)
    /\ \A m \in matches : \A i \in members[m] : status[i] # "Waiting"

WorkerInv == TypeOK /\ Referenced /\ Progress

\* What is done stays done.
LEMMA DoneStays ==
    ASSUME WorkerInv, [Next]_vars, NEW x \in inbox \cup acked \cup {wmsg}, Done(x)
    PROVE  Done(x)'
<1> USE IdsAssumption DEF WorkerInv, Referenced
<1>1. \A i \in QueueIds : status[i] \notin {"None", "Waiting"} => status'[i] # "Waiting"
  BY StatusStep
<1>2. x \in Matches => members'[x] = members[x]
  BY MembersKept
<1>3. history \subseteq history' /\ matches \subseteq matches'
  BY TablesGrow
<1>4. /\ x \in QueueIds => status[x] # "None"
      /\ x \in Matches => \A i \in members[x] : i \in QueueIds /\ status[i] # "None"
  BY DEF TypeOK
<1> QED
  BY <1>1, <1>2, <1>3, <1>4 DEF Done

\* Every step keeps the account of the worker's progress.
LEMMA ProgressNext == WorkerInv /\ [Next]_vars => Progress'
<1> SUFFICES ASSUME WorkerInv, [Next]_vars PROVE Progress'
  OBVIOUS
<1> USE IdsAssumption DEF WorkerInv, Referenced
<1>1. \A i \in QueueIds : status[i] \notin {"None", "Waiting"} => status'[i] # "Waiting"
  BY StatusStep
<1>2. \A x \in inbox \cup acked \cup {wmsg} : Done(x) => Done(x)'
  BY DoneStays
<1>3. \A m \in matches : members'[m] = members[m] /\ \A i \in members'[m] : status'[i] # "Waiting"
  <2>1. \A m \in matches : members'[m] = members[m]
    BY MembersKept DEF TypeOK
  <2> QED
    BY <1>1, <2>1 DEF Progress, TypeOK
<1>4. wpc # "idle" => members'[wmsg] = members[wmsg] \/ wmsg \in QueueIds
  BY MembersKept DEF TypeOK
\* Steps that leave worker, messages and match rows alone.
<1>5. CASE UNCHANGED <<matches, wmsg, wpc, wtodo, wentry, acked>>
  <2>1. \A i \in QueueIds : status[i] # "None" /\ Passed(i) => Passed(i)'
    BY <1>1, <1>5 DEF Passed
  <2>2. wpc = "markMembers" => \A i \in members'[wmsg] : Passed(i)'
    BY <1>4, <2>1 DEF Progress, TypeOK
  <2>3. wpc = "insertMatch" => \A i \in members'[wmsg] : status'[i] # "Waiting"
    BY <1>1, <1>4 DEF Progress, TypeOK
  <2>4. wpc = "cancelEntry" => Passed(wmsg)'
    BY <1>5, <2>1 DEF Progress, TypeOK, Passed
  <2>5. wpc = "ack" => Done(wmsg)'
    BY <1>2, <1>5 DEF Progress, Done
  <2>6. \A x \in acked : Done(x)'
    BY <1>2 DEF Progress
  <2> QED
    BY <1>3, <1>5, <2>2, <2>3, <2>4, <2>5, <2>6 DEF Progress
\* Steps that end the handling of a message without acknowledging it.
<1>6. CASE wpc' = "idle" /\ matches' = matches /\ acked' = acked
  BY <1>2, <1>3, <1>6 DEF Progress
<1>7. ASSUME NEW x \in Matches \cup QueueIds, Consume(x) PROVE Progress'
  <2>1. \A y \in acked : Done(y)'
    BY <1>2 DEF Progress
  <2>2. /\ acked' = acked /\ matches' = matches /\ members' = members /\ wmsg' = x
        /\ \/ x \in Matches /\ wpc' = "markMembers" /\ wtodo' = members[x]
           \/ x \in QueueIds /\ wpc' = "cancelEntry" /\ wtodo' = {x}
    BY <1>7 DEF Consume, matchTable, matchmaker
  <2> QED
    BY <1>3, <2>1, <2>2 DEF Progress, Passed
<1>8. ASSUME NEW i \in QueueIds, FindEntry(i) PROVE Progress'
  <2>1. /\ wentry = None /\ wtodo' = wtodo \ {i}
        /\ wentry' = IF Exists(i) THEN i ELSE None
        /\ UNCHANGED <<wmsg, wpc, status, members, matches, history, acked>>
    BY <1>8 DEF FindEntry, queueTable, matchTable, matchmaker, broker
  <2>2. \A j \in QueueIds : Passed(j) => Passed(j)'
    BY <2>1 DEF Passed, Exists
  <2>3. \A x : Done(x)' <=> Done(x)
    BY <2>1 DEF Done
  <2> QED
    BY <2>1, <2>2, <2>3 DEF Progress, TypeOK
<1>9. ASSUME NEW s \in {"InMatch", "Cancelled"}, UpdateEntry(s), wpc \in {"markMembers", "cancelEntry"}
      PROVE  Progress'
  <2>1. CASE Requeue
    BY <1>6, <1>9, <2>1 DEF UpdateEntry, Requeue, WorkerIdle, matchTable, broker, SetStatus
  <2>2. CASE ~Requeue
    <3>1. /\ wentry \in QueueIds /\ status' = [status EXCEPT ![wentry] = s] /\ wentry' = None
          /\ UNCHANGED <<wmsg, wpc, wtodo, acked, matches, members, history>>
      BY <1>9, <2>2 DEF UpdateEntry, SetStatus, Exists, broker, matchTable, matchmaker, TypeOK
    <3>2. \A j \in QueueIds : Passed(j) => Passed(j)'
      BY <3>1 DEF Passed, TypeOK
    <3> QED
      BY <1>2, <1>3, <1>9, <3>1, <3>2 DEF Progress, TypeOK
  <2> QED
    BY <2>1, <2>2
<1>10. CASE CancelDone
  <2>1. /\ wpc' = "ack" /\ wtodo = {} /\ wentry = None /\ wmsg \in QueueIds
        /\ wpc = "cancelEntry"
        /\ UNCHANGED <<wmsg, status, members, matches, history, acked>>
    BY <1>10 DEF CancelDone, WorkerGoto, queueTable, matchTable, matchmaker, broker, TypeOK
  <2>2. Done(wmsg)
    BY <2>1 DEF Progress, Passed, Done
  <2> QED
    BY <1>2, <1>3, <2>1, <2>2 DEF Progress
<1>11. CASE InsertHistory
  <2>1. /\ wtodo = {} /\ wentry = None /\ wmsg \in Matches /\ wpc = "markMembers"
        /\ history' = history \cup {wmsg}
        /\ \/ wpc' = "insertMatch"
           \/ wpc' = "ack" /\ Cardinality(members[wmsg]) < MinParticipants
        /\ UNCHANGED <<wmsg, status, members, matches, acked>>
    BY <1>11 DEF InsertHistory, WorkerGoto, queueTable, matchmaker, broker, TypeOK
  <2>2. \A i \in members[wmsg] : status[i] # "Waiting"
    BY <2>1 DEF Progress, Passed, TypeOK
  <2>3. wpc' = "ack" => Done(wmsg)'
    <3>1. SUFFICES ASSUME wpc' = "ack" PROVE Done(wmsg)'
      OBVIOUS
    <3>2. Cardinality(members[wmsg]) < MinParticipants
      BY <2>1, <3>1
    <3>3. Cardinality(members[wmsg]) \in Nat
      BY MembersCount, <2>1
    <3>4. ~(Cardinality(members[wmsg]) >= MinParticipants)
      BY <3>2, <3>3 DEF MinParticipants
    <3> QED
      BY <2>1, <2>2, <3>4 DEF Done
  <2> QED
    BY <1>2, <1>3, <2>1, <2>2, <2>3 DEF Progress
<1>12. CASE InsertMatch
  <2>1. CASE wmsg \in matches
    BY <1>6, <1>12, <2>1 DEF InsertMatch, Requeue, WorkerIdle
  <2>2. CASE wmsg \notin matches
    <3>1. /\ wpc = "insertMatch" /\ wmsg \in Matches /\ wmsg \in history
          /\ matches' = matches \cup {wmsg} /\ wpc' = "ack"
          /\ UNCHANGED <<wmsg, status, members, history, acked>>
      BY <1>12, <2>2 DEF InsertMatch, WorkerGoto, queueTable, matchmaker, broker, TypeOK
    <3>2. \A i \in members[wmsg] : status[i] # "Waiting"
      BY <3>1 DEF Progress
    <3>3. Done(wmsg)'
      BY <3>1, <3>2 DEF Done
    <3>4. \A x \in acked : Done(x)'
      BY <1>2 DEF Progress
    <3> QED
      BY <1>3, <3>1, <3>2, <3>3, <3>4 DEF Progress
  <2> QED
    BY <2>1, <2>2
<1>13. CASE Acknowledge
  <2>1. /\ wpc = "ack" /\ wpc' = "idle" /\ acked' = acked \cup {wmsg} /\ matches' = matches
    BY <1>13 DEF Acknowledge, WorkerIdle, matchTable
  <2> QED
    BY <1>2, <1>3, <2>1 DEF Progress
<1>14. CASE WorkerFault
  BY <1>6, <1>14 DEF WorkerFault, Requeue, WorkerIdle, matchTable
<1>15. CASE Service \/ Matchmaker \/ Cron \/ UNCHANGED vars
  BY <1>5, <1>15
     DEF Service, Step, JoinStep, Matchmaker, Cron, JoinLobby, JoinCheck, JoinInsert, JoinPublish, LeaveFind,
         LeaveCancel, LeavePublish, Abort, FormMatch, GiveUp, StaleQueues, vars, matchTable,
         worker, broker
<1> QED
  BY <1>7, <1>8, <1>9, <1>10, <1>11, <1>12, <1>13, <1>14, <1>15
     DEF Next, Worker, Handle, MarkInMatch, CancelEntry

\* The account holds throughout.
LEMMA WorkerInvHolds == Spec => []WorkerInv
<1>1. Init => WorkerInv
  BY TypeInit, IdsAssumption DEF Init, WorkerInv, Referenced, Progress
<1>2. WorkerInv /\ [Next]_vars => WorkerInv'
  BY TypeNext, ReferencedNext, ProgressNext DEF WorkerInv
<1> QED
  BY <1>1, <1>2, PTL DEF Spec

\* Nobody in a recorded match is still waiting in the queue.
THEOREM MatchedHaveLeft == Spec => []MatchedHaveLeftQueue
<1>1. WorkerInv => MatchedHaveLeftQueue
  BY DEF WorkerInv, TypeOK, Referenced, Progress, MatchedHaveLeftQueue
<1> QED
  BY <1>1, WorkerInvHolds, PTL

\* An acknowledged message was carried out, however often it was delivered
\* and wherever the worker failed over it.
THEOREM AcknowledgedMeansDone == Spec => []AcknowledgedIsDone
<1>1. WorkerInv => AcknowledgedIsDone
  BY DEF WorkerInv, Progress, Done, AcknowledgedIsDone
<1> QED
  BY <1>1, WorkerInvHolds, PTL

-----------------------------------------------------------------------------
(* How many entries of one player wait.                                    *)

LEMMA BudgetSets ==
    ASSUME NEW p
    PROVE  /\ Waiting(p) \in SUBSET QueueIds /\ Waiting(p)' \in SUBSET QueueIds
           /\ Joining(p) \in SUBSET Requests /\ Joining(p)' \in SUBSET Requests
BY DEF Waiting, Joining

LEMMA Counts ==
    ASSUME NEW S \in SUBSET QueueIds, NEW A \in SUBSET Requests
    PROVE  /\ IsFiniteSet(S) /\ Cardinality(S) \in Nat
           /\ IsFiniteSet(A) /\ Cardinality(A) \in Nat /\ Cardinality(Requests) \in Nat
           /\ Cardinality(A) <= Cardinality(Requests)
BY MatchmakingFinite, FS_Subset, FS_CardinalityType

LEMMA AddOne ==
    ASSUME NEW S \in SUBSET QueueIds, NEW i \in QueueIds
    PROVE  IsFiniteSet(S \cup {i}) /\ Cardinality(S \cup {i}) <= Cardinality(S) + 1
<1>1. IsFiniteSet(S) /\ Cardinality(S) \in Nat
  BY Counts
<1>2. /\ IsFiniteSet(S \cup {i})
      /\ Cardinality(S \cup {i}) = IF i \in S THEN Cardinality(S) ELSE Cardinality(S) + 1
  BY <1>1, FS_AddElement
<1> QED
  BY <1>1, <1>2

\* Only a join adds to the Waiting entries of a player.
LEMMA WaitingStep ==
    ASSUME TypeOK, [Next]_vars, NEW p \in Players, \A q \in Requests : ~JoinInsert(q)
    PROVE  Waiting(p)' \subseteq Waiting(p)
<1>1. ASSUME NEW q \in Requests, LeaveCancel(q) PROVE Waiting(p)' \subseteq Waiting(p)
  BY <1>1 DEF LeaveCancel, SetStatus, queueTable, Waiting, TypeOK
<1>2. ASSUME NEW s \in {"InMatch", "Cancelled"}, UpdateEntry(s)
      PROVE  Waiting(p)' \subseteq Waiting(p)
  BY <1>2 DEF UpdateEntry, SetStatus, queueTable, Waiting, TypeOK
<1>3. ASSUME NEW S \in SUBSET QueueIds, StaleQueues(S) PROVE Waiting(p)' \subseteq Waiting(p)
  BY <1>3 DEF StaleQueues, Waiting
<1>4. CASE status' = status /\ player' = player
  BY <1>4 DEF Waiting
<1> QED
  BY <1>1, <1>2, <1>3, <1>4, UnchangedStatus DEF MarkInMatch, CancelEntry

\* Only a check that finds no Waiting entry adds to the requests that will
\* insert one.
LEMMA JoiningStep ==
    ASSUME TypeOK, [Next]_vars, NEW p \in Players,
           \A q \in Requests : ~(JoinCheck(q) /\ Waiting(p) = {})
    PROVE  Joining(p)' \subseteq Joining(p)
<1>1. CASE UNCHANGED <<pc, who>>
  BY <1>1 DEF Joining
<1>2. ASSUME NEW q \in Requests, NEW x \in Players, JoinLobby(q, x)
      PROVE  Joining(p)' \subseteq Joining(p)
  BY <1>2 DEF JoinLobby, Joining, TypeOK
<1>3. ASSUME NEW q \in Requests, NEW i \in QueueIds, LeaveFind(q, i)
      PROVE  Joining(p)' \subseteq Joining(p)
  BY <1>3 DEF LeaveFind, Joining, TypeOK
<1>4. ASSUME NEW q \in Requests, JoinCheck(q)
      PROVE  Joining(p)' \subseteq Joining(p)
  <2>1. Waiting(p) # {}
    BY <1>4
  <2> QED
    BY <1>4, <2>1 DEF JoinCheck, Goto, Return, Joining, TypeOK
<1>5. ASSUME NEW q \in Requests, JoinInsert(q)
      PROVE  Joining(p)' \subseteq Joining(p)
  BY <1>5 DEF JoinInsert, Joining, TypeOK
<1>6. ASSUME NEW q \in Requests,
             Return(q) \/ \E next \in Pc \ {"insertEntry"} : Goto(q, next)
      PROVE  Joining(p)' \subseteq Joining(p)
  BY <1>6 DEF Return, Goto, Joining, TypeOK
<1>7. CASE Service
  BY <1>7, <1>2, <1>3, <1>4, <1>5, <1>6
     DEF Service, Step, JoinStep, JoinPublish, LeaveCancel, LeavePublish, Abort, Pc
<1>8. CASE Matchmaker \/ Worker \/ Cron \/ UNCHANGED vars
  BY <1>8, <1>1
     DEF Matchmaker, FormMatch, GiveUp, Worker, Handle, Consume, FindEntry, MarkInMatch, CancelEntry,
         UpdateEntry, CancelDone, InsertHistory, InsertMatch, Acknowledge, WorkerFault, Cron,
         StaleQueues, request, vars
<1> QED
  BY <1>7, <1>8 DEF Next

\* One player's share of QueueBudget.
Budget(p) == Cardinality(Waiting(p)) + Cardinality(Joining(p)) <= Cardinality(Requests)

\* Every step keeps the budget of every player.
LEMMA BudgetNext ==
    ASSUME TypeOK, [Next]_vars, NEW p \in Players, Budget(p)
    PROVE  Budget(p)'
<1> DEFINE K == Cardinality(Requests)
<1> DEFINE W == Waiting(p)
<1> DEFINE A == Joining(p)
<1>1. /\ W \in SUBSET QueueIds /\ W' \in SUBSET QueueIds
      /\ A \in SUBSET Requests /\ A' \in SUBSET Requests
  BY BudgetSets
<1>2. /\ Cardinality(W) \in Nat /\ Cardinality(W') \in Nat
      /\ Cardinality(A) \in Nat /\ Cardinality(A') \in Nat
      /\ Cardinality(A') <= K /\ K \in Nat
  BY <1>1, Counts
<1>3. IsFiniteSet(W) /\ IsFiniteSet(A)
  BY <1>1, Counts
<1>4. Cardinality(W) + Cardinality(A) <= K
  BY DEF Budget
<1>5. SUFFICES Cardinality(W') + Cardinality(A') <= K
  BY DEF Budget
<1>6. CASE \E q \in Requests : JoinCheck(q) /\ Waiting(p) = {}
  <2>1. W' = {}
    BY <1>6 DEF JoinCheck, queueTable, Waiting
  <2>2. Cardinality(W') = 0
    BY <2>1, FS_EmptySet
  <2> QED
    BY <1>2, <2>2
<1>7. CASE \A q \in Requests : ~(JoinCheck(q) /\ Waiting(p) = {})
  <2>1. A' \subseteq A
    BY <1>7, JoiningStep
  <2>2. Cardinality(A') <= Cardinality(A)
    BY <1>3, <2>1, FS_Subset
  <2>3. ASSUME W' \subseteq W PROVE Cardinality(W') + Cardinality(A') <= K
    <3>1. Cardinality(W') <= Cardinality(W)
      BY <1>3, <2>3, FS_Subset
    <3> QED
      BY <1>2, <1>4, <2>2, <3>1
  <2>4. CASE \A q \in Requests : ~JoinInsert(q)
    BY <2>3, <2>4, WaitingStep
  <2>5. ASSUME NEW q \in Requests, JoinInsert(q)
        PROVE  Cardinality(W') + Cardinality(A') <= K
    <3>1. PICK i \in Unused :
            /\ status' = [status EXCEPT ![i] = "Waiting"]
            /\ player' = [player EXCEPT ![i] = who[q]]
      BY <2>5 DEF JoinInsert
    <3>2. i \in QueueIds
      BY DEF Unused
    <3>3. CASE who[q] # p
      <4>1. W' \subseteq W
        BY <3>1, <3>2, <3>3 DEF Waiting, TypeOK
      <4> QED
        BY <2>3, <4>1
    <3>4. CASE who[q] = p
      <4>1. W' \subseteq W \cup {i}
        BY <3>1, <3>2 DEF Waiting, TypeOK
      <4>2. q \in A /\ q \notin A'
        BY <2>5, <3>4 DEF JoinInsert, Joining, TypeOK
      <4>3. A' \subseteq A \ {q}
        BY <2>1, <4>2
      <4>4. IsFiniteSet(W \cup {i}) /\ Cardinality(W \cup {i}) <= Cardinality(W) + 1
        BY <1>1, <3>2, AddOne
      <4>5. IsFiniteSet(A \ {q}) /\ Cardinality(A \ {q}) = Cardinality(A) - 1
        BY <1>3, <4>2, FS_RemoveElement
      <4>6. Cardinality(W') <= Cardinality(W \cup {i})
        BY <4>1, <4>4, FS_Subset
      <4>7. Cardinality(A') <= Cardinality(A \ {q})
        BY <4>3, <4>5, FS_Subset
      <4>8. Cardinality(W \cup {i}) \in Nat
        BY <4>4, FS_CardinalityType
      <4>9. Cardinality(A \ {q}) \in Nat
        BY <4>5, FS_CardinalityType
      <4> QED
        BY <1>2, <1>4, <4>4, <4>5, <4>6, <4>7, <4>8, <4>9
    <3> QED
      BY <3>3, <3>4
  <2> QED
    BY <2>4, <2>5
<1> QED
  BY <1>6, <1>7

\* A player waits in the queue at most as often as there are simultaneous
\* requests: once if requests are handled one at a time.
THEOREM QueueBudgetHolds == Spec => []QueueBudget
<1>1. Init => QueueBudget
  <2> SUFFICES ASSUME Init, NEW p \in Players PROVE Budget(p)
    BY DEF QueueBudget, Budget
  <2>1. Waiting(p) = {} /\ Joining(p) = {}
    BY DEF Init, Waiting, Joining
  <2>2. Cardinality(Requests) \in Nat
    BY MatchmakingFinite, FS_CardinalityType
  <2> QED
    BY <2>1, <2>2, FS_EmptySet DEF Budget
<1>2. TypeOK /\ QueueBudget /\ [Next]_vars => QueueBudget'
  BY BudgetNext DEF QueueBudget, Budget
<1> QED
  BY <1>1, <1>2, TypeCorrect, PTL DEF Spec

-----------------------------------------------------------------------------
(* The queue implements CheckThenInsert.                                   *)

\* What a step may do to the entries of a player: nothing or end some, pass
\* the check, turn the promise into a row, or drop it.
Rest(p) == Joining(p)' = Joining(p) /\ Waiting(p)' \subseteq Waiting(p)
Promised(p, q) ==
    /\ q \notin Joining(p) /\ Joining(p)' = Joining(p) \cup {q}
    /\ Waiting(p) = {} /\ Waiting(p)' = {}
Settled(p, q) ==
    /\ q \in Joining(p) /\ Joining(p)' = Joining(p) \ {q}
    /\ \/ Waiting(p)' = Waiting(p)
       \/ \E i \in QueueIds : i \notin Waiting(p) /\ Waiting(p)' = Waiting(p) \cup {i}

LEMMA QueueMoves ==
    ASSUME TypeOK, [Next]_vars, NEW p \in Players
    PROVE  Rest(p) \/ \E q \in Requests : Promised(p, q) \/ Settled(p, q)
<1>1. ASSUME NEW q \in Requests, JoinInsert(q)
      PROVE  Rest(p) \/ Settled(p, q)
  <2>1. PICK i \in QueueIds :
          /\ status[i] = "None"
          /\ status' = [status EXCEPT ![i] = "Waiting"]
          /\ player' = [player EXCEPT ![i] = who[q]]
    BY <1>1 DEF JoinInsert, Unused
  <2>2. /\ pc[q] = "insertEntry" /\ pc' = [pc EXCEPT ![q] = "publishJoin"] /\ who' = who
    BY <1>1 DEF JoinInsert
  <2>3. Joining(p)' = Joining(p) \ {q}
    BY <2>2 DEF Joining, TypeOK
  <2>4. CASE who[q] = p
    <3>1. i \notin Waiting(p) /\ Waiting(p)' = Waiting(p) \cup {i}
      BY <2>1, <2>4 DEF Waiting, TypeOK
    <3>2. q \in Joining(p)
      BY <2>2, <2>4 DEF Joining
    <3> QED
      BY <2>3, <3>1, <3>2 DEF Settled
  <2>5. CASE who[q] # p
    <3>1. Waiting(p)' = Waiting(p)
      BY <2>1, <2>5 DEF Waiting, TypeOK
    <3>2. q \notin Joining(p)
      BY <2>5 DEF Joining
    <3> QED
      BY <2>3, <3>1, <3>2 DEF Rest
  <2> QED
    BY <2>4, <2>5
<1>2. ASSUME NEW q \in Requests, JoinCheck(q)
      PROVE  Rest(p) \/ Promised(p, q)
  <2>1. pc[q] = "checkQueued" /\ Waiting(p)' = Waiting(p)
    BY <1>2 DEF JoinCheck, queueTable, Waiting
  <2>2. CASE Return(q)
    BY <2>1, <2>2 DEF Return, Rest, Joining, TypeOK
  <2>3. CASE Goto(q, "insertEntry") /\ Waiting(who[q]) = {}
    <3>1. pc' = [pc EXCEPT ![q] = "insertEntry"] /\ who' = who
      BY <2>3 DEF Goto
    <3>2. CASE who[q] = p
      BY <2>1, <2>3, <3>1, <3>2 DEF Promised, Joining, TypeOK
    <3>3. CASE who[q] # p
      BY <2>1, <3>1, <3>3 DEF Rest, Joining, TypeOK
    <3> QED
      BY <3>2, <3>3
  <2> QED
    BY <1>2, <2>2, <2>3 DEF JoinCheck
<1>3. ASSUME \A q \in Requests : ~JoinInsert(q), Joining(p)' = Joining(p)
      PROVE  Rest(p)
  BY <1>3, WaitingStep DEF Rest
<1>4. ASSUME NEW q \in Requests,
             (\E x \in Players : JoinLobby(q, x)) \/ (\E i \in QueueIds : LeaveFind(q, i))
      PROVE  Rest(p)
  BY <1>4 DEF JoinLobby, LeaveFind, queueTable, Joining, Waiting, Rest, TypeOK
<1>5. ASSUME NEW q \in Requests, JoinPublish(q) \/ LeaveCancel(q) \/ LeavePublish(q)
      PROVE  Rest(p)
  <2>1. /\ pc[q] \in Pc \ {"insertEntry"}
        /\ Return(q) \/ Goto(q, "publishLeave")
    BY <1>5 DEF JoinPublish, LeaveCancel, LeavePublish, TypeOK
  <2>2. Joining(p)' = Joining(p)
    BY <2>1 DEF Return, Goto, Joining, TypeOK
  <2>3. ASSUME NEW x \in Requests, JoinInsert(x) PROVE FALSE
    BY <2>1, <2>3 DEF JoinInsert, Return, Goto, TypeOK
  <2> QED
    BY <1>3, <2>2, <2>3
<1>6. ASSUME NEW q \in Requests, Abort(q)
      PROVE  Rest(p) \/ Settled(p, q)
  <2>1. Return(q) /\ Waiting(p)' = Waiting(p)
    BY <1>6 DEF Abort, queueTable, Waiting
  <2>2. Joining(p)' = Joining(p) \ {q}
    BY <2>1 DEF Return, Joining, TypeOK
  <2> QED
    BY <2>1, <2>2 DEF Rest, Settled
<1>7. CASE Matchmaker \/ Worker \/ Cron \/ UNCHANGED vars
  <2>1. UNCHANGED <<pc, who>>
    BY <1>7
       DEF Matchmaker, FormMatch, GiveUp, Worker, Handle, Consume, FindEntry, MarkInMatch, CancelEntry,
           UpdateEntry, CancelDone, InsertHistory, InsertMatch, Acknowledge, WorkerFault, Cron,
           StaleQueues, request, vars
  <2>2. Joining(p)' = Joining(p) /\ \A q \in Requests : ~JoinInsert(q)
    BY <2>1 DEF Joining, JoinInsert, TypeOK
  <2> QED
    BY <1>3, <2>2
<1>8. CASE Service
  BY <1>8, <1>1, <1>2, <1>4, <1>5, <1>6 DEF Service, Step, JoinStep
<1> QED
  BY <1>7, <1>8 DEF Next

LEMMA QueueKeys ==
    ASSUME TypeOK, [Next]_vars, NEW p \in Players
    PROVE  Checks!KeyStep(p)
<1>1. /\ Waiting(p) \in SUBSET QueueIds /\ Waiting(p)' \in SUBSET QueueIds
  BY BudgetSets
<1>2. /\ IsFiniteSet(Waiting(p)) /\ Cardinality(Waiting(p)) \in Nat
      /\ Cardinality(Waiting(p)') \in Nat
  BY <1>1, Counts
<1>3. CASE Rest(p)
  <2>1. Cardinality(Waiting(p)') <= Cardinality(Waiting(p))
    BY <1>2, <1>3, FS_Subset DEF Rest
  <2>2. Cardinality(Waiting(p)') \in 0 .. Cardinality(Waiting(p))
    BY <1>2, <2>1
  <2>3. Checks!Remove(p)
    BY <1>3, <2>2 DEF Checks!Remove, Rest
  <2> QED
    BY <2>3 DEF Checks!KeyStep
<1>4. ASSUME NEW q \in Requests, Promised(p, q) PROVE Checks!KeyStep(p)
  <2>1. Cardinality(Waiting(p)) = 0 /\ Cardinality(Waiting(p)') = 0
    BY <1>4, FS_EmptySet DEF Promised
  <2>2. Checks!Pass(p, q)
    BY <1>4, <2>1 DEF Checks!Pass, Promised
  <2> QED
    BY <2>2 DEF Checks!KeyStep
<1>5. ASSUME NEW q \in Requests, Settled(p, q) PROVE Checks!KeyStep(p)
  <2>1. Cardinality(Waiting(p)') \in {Cardinality(Waiting(p)), Cardinality(Waiting(p)) + 1}
    BY <1>2, <1>5, FS_AddElement DEF Settled
  <2>2. Checks!Leave(p, q)
    BY <1>5, <2>1 DEF Checks!Leave, Settled
  <2> QED
    BY <2>2 DEF Checks!KeyStep
<1> QED
  BY <1>3, <1>4, <1>5, QueueMoves

\* Entries of the queue come and go as CheckThenInsert says, whatever the
\* worker, the cleanup and other requests do to the rows meanwhile.
THEOREM QueueKeepsChecks == Spec => ChecksAreKept
<1>1. Init => Checks!Init
  <2> SUFFICES ASSUME Init PROVE Checks!Init
    OBVIOUS
  <2>1. ASSUME NEW p \in Players PROVE Cardinality(Waiting(p)) = 0 /\ Joining(p) = {}
    BY FS_EmptySet DEF Init, Waiting, Joining
  <2> QED
    BY <2>1 DEF Checks!Init
<1>2. TypeOK /\ [Next]_vars => Checks!Next
  BY QueueKeys DEF Checks!Next
<1> QED
  BY <1>1, <1>2, TypeCorrect, PTL DEF Spec, ChecksAreKept, Checks!Spec
=============================================================================
