---------------------------- MODULE Matchmaking ----------------------------
(***************************************************************************)
(* The matchmaking queue: the handlers join_queue, join_queue_as_bot and   *)
(* leave_queue of src/src/api/matchmaking.rs, the broker, the external     *)
(* matchmaking service, the worker's handlers for MatchFound and           *)
(* QueueCancelled (src/src/worker.rs, src/src/queue/client.rs) and the     *)
(* cron job src/src/jobs/cleanup/stale_queues.rs.                          *)
(*                                                                         *)
(* All of them work on the table queue without transactions.  An action is *)
(* one database statement or one message step of one of them.  A player is *)
(* a human or a bot: the two kinds differ in whom the service lets call    *)
(* the operation for them, not in what the operation does.                 *)
(*                                                                         *)
(* The matchmaking service and the broker are not in the repository; they  *)
(* are modelled from the messages the code sends and expects.  A publish   *)
(* reaches the service or is lost (queue/provider.rs drops it when there   *)
(* is no connection; a failure is only logged).  The worker's queue        *)
(* delivers at least once, in any order.                                   *)
(***************************************************************************)
EXTENDS Naturals, FiniteSets

CONSTANTS
    Players,     \* participant ids
    QueueIds,    \* ids of queue rows (bounds how often players join)
    Matches,     \* match ids (bounds how many matches are made)
    Requests,    \* slots for HTTP requests in flight
    MatchSizes,  \* how many participants the matchmaking service may match
    MaxFaults,   \* how often the worker fails while handling a message
    None         \* "no value"

ASSUME MatchmakingFinite == IsFiniteSet(Requests) /\ IsFiniteSet(QueueIds)
ASSUME MatchSizesAssumption == MatchSizes \subseteq Nat \ {0}
ASSUME MaxFaultsAssumption == MaxFaults \in Nat
ASSUME IdsAssumption ==
    /\ Matches \cap QueueIds = {}
    /\ None \notin Players \cup QueueIds \cup Matches

VARIABLES
    \* table queue
    status,      \* status[i]; "None" before the insert, "Deleted" after the delete
    player,      \* player[i]: participant_id
    \* table match and game_history
    matches,     \* match ids with a row in table match
    history,     \* match ids for which game_history has a row, or several
    \* the requests in flight
    pc, who, entry,
    \* the matchmaking service
    known,       \* queue entries it believes to be waiting
    members,     \* members[m]: the queue entries of match m, {} before it is made
    \* the broker and the worker
    inbox,       \* messages ready for delivery
    wmsg,        \* the message the worker is handling, or None
    wpc,         \* the statement the worker runs next
    wtodo,       \* queue entries the handler has not yet looked at
    wentry,      \* the queue entry it has found and is about to update
    \* history
    acked,       \* messages acknowledged
    faults       \* how often the worker has failed

queueTable == <<status, player>>
matchTable == <<matches, history>>
request == <<pc, who, entry>>
matchmaker == <<known, members>>
worker == <<wmsg, wpc, wtodo, wentry>>
broker == <<inbox, acked, faults>>
vars == <<queueTable, matchTable, request, matchmaker, worker, broker>>

QueueStatus == {"None", "Waiting", "InMatch", "Cancelled", "Deleted"}

\* The messages to the worker: MatchFound is its match id, QueueCancelled its
\* queue id.  The others are in modules Ratings and Bots.
IncomingMessage == Matches \cup QueueIds

\* handle_match_found makes a match row for three participants or more.
MinParticipants == 3

Waiting(p) == {i \in QueueIds : status[i] = "Waiting" /\ player[i] = p}
\* get_queue_status for a user: P is the user and his bots.
Queued(P) == UNION {Waiting(p) : p \in P}
Exists(i) == status[i] \notin {"None", "Deleted"}
Unused == {i \in QueueIds : status[i] = "None"}

Init ==
    /\ status = [i \in QueueIds |-> "None"]
    /\ player = [i \in QueueIds |-> None]
    /\ matches = {}
    /\ history = {}
    /\ pc = [q \in Requests |-> "idle"]
    /\ who = [q \in Requests |-> None]
    /\ entry = [q \in Requests |-> None]
    /\ known = {}
    /\ members = [m \in Matches |-> {}]
    /\ inbox = {}
    /\ wmsg = None /\ wpc = "idle" /\ wtodo = {} /\ wentry = None
    /\ acked = {}
    /\ faults = 0

Goto(q, next) == pc' = [pc EXCEPT ![q] = next] /\ UNCHANGED <<who, entry>>

Return(q) ==
    /\ pc' = [pc EXCEPT ![q] = "idle"]
    /\ who' = [who EXCEPT ![q] = None]
    /\ entry' = [entry EXCEPT ![q] = None]

SetStatus(i, s) == status' = [status EXCEPT ![i] = s] /\ UNCHANGED player

\* publish_message: the matchmaking service hears of the change and believes
\* heard, or the message is dropped, which is no error.
Publish(heard) == known' \in {known, heard}

-----------------------------------------------------------------------------
(* Bookkeeping of the worker.                                              *)

WorkerGoto(next) == wpc' = next /\ UNCHANGED <<wmsg, wtodo, wentry>>

WorkerIdle ==
    /\ wpc' = "idle" /\ wmsg' = None /\ wtodo' = {} /\ wentry' = None

\* handler returned Err, or the worker went away: the message is delivered
\* again (basic_nack with requeue, or the broker when the channel closes).
Requeue ==
    /\ inbox' = inbox \cup {wmsg}
    /\ WorkerIdle

-----------------------------------------------------------------------------
(* Deliberate mistakes, one per property, to see each property fail.  None *)
(* of them is part of the specification.                                   *)

\* JoinCheck without the early return.
Mutant_NoQueuedCheck(q) ==
    /\ pc[q] = "checkQueued"
    /\ Goto(q, "insertEntry")
    /\ UNCHANGED <<queueTable, matchTable, matchmaker, worker, broker>>

\* LeaveCancel with save() for update(): inserts the row again if it is gone.
Mutant_SaveEntry(q) ==
    /\ pc[q] = "cancelEntry"
    /\ SetStatus(entry[q], "Cancelled")
    /\ Goto(q, "publishLeave")
    /\ UNCHANGED <<matchTable, matchmaker, worker, broker>>

\* InsertHistory moved in front of the loop over the participants.
Mutant_HistoryFirst ==
    /\ wpc = "markMembers" /\ wentry = None
    /\ history' = history \cup {wmsg}
    /\ \/ Cardinality(members[wmsg]) >= MinParticipants /\ WorkerGoto("insertMatch")
       \/ Cardinality(members[wmsg]) < MinParticipants /\ WorkerGoto("ack")
    /\ UNCHANGED <<queueTable, matches, request, matchmaker, broker>>

\* InsertHistory with > for >=: matches of three are not recorded.
Mutant_MoreThanThree ==
    /\ wpc = "markMembers" /\ wtodo = {} /\ wentry = None
    /\ history' = history \cup {wmsg}
    /\ \/ Cardinality(members[wmsg]) > MinParticipants /\ WorkerGoto("insertMatch")
       \/ Cardinality(members[wmsg]) <= MinParticipants /\ WorkerGoto("ack")
    /\ UNCHANGED <<queueTable, matches, request, matchmaker, broker>>

\* InsertHistory only for matches too small to be recorded.
Mutant_HistoryForgotten ==
    /\ wpc = "markMembers" /\ wtodo = {} /\ wentry = None
    /\ \/ /\ Cardinality(members[wmsg]) >= MinParticipants
          /\ WorkerGoto("insertMatch")
          /\ UNCHANGED history
       \/ /\ Cardinality(members[wmsg]) < MinParticipants
          /\ history' = history \cup {wmsg}
          /\ WorkerGoto("ack")
    /\ UNCHANGED <<queueTable, matches, request, matchmaker, broker>>

\* InsertHistory under the message's match id instead of a fresh one: the
\* second delivery meets the row of the first.
Mutant_HistoryUnderMatchId ==
    /\ wpc = "markMembers" /\ wtodo = {} /\ wentry = None
    /\ \/ /\ wmsg \notin history
          /\ history' = history \cup {wmsg}
          /\ IF Cardinality(members[wmsg]) >= MinParticipants
                THEN WorkerGoto("insertMatch") ELSE WorkerGoto("ack")
          /\ UNCHANGED broker
       \/ wmsg \in history /\ Requeue /\ UNCHANGED <<history, acked, faults>>
    /\ UNCHANGED <<queueTable, matches, request, matchmaker>>

\* StaleQueues looking for the wrong status.
Mutant_DeleteCancelled(S) ==
    /\ S # {} /\ \A i \in S : status[i] = "Cancelled"
    /\ status' = [i \in QueueIds |-> IF i \in S THEN "Deleted" ELSE status[i]]
    /\ UNCHANGED <<player, matchTable, request, matchmaker, worker, broker>>

-----------------------------------------------------------------------------
(* POST /v1/queue/join and /v1/queue/join-bot                              *)

\* The lobby exists and is active (moderators may switch it at any time); the
\* caller may act for the player (for a bot: it exists, is live, and the
\* caller owns it or is an administrator).
JoinLobby(q, p) ==
    /\ pc[q] = "idle"
    /\ pc' = [pc EXCEPT ![q] = "checkQueued"]
    /\ who' = [who EXCEPT ![q] = p]
    /\ UNCHANGED <<queueTable, matchTable, entry, matchmaker, worker, broker>>

JoinCheck(q) ==
    /\ pc[q] = "checkQueued"
    /\ \/ Waiting(who[q]) = {} /\ Goto(q, "insertEntry")
       \/ Waiting(who[q]) # {} /\ Return(q)
    /\ UNCHANGED <<queueTable, matchTable, matchmaker, worker, broker>>

JoinInsert(q) ==
    /\ pc[q] = "insertEntry"
    /\ Unused # {}
    /\ LET i == CHOOSE j \in Unused : TRUE
       IN  /\ status' = [status EXCEPT ![i] = "Waiting"]
           /\ player' = [player EXCEPT ![i] = who[q]]
           /\ entry' = [entry EXCEPT ![q] = i]
    /\ pc' = [pc EXCEPT ![q] = "publishJoin"]
    /\ UNCHANGED <<matchTable, who, matchmaker, worker, broker>>

\* QueueJoin reaches the matchmaking service or is lost; either way the
\* request succeeds.  A late arrival is a late publish.
JoinPublish(q) ==
    /\ pc[q] = "publishJoin"
    /\ Publish(known \cup {entry[q]})
    /\ Return(q)
    /\ UNCHANGED <<queueTable, matchTable, members, worker, broker>>

-----------------------------------------------------------------------------
(* DELETE /v1/queue/{id}                                                   *)

\* The row exists, is the caller's to leave, and waits.
LeaveFind(q, i) ==
    /\ pc[q] = "idle"
    /\ status[i] = "Waiting"
    /\ pc' = [pc EXCEPT ![q] = "cancelEntry"]
    /\ entry' = [entry EXCEPT ![q] = i]
    /\ UNCHANGED <<queueTable, matchTable, who, matchmaker, worker, broker>>

\* UPDATE of the status column by primary key, whatever the status is by
\* now; the update of a row that is gone is an error.
LeaveCancel(q) ==
    /\ pc[q] = "cancelEntry"
    /\ \/ Exists(entry[q]) /\ SetStatus(entry[q], "Cancelled") /\ Goto(q, "publishLeave")
       \/ ~Exists(entry[q]) /\ Return(q) /\ UNCHANGED queueTable
    /\ UNCHANGED <<matchTable, matchmaker, worker, broker>>

\* QueueLeave reaches the matchmaking service or is lost.
LeavePublish(q) ==
    /\ pc[q] = "publishLeave"
    /\ Publish(known \ {entry[q]})
    /\ Return(q)
    /\ UNCHANGED <<queueTable, matchTable, members, worker, broker>>

\* A statement fails or the service stops: the handler ends where it stands.
Abort(q) ==
    /\ pc[q] # "idle"
    /\ Return(q)
    /\ UNCHANGED <<queueTable, matchTable, matchmaker, worker, broker>>

-----------------------------------------------------------------------------
(* The matchmaking service (external).                                     *)

\* It matches entries it believes to be waiting and publishes MatchFound.
FormMatch(m, S) ==
    /\ members[m] = {}
    /\ S \subseteq known
    /\ Cardinality(S) \in MatchSizes
    /\ members' = [members EXCEPT ![m] = S]
    /\ known' = known \ S
    /\ inbox' = inbox \cup {m}
    /\ UNCHANGED <<queueTable, matchTable, request, worker, acked, faults>>

\* It gives up an entry and publishes QueueCancelled.
GiveUp(i) ==
    /\ i \in known
    /\ known' = known \ {i}
    /\ inbox' = inbox \cup {i}
    /\ UNCHANGED <<queueTable, matchTable, request, members, worker, acked, faults>>

-----------------------------------------------------------------------------
(* The worker: one consumer that handles one message at a time.            *)

Consume(x) ==
    /\ wpc = "idle"
    /\ x \in inbox
    /\ inbox' = inbox \ {x}
    /\ wmsg' = x
    /\ \/ x \in Matches /\ wpc' = "markMembers" /\ wtodo' = members[x]
       \/ x \in QueueIds /\ wpc' = "cancelEntry" /\ wtodo' = {x}
    /\ UNCHANGED <<queueTable, matchTable, request, matchmaker, wentry, acked, faults>>

\* find_by_id of the next entry, in either handler; a missing row is skipped.
FindEntry(i) ==
    /\ wentry = None
    /\ i \in wtodo
    /\ wtodo' = wtodo \ {i}
    /\ wentry' = IF Exists(i) THEN i ELSE None
    /\ UNCHANGED <<wmsg, wpc>>
    /\ UNCHANGED <<queueTable, matchTable, request, matchmaker, broker>>

\* The update that follows, of the status column only and whatever the
\* status is by now; the cleanup job may have deleted the row in between.
UpdateEntry(s) ==
    /\ wentry # None
    /\ \/ /\ Exists(wentry)
          /\ SetStatus(wentry, s)
          /\ wentry' = None
          /\ UNCHANGED <<wmsg, wpc, wtodo, broker>>
       \/ ~Exists(wentry) /\ Requeue /\ UNCHANGED <<queueTable, acked, faults>>
    /\ UNCHANGED <<matchTable, request, matchmaker>>

MarkInMatch == wpc = "markMembers" /\ UpdateEntry("InMatch")

CancelEntry == wpc = "cancelEntry" /\ UpdateEntry("Cancelled")

\* handle_queue_cancelled is done.
CancelDone ==
    /\ wpc = "cancelEntry" /\ wtodo = {} /\ wentry = None
    /\ WorkerGoto("ack")
    /\ UNCHANGED <<queueTable, matchTable, request, matchmaker, broker>>

\* handle_match_found inserts a game_history row under a fresh id, then
\* goes on to the match row if there are enough participants for one.
InsertHistory ==
    /\ wpc = "markMembers" /\ wtodo = {} /\ wentry = None
    /\ history' = history \cup {wmsg}
    /\ \/ Cardinality(members[wmsg]) >= MinParticipants /\ WorkerGoto("insertMatch")
       \/ Cardinality(members[wmsg]) < MinParticipants /\ WorkerGoto("ack")
    /\ UNCHANGED <<queueTable, matches, request, matchmaker, broker>>

\* The message's match id is the primary key: a second insert is an error.
InsertMatch ==
    /\ wpc = "insertMatch"
    /\ \/ /\ wmsg \notin matches
          /\ matches' = matches \cup {wmsg}
          /\ WorkerGoto("ack")
          /\ UNCHANGED broker
       \/ wmsg \in matches /\ Requeue /\ UNCHANGED <<matches, acked, faults>>
    /\ UNCHANGED <<queueTable, history, request, matchmaker>>

Acknowledge ==
    /\ wpc = "ack"
    /\ acked' = acked \cup {wmsg}
    /\ WorkerIdle
    /\ UNCHANGED <<queueTable, matchTable, request, matchmaker, inbox, faults>>

\* A statement fails, the acknowledgement is lost or the worker stops.
WorkerFault ==
    /\ wpc # "idle"
    /\ faults < MaxFaults
    /\ faults' = faults + 1
    /\ Requeue
    /\ UNCHANGED <<queueTable, matchTable, request, matchmaker, acked>>

-----------------------------------------------------------------------------
(* The cron job.                                                           *)

\* One DELETE statement for the Waiting rows that are more than an hour old.
\* joined_at is left out: any set of Waiting rows may be that old.
StaleQueues(S) ==
    /\ S # {} /\ \A i \in S : status[i] = "Waiting"
    /\ status' = [i \in QueueIds |-> IF i \in S THEN "Deleted" ELSE status[i]]
    /\ UNCHANGED <<player, matchTable, request, matchmaker, worker, broker>>

-----------------------------------------------------------------------------

\* From here on join_queue_as_bot is join_queue again.
JoinStep(q) == JoinCheck(q) \/ JoinInsert(q) \/ JoinPublish(q)

Step(q) == JoinStep(q) \/ LeaveCancel(q) \/ LeavePublish(q)

Service ==
    \E q \in Requests :
        \/ \E p \in Players : JoinLobby(q, p)
        \/ \E i \in QueueIds : LeaveFind(q, i)
        \/ Step(q)
        \/ Abort(q)

Matchmaker ==
    \/ \E m \in Matches, S \in SUBSET known : FormMatch(m, S)
    \/ \E i \in QueueIds : GiveUp(i)

\* What the worker does next with the message it holds.
Handle ==
    \/ \E i \in QueueIds : FindEntry(i)
    \/ MarkInMatch \/ InsertHistory \/ InsertMatch
    \/ CancelEntry \/ CancelDone
    \/ Acknowledge

Worker == (\E x \in IncomingMessage : Consume(x)) \/ Handle \/ WorkerFault

Cron == \E S \in SUBSET QueueIds : StaleQueues(S)

Next == Service \/ Matchmaker \/ Worker \/ Cron

Spec == Init /\ [][Next]_vars

\* The worker is restarted and keeps consuming, every message gets its turn
\* (the broker keeps them in order); every row grows an hour old, and cron
\* goes on to run the cleanup.
\* Nothing is assumed of clients or of the matchmaking service.
Fairness ==
    /\ WF_vars(Handle)
    /\ \A x \in IncomingMessage : SF_vars(Consume(x))
    /\ \A i \in QueueIds :
        WF_vars(\E S \in SUBSET QueueIds : i \in S /\ StaleQueues(S))

FairSpec == Spec /\ Fairness

-----------------------------------------------------------------------------
(* Properties.                                                             *)

Pc == {"idle", "checkQueued", "insertEntry", "publishJoin", "cancelEntry", "publishLeave"}
WorkerPc == {"idle", "markMembers", "insertMatch", "cancelEntry", "ack"}

\* Every column, local variable and message has its type; what the worker
\* works on matches the kind of message it holds; every match refers to a
\* game_history row, as the foreign key demands.
TypeOK ==
    /\ status \in [QueueIds -> QueueStatus]
    /\ player \in [QueueIds -> Players \cup {None}]
    /\ \A i \in QueueIds : status[i] # "None" => player[i] \in Players
    /\ matches \subseteq Matches
    /\ history \subseteq Matches
    /\ matches \subseteq history
    /\ pc \in [Requests -> Pc]
    /\ who \in [Requests -> Players \cup {None}]
    /\ entry \in [Requests -> QueueIds \cup {None}]
    /\ known \subseteq QueueIds
    /\ members \in [Matches -> SUBSET QueueIds]
    /\ inbox \subseteq IncomingMessage
    /\ wmsg \in IncomingMessage \cup {None}
    /\ wpc \in WorkerPc
    /\ wtodo \subseteq QueueIds
    /\ wentry \in QueueIds \cup {None}
    /\ acked \subseteq IncomingMessage
    /\ faults \in 0..MaxFaults
    /\ \A q \in Requests :
        /\ pc[q] \in {"checkQueued", "insertEntry"} => who[q] \in Players
        /\ pc[q] \in {"publishJoin", "cancelEntry", "publishLeave"} =>
                entry[q] \in QueueIds /\ status[entry[q]] # "None"
    /\ wpc = "idle" <=> wmsg = None
    /\ wpc \in {"markMembers", "insertMatch"} => wmsg \in Matches
    /\ wpc = "insertMatch" => wmsg \in history
    /\ wpc = "cancelEntry" => wmsg \in QueueIds

\* Requests that saw no Waiting row of p and will insert one.
Joining(p) == {q \in Requests : pc[q] = "insertEntry" /\ who[q] = p}

\* The "already in a queue" checks (matchmaking.rs:94 and :191) bound the
\* Waiting rows of one player by the number of simultaneous requests.
QueueBudget ==
    \A p \in Players :
        Cardinality(Waiting(p)) + Cardinality(Joining(p)) <= Cardinality(Requests)

Checks == INSTANCE CheckThenInsert WITH
    Keys    <- Players,
    Limit   <- [p \in Players |-> 1],
    rows    <- [p \in Players |-> Cardinality(Waiting(p))],
    holders <- [p \in Players |-> Joining(p)]

\* A request inserts only what it passed those checks for, once, and nothing
\* but an insert makes an entry wait: cancellations, the cleanup and the
\* worker's updates of rows read earlier never do.
ChecksAreKept == Checks!Spec

\* A match row is made after all its members have left the queue for good:
\* nobody who is in a match can be matched again by the same entry, however
\* cancellations, deletions and redeliveries interleave with the worker.
MatchedHaveLeftQueue ==
    \A m \in matches : \A i \in members[m] : status[i] \notin {"None", "Waiting"}

\* An acknowledged message was carried out (client.rs:170), also when the
\* worker failed over it before: no entry it is about waits, a MatchFound
\* has its history and, with enough members, its match.
AcknowledgedIsDone ==
    \A x \in acked :
        /\ x \in QueueIds => status[x] # "Waiting"
        /\ x \in Matches =>
            /\ \A i \in members[x] : status[i] # "Waiting"
            /\ x \in history
            /\ Cardinality(members[x]) >= MinParticipants => x \in matches

\* A row that has left "Waiting" never waits again; a row a player or the
\* matchmaking service has settled is not deleted; a deleted row does not
\* come back, though handlers that have read it go on to update it.
QueueLifecycle ==
    [][\A i \in QueueIds :
        /\ status[i] \in {"InMatch", "Cancelled"} => status'[i] \in {"InMatch", "Cancelled"}
        /\ status[i] = "Deleted" => status'[i] = "Deleted"]_vars

\* No entry waits forever, whatever is lost between service, broker and
\* matchmaking service: after an hour the cleanup makes room for a new try.
WaitingEnds == \A p \in Players, i \in QueueIds : i \in Queued({p}) ~> i \notin Queued({p})

\* A published message is carried out: acknowledged in the end, or, if it
\* was delivered again after its match row was written, at least that.
MessageIsCarriedOut ==
    \A x \in IncomingMessage : x \in inbox ~> (x \in acked \/ x \in matches)

\* leave_queue answers "Left queue successfully" (matchmaking.rs:245): who
\* has left is not put into a match.
CancelledIsFinal ==
    [][\A i \in QueueIds : status[i] = "Cancelled" => status'[i] = "Cancelled"]_vars
=============================================================================
