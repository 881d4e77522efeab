-------------------------------- MODULE Bots --------------------------------
(***************************************************************************)
(* Table bot: the handlers of src/src/api/bots.rs, the worker's handler of *)
(* BotHeartbeat messages (src/src/worker.rs) and the cron job              *)
(* src/src/jobs/monitoring/heartbeat.rs.  An action is one statement.      *)
(*                                                                         *)
(* last_heartbeat is abstracted to "never", "old" (more than ten minutes   *)
(* ago) and "fresh"; a fresh one grows old.  A message is delivered at any *)
(* time and any number of times, so the heartbeat it carries may be old.   *)
(***************************************************************************)
EXTENDS Handlers

CONSTANT BotIds   \* ids of rows of bot (bounds how many are made)

ASSUME BotIdsAssumption == IsFiniteSet(BotIds) /\ None \notin BotIds
\* There is an owner for the bots of old, and a name for each.
ASSUME OldBotsAssumption ==
    /\ Users \ Admins # {}
    /\ \E f \in [BotIds -> Names] : \A b, c \in BotIds : f[b] = f[c] => b = c

VARIABLES
    bot,      \* bot[b]: [state, name, owner, live, beat]
    message,  \* the heartbeat the worker is handling, [row, live, beat], or None
    job,      \* the heartbeat-check job: [on, todo]
    \* history
    foreign,  \* bots renamed by somebody who does not own them
    beaten    \* bots given a heartbeat between the job's selection and update

botVars == <<requests, bot, message, job, foreign, beaten>>
botTables == <<bot, message, job, foreign, beaten>>

Existing == {b \in BotIds : bot[b].state = "exists"}
\* get_user_bots
UserBots(u) == {b \in Existing : bot[b].owner = u}
BotsNamed(u, n) == {b \in UserBots(u) : bot[b].name = n}
Silent(b) == bot[b].beat # "fresh"
NoBot(state) ==
    [state |-> state, name |-> None, owner |-> None, live |-> FALSE, beat |-> "never"]
IdleJob == [on |-> FALSE, todo |-> {}]

\* The bots of old are live and have been silent for long; their owner is not
\* an administrator.
OldName(old) == CHOOSE f \in [old -> Names] : \A b, c \in old : f[b] = f[c] => b = c
OldOwner == CHOOSE u \in Users : u \notin Admins

BotsInit(old) ==
    /\ bot = [b \in BotIds |->
          IF b \in old
             THEN [state |-> "exists", name |-> OldName(old)[b], owner |-> OldOwner,
                   live |-> TRUE, beat |-> "old"]
             ELSE NoBot("none")]
    /\ message = None
    /\ job = IdleJob
    /\ foreign = {} /\ beaten = {}

\* The role is read with the session, when the request begins.
MayManage(u, b) == bot[b].owner = u \/ u \in office

-----------------------------------------------------------------------------
(* The handlers.                                                           *)

\* create_bot: the caller has no bot of the name.
BotCheck(q, u, n) ==
    /\ BotsNamed(u, n) = {}
    /\ Start(q, "insertBot", u, None, n, None)
    /\ UNCHANGED botTables

\* A new bot is not live.
BotInsert(q) ==
    /\ req[q].pc = "insertBot"
    /\ \E b \in BotIds :
          /\ bot[b].state = "none"
          /\ bot' = [bot EXCEPT ![b] = [@ EXCEPT !.state = "exists", !.name = req[q].name,
                                                 !.owner = req[q].user]]
    /\ Return(q)
    /\ UNCHANGED <<message, job, foreign, beaten>>

\* update_bot: the row exists and is the caller's to change.
BotFind(q, u, b, n, live) ==
    /\ b \in Existing /\ MayManage(u, b)
    /\ Start(q, IF n = None THEN "writeBot" ELSE "checkBot", u, b, n, live)
    /\ UNCHANGED botTables

\* No other bot of the caller has the new name, even if the bot is not the
\* caller's.
BotRenameCheck(q) ==
    /\ req[q].pc = "checkBot"
    /\ IF BotsNamed(req[q].user, req[q].name) \subseteq {req[q].row}
          THEN Goto(q, "writeBot") ELSE Return(q)
    /\ UNCHANGED botTables

\* The UPDATE of the columns that the request names; a row that is gone is
\* an error.
BotWrite(q) ==
    /\ req[q].pc = "writeBot"
    /\ LET b == req[q].row
           n == req[q].name
       IN  \/ /\ b \in Existing
              /\ bot' = [bot EXCEPT ![b] =
                            [bot[b] EXCEPT !.name = IF n = None THEN @ ELSE n,
                                           !.live = IF req[q].flag = None THEN @ ELSE req[q].flag]]
              /\ foreign' = IF n = None THEN foreign
                               ELSE IF bot[b].owner = req[q].user THEN foreign \ {b}
                                                                  ELSE foreign \cup {b}
           \/ b \notin Existing /\ UNCHANGED <<bot, foreign>>
    /\ Return(q)
    /\ UNCHANGED <<message, job, beaten>>

\* delete_bot: the row exists and is the caller's to delete ...
BotDeleteFind(q, u, b) ==
    /\ b \in Existing /\ MayManage(u, b)
    /\ Start(q, "deleteBot", u, b, None, None)
    /\ UNCHANGED botTables

\* ... and is deleted; that it is gone already is no error.  Whose it was is
\* remembered for the requests that are still about to write it.
BotDelete(q) ==
    /\ req[q].pc = "deleteBot"
    /\ bot' = [bot EXCEPT ![req[q].row] = [NoBot("deleted") EXCEPT !.owner = bot[req[q].row].owner]]
    /\ foreign' = foreign \ {req[q].row}
    /\ Return(q)
    /\ UNCHANGED <<message, job, beaten>>

BotAbort(q) ==
    /\ q \in At({"insertBot", "checkBot", "writeBot", "deleteBot"})
    /\ Return(q)
    /\ UNCHANGED botTables

-----------------------------------------------------------------------------
(* The worker and the job.                                                 *)

\* handle_bot_heartbeat finds the bot; a missing one is skipped.  A message
\* counts as a request.
BeatFind(b, live, beat) ==
    /\ message = None /\ begun < MaxRequests
    /\ b \in Existing
    /\ message' = [row |-> b, live |-> live, beat |-> beat]
    /\ begun' = begun + 1
    /\ UNCHANGED <<req, office, bot, job, foreign, beaten>>

\* It writes last_heartbeat and live.  If the bot has gone, or the worker
\* fails, the message comes again like any other.
BeatUpdate ==
    /\ message # None
    /\ \/ /\ message.row \in Existing
          /\ bot' = [bot EXCEPT ![message.row] =
                        [@ EXCEPT !.live = message.live, !.beat = message.beat]]
          /\ beaten' = beaten \cup ({message.row} \cap job.todo)
       \/ UNCHANGED <<bot, beaten>>
    /\ message' = None
    /\ UNCHANGED <<requests, job, foreign>>

\* Ten minutes pass without a heartbeat.
BeatGrowsOld(b) ==
    /\ b \in Existing /\ bot[b].beat = "fresh"
    /\ bot' = [bot EXCEPT ![b].beat = "old"]
    /\ UNCHANGED <<requests, message, job, foreign, beaten>>

\* Mistake: a bot that never sent a heartbeat is not looked at.
Mutant_NullIsNotOld ==
    /\ ~job.on
    /\ job' = [on |-> TRUE, todo |-> {b \in Existing : bot[b].live /\ bot[b].beat = "old"}]
    /\ UNCHANGED <<requests, bot, message, foreign, beaten>>

\* Mistake: every live bot is selected.
Mutant_SelectLive ==
    /\ ~job.on
    /\ job' = [on |-> TRUE, todo |-> {b \in Existing : bot[b].live}]
    /\ UNCHANGED <<requests, bot, message, foreign, beaten>>

\* The job selects the live bots whose last heartbeat is NULL or old ...
JobSelect ==
    /\ ~job.on
    /\ job' = [on |-> TRUE, todo |-> {b \in Existing : bot[b].live /\ Silent(b)}]
    /\ UNCHANGED <<requests, bot, message, foreign, beaten>>

\* ... and takes one after the other off; one that is gone ends the job.
JobUpdate(b) ==
    /\ b \in job.todo
    /\ \/ /\ b \in Existing
          /\ bot' = [bot EXCEPT ![b].live = FALSE]
          /\ job' = [job EXCEPT !.todo = @ \ {b}]
          /\ beaten' = beaten \ {b}
       \/ /\ b \notin Existing
          /\ job' = IdleJob /\ beaten' = {}
          /\ UNCHANGED bot
    /\ UNCHANGED <<requests, message, foreign>>

JobDone ==
    /\ job.on /\ job.todo = {}
    /\ job' = IdleJob
    /\ UNCHANGED <<requests, bot, message, foreign, beaten>>

-----------------------------------------------------------------------------

BotRequests ==
    \E q \in Requests :
        \/ \E u \in Users, n \in Names : BotCheck(q, u, n)
        \/ \E u \in Users, b \in BotIds :
              \/ \E n \in Names \cup {None}, live \in Flags : BotFind(q, u, b, n, live)
              \/ BotDeleteFind(q, u, b)
        \/ BotInsert(q) \/ BotRenameCheck(q) \/ BotWrite(q) \/ BotDelete(q)
        \/ BotAbort(q)

Heartbeats ==
    \/ \E b \in BotIds, live \in BOOLEAN, beat \in {"fresh", "old"} : BeatFind(b, live, beat)
    \/ BeatUpdate
    \/ \E b \in BotIds : BeatGrowsOld(b)

Job == JobSelect \/ (\E b \in BotIds : JobUpdate(b)) \/ JobDone

BotsNext ==
    \/ BotRequests \/ Heartbeats \/ Job
    \/ \E u \in Users : ChangeRole(u) /\ UNCHANGED botTables

-----------------------------------------------------------------------------
(* Properties.                                                             *)

BotTypeOK ==
    /\ bot \in [BotIds -> [state : {"none", "exists", "deleted"}, name : Names \cup {None},
                           owner : Users \cup {None}, live : BOOLEAN,
                           beat : {"never", "old", "fresh"}]]
    /\ \A b \in Existing : bot[b].name \in Names /\ bot[b].owner \in Users
    /\ ~job.on => job.todo = {}
    /\ \A q \in At({"checkBot", "writeBot", "deleteBot"}) : bot[req[q].row].state # "none"
    /\ beaten \subseteq job.todo /\ foreign \subseteq Existing

\* Requests of the user u that have passed the check of the name n, and u's
\* bots of that name other than those they are about to write.  Bots that an
\* administrator renamed do not count: he checks the new name against his own
\* bots (bots.rs:201).
BotNamers(u, n) ==
    {q \in At({"insertBot", "writeBot"}) :
        /\ req[q].user = u /\ req[q].name = n
        /\ req[q].pc = "writeBot" => bot[req[q].row].owner = u}
BotRows(u, n) == (BotsNamed(u, n) \ foreign) \ {req[q].row : q \in BotNamers(u, n)}

\* A bot goes on or off line for a cause: a request or a heartbeat that says
\* so, or the job, which takes a bot off that is silent, or was when it was
\* selected and has sent a heartbeat since (heartbeat.rs:28 writes what :12
\* selected; bots.rs:228 writes live only if the request names it).
LiveFollowsCause ==
    [][\A b \in Existing :
          bot'[b].state = "exists" /\ bot'[b].live # bot[b].live =>
            \/ \E q \in At({"writeBot"}) : req[q].row = b /\ req[q].flag = bot'[b].live
            \/ message # None /\ message.row = b /\ message.live = bot'[b].live
            \/ b \in job.todo /\ ~bot'[b].live /\ (Silent(b) \/ b \in beaten)]_botVars

\* A silent bot does not stay live: it goes off line, is deleted or sends a
\* heartbeat, whatever the job runs into (heartbeat.rs:28 ends the job when a
\* bot it has selected is gone).
SilentBotGoesOffline ==
    \A b \in BotIds :
        bot[b].live /\ Silent(b) /\ b \in Existing
            ~> ~bot[b].live \/ ~Silent(b) \/ b \notin Existing

=============================================================================
