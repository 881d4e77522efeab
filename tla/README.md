# Verification of sth-account

TLA+ models of the account service of a four-player game platform: the HTTP
service, the message worker and the cron jobs of `src/src/`. File names below
are relative to the repository, `rooms.rs:250` is a line of
`src/src/api/rooms.rs`.

## The system

One Rust program with three modes over one PostgreSQL database:

- `service` (service.rs): axum handlers, any number at once;
- `worker` (worker.rs): one RabbitMQ consumer, one message at a time;
- one process per cron job (jobs/mod.rs): started, runs once, ends.

No code opens a database transaction. Every `.await` on a query is a statement
of its own, and between two statements of a handler any other handler, the
worker and the jobs may run. A handler that fails half way undoes nothing.
SeaORM's `update` writes the columns that were `Set`, by primary key, whatever
the row says by then; it fails if the row is gone. That is what makes this
program hard, and what the models keep: **an action is one statement together
with the code up to the next one**, and local variables that survive a
statement are state.

### Inventory

| Component | State | Operations | Hard part | What makes it correct |
|---|---|---|---|---|
| Private rooms (api/rooms.rs) | private_room, room_participants, room_invitation | create, join, leave, invite (+ 2 reads) | check-then-insert without locks; room row and host row are two inserts; last leaver marks the room | bounded overrun of capacity, membership, invitations; a deserted room is marked; a marked room only empties |
| expired-rooms job | private_room | close deserted rooms | looks for a status nobody writes | deserted rooms are closed (they are not) |
| Queue API (api/matchmaking.rs) | queue | join, join as bot, leave (+ 2 reads) | check-then-insert; stale update by id; publishes may be lost | one player waits at most once per request in flight; nobody waits forever; settled rows stay settled |
| Worker: MatchFound, QueueCancelled (worker.rs, queue/client.rs) | queue, game_history, match; the broker's queue | handle, ack, nack with requeue | crash between statements, redelivery, duplicate keys, races with leave and cleanup | an acknowledged message is done; a matched entry is out of the queue |
| stale-queues job | queue | delete Waiting rows older than an hour | deletes under handlers that have read the row | deleted rows do not come back |
| Worker: MatchCompleted | match, user/bot ranks | record result, add rank deltas | not idempotent; overtakes MatchFound; races with the recalculation | no participant skipped; ranks of the active converge to the recalculated ones |
| mmr-recalculation, update-statistics | ranks, peaks, statistics | recompute from all matches | snapshots, ties, NULL scores, a player in two columns, two jobs writing one column | agree with the queries where nothing is tied or missing; a peak falls only in the race of the jobs |
| Bots (api/bots.rs), heartbeat job, BotHeartbeat | bot | create, update, delete, heartbeat, mark offline | stale read against a fresh heartbeat; a deleted bot ends the job | live has a cause; a silent bot goes offline |
| Lobbies (api/lobbies.rs) | lobby_pool | create, update, deactivate | name check without an index; stale row written back | bounded duplication of names; active follows a request |
| Friends (api/friends.rs) | friendship | request, respond, remove | crossing requests; two answers; notification as second write | listed once unless requests crossed; one answer; partners are told |
| Notifications | notifications | list, mark, delete, count, create, clean up | marking in a loop against deletion; counts from different moments | read and deleted rows do not come back; counts drift by no more than the changes |
| Exports (api/exports.rs), export job | data_export_requests | request, complete, cancel, download, clean up | cancel and cleanup delete by id what they read before | a completed export stays until it is stale, except in a race; stale ones are removed (after fourteen days, where seven are promised) |
| Accounts and moderation (users.rs, admin.rs, auth.rs), report and audit jobs | user, session, report, audit_log, system_configuration | register, log in, delete, moderate, decide, configure | change and audit entry are two writes; role checked once; a user name is checked, hashed over and then refused by its index | the log explains the state; power is held |
| Match queries (api/matches.rs) | none | placements, history, statistics | computed by other code than the job's | same answers as the job, except as stated |
| health, configuration, OpenAPI, CLI | none | read only | - | - |

How they interact: handlers and worker share `queue`; the worker writes the
matches that statistics, recalculation and match queries read; bots and lobbies
guard who may join the queue; a publish of the service goes to an external
matchmaking service, which answers to the worker's queue; jobs delete or update
rows under everybody else.

## Modules

| Module | What it is |
|---|---|
| `Rooms` | rooms.rs and the expired-rooms job |
| `RoomsProofs` | theorems about `Rooms` for any number of users, rooms, requests, rows, among them that it implements `CheckThenInsert` |
| `Matchmaking` | the queue API, the broker, the worker's queue handlers, the stale-queues job, and as external environment the matchmaking service |
| `MatchmakingProofs` | theorems about `Matchmaking`, the refinement of `CheckThenInsert` included |
| `Statistics` | what the statistics job, the match queries, the recalculation and the export compute from table match, over every table the worker can make |
| `StatisticsProofs` | theorems about it, for any set of matches |
| `Ratings` | ranks and peaks: the worker's handler of MatchCompleted, mmr-recalculation and update-statistics, statement by statement |
| `Notifications` | notifications.rs, its cleanup job, the notice of moderate_user |
| `RatingsProofs` | theorems about `Ratings` |
| `Friends` | friends.rs, on top of `Notifications`, whose table and request slots it shares |
| `FriendsProofs` | theorems about `Friends` and `Notifications` |
| `Handlers` | what the next four modules share: the request slots (`req[q]` says at which statement a request is and what it remembers), and who is an administrator by now |
| `Lobbies`, `Bots`, `Exports`, `Accounts` | one table (or group of tables) each, with its handlers, messages and jobs |
| `Service` | those four together, and the refinement of `CheckThenInsert` |
| `CheckThenInsert` | abstract: what a check followed by an insert is worth without an index, each key with its own limit; implemented by `Rooms`, `Matchmaking`, `Lobbies`, `Exports` and `Service` |
| `CheckThenInsertProofs` | theorems about it |
| `LobbiesExportsProofs` | theorems about `Lobbies` and `Exports`, among them that each implements it |
| `ServiceProofs` | theorems about `Accounts`, `Bots` and `Service` as a whole |
| `MCRooms`, `MCMatchmaking`, `MCStatistics`, `MCRatings`, `MCFriends`, `MCService` | instances for TLC; the `.cfg` files give the constants |

### Rooms

Tables: `status`, `host`, `maxPlayers` are the columns of private_room, `part`
is room_participants by row id, `invites[r][u]` counts the Pending rows of
room_invitation (nothing updates or deletes them, so a count is all there is).
A request in flight is a slot `q`: `pc[q]` names the statement it runs next,
`who`, `where`, `row` are what it remembers. `faulted` is history: rooms on
which a handler died between two writes.

| Handler | Actions, in order |
|---|---|
| create_room | CreateRoom, InsertHost |
| join_room | JoinFind, JoinCheckMember, JoinCount, JoinInsert |
| leave_room | LeaveFind, LeaveUpdate, LeaveCount, LeaveMarkEmpty |
| invite_to_room | InviteAuthorise, InviteCheckJoined, InviteCheckPending, InviteInsert |
| any of them failing, client gone, process stopped | Abort |
| cleanup-expired-rooms | ExpiredRooms |

Requests refused by their first read change nothing and are not started.
Reads of rows that never change or vanish (host_id, the existence of the
invitee, the room before it is marked) are joined to their neighbour. The
room's password, code, name and timers are data without influence; `left_at`
is a Boolean, as only NULL matters.

### Matchmaking

`status` and `player` are the columns of queue, `matches` and `history` the
rows of match and game_history (history: match ids for which there is at least
one row; every delivery inserts another). `joined_at` is left out: any
set of Waiting rows may be more than an hour old when the job runs. `known` and
`members` are the external matchmaking service: it learns of entries by
QueueJoin, forgets them by QueueLeave, matches or gives up entries it knows.
`inbox` is the worker's queue in the broker, `wmsg`, `wpc`, `wtodo`, `wentry`
the message in the worker's hands and how far it has come; `acked` is history.

| Code | Actions |
|---|---|
| join_queue, join_queue_as_bot | JoinLobby, JoinCheck, JoinInsert, JoinPublish |
| leave_queue | LeaveFind, LeaveCancel, LeavePublish |
| handle_match_found | Consume, (FindEntry, MarkInMatch) per participant, InsertHistory, InsertMatch |
| handle_queue_cancelled | Consume, FindEntry, CancelEntry, CancelDone |
| client.rs consume | Acknowledge, Requeue (as part of the failing step) |
| worker failing, stopping, losing its channel | WorkerFault |
| cleanup-stale-queues | StaleQueues |
| matchmaking service (external) | FormMatch, GiveUp |

The two join handlers differ in whose rights they check, not in what they
write. Lobbies may be switched at any time, so the lobby check is a refusal
that may always or never happen. The broker delivers at least once and in any
order. Malformed messages are dropped before any handler sees them and leave no
trace in the model.

worker.rs:51 enters the runtime with `Handle::block_on` from a task of the same
runtime, which tokio rejects with a panic. What the consumer does after that is
a matter of libraries that are not in the repository; the model takes the
handlers as running the way they are written.

### Statistics

A match is its sequence of participants, three or four, not necessarily
different: a player who waits in the queue twice can be matched with himself,
and worker.rs:128 writes what the message says. `score[m]` are the score columns
(of a player in two columns only the first ever gets a score, worker.rs:188),
`finished` the completed matches in the order of completed_at. InsertMatch and
RecordResult are the two writes of the worker; everything else is a function of
the table: `JobPlacement`, `JobStats`, `JobStreak` for
jobs/statistics/update.rs; `Placement`, `Counters`, `UserStats`, `BotStats`,
`MayGetMatch` and the histories for matches.rs; `EloPlacement`, `Rated`,
`RatedMatches`, `ActualScore` for jobs/statistics/mmr_recalculation.rs;
`ExportMatches` for exports.rs. The job finds a player in his first column
(`SeatOf`), the query in the better placed one (`BestSeat`). Whom a pass of the
recalculation rates (users who are Active and not deleted, or the bots there
are) is a parameter, `pool`: what is said of it is said of every set of users
and every set of bots. The state space is the set of all tables, so an invariant
here is a check of pure code over all bounded inputs. Averages are kept as sum
and count; the job divides by all games, the query by those with a score. Sums
are `SumFunction` over the set of matches; the two loops whose order counts (the
matches by completed_at, and the streak over them) are recursive functions.

### Ratings

`rank` and `peak` are matchmaking_rank and peak_mmr. `worker` is the message in
the worker's hands, `calc` and `stats` the two jobs and what they have read.

| Code | Actions |
|---|---|
| handle_match_completed | Consume, FindMatch, CompleteMatch, (ReadRank, WriteRank) per participant, Acknowledge |
| client.rs consume, failing | Requeue as part of the failing step, WorkerFault |
| mmr-recalculation | CalcSelect, CalcMatches, (CalcWrite, CalcReadPeak, CalcRaise) per participant, CalcNext from users to bots |
| update-statistics | StatsSelect, (StatsRead, StatsWrite) per participant, StatsDone |
| delete_user, delete_bot | Delete |
| moderate_user | Moderate |

`suspended` are the users whose account_status is not Active. Both jobs select
Active users who are not deleted, and all bots (`Rateable`), once at the start
of a pass; the worker adds deltas to everybody. The ELO formula is floating
point: the operator constant `Elo` stands for its result in a pool, and nothing
is assumed of it but that no match gives the initial rank.

### Notifications and Friends

`note` and `friendship` are the tables. A handler that loops over rows or
counts several times is as many actions (MarkSelect, MarkUpdate..., MarkDone;
`List` and `Summary` count one set after the other). `churn[q]` is history: the
changes to a user's rows since request q took its first count. `late` and
`crossed` are history for answers and requests that overlapped, `untold` for
handlers that failed before the notification. Title, text, expiry and paging are
left out; the administrators' create_notification makes one type of
notification that the summary counts apart and moderate_user one that it does not.

### Lobbies, Bots, Exports, Accounts

| Handler | Actions |
|---|---|
| create_lobby / create_bot / create_user / request_data_export | LobbyCheck, LobbyInsert / BotCheck, BotInsert / UserCheck, UserInsert / ExportCheck, ExportInsert |
| update_lobby, delete_lobby | LobbyFind (LobbyDeactivate), LobbyRenameCheck, LobbyWrite |
| update_bot, delete_bot | BotFind, BotRenameCheck, BotWrite; BotDeleteFind, BotDelete |
| handle_bot_heartbeat | BeatFind, BeatUpdate |
| heartbeat-check | JobSelect, JobUpdate per bot, JobDone |
| cancel_export_request, complete_export | CancelFind, CancelDelete; CompleteFind, CompleteWrite |
| cleanup-export-files | CleanupSelect, CleanupDelete per row, CleanupDone |
| login, logout, delete_user | Login, Logout, UserDeleteFind, UserDelete |
| update_user | ProfileFind, ProfileWrite |
| moderate_user | ModerateFind, ModerateWrite, AuditInsert |
| update_report | ReportFind, ReportWrite, AuditInsert |
| update_system_config | ConfigFind, ConfigWrite, AuditInsert |
| cleanup-reports, cleanup-audit-logs | CleanupReports, CleanupAuditLogs |
| any handler failing | LobbyAbort, BotAbort, ExportAbort, AccountAbort |

Abstractions: last_heartbeat is never, old or fresh; the expiry of an export is
valid, expired or stale (more than seven days past its expiry), and time moves
it on; Suspended and Banned are one status because no code tells them apart, and
so are all reports but the dismissed ones, the only ones the cleanup looks at; a
configuration value is the administrator who wrote it; country, favourite tile,
pronouns and email are one column `profile`. file_path of an export is never set
by any code and is left out. `office` is the set of administrators as bots and
exports see it: ChangeRole, a whole request of another administrator, may take
the role from somebody or give it while his own request runs, which has been
checked already (bots.rs:193, exports.rs:607). user.username has a unique index:
UserInsert is refused if another registration came first, and the account stays
as it was; a deleted account has given its name up (users.rs:271). Names of
lobbies and bots have none. The four parts touch no common table (the notice of
moderate_user is in `Notifications`), so `Service` lets a behaviour be about one
of them: their sum, not their product.

## Runs

| Run | Instance | Shows |
|---|---|---|
| `rooms` | 3 users, 1 room for 3, 2 requests, 3 participant rows, 1 invitee | TypeOK, SeatBudget, MembershipBudget, NoAbandonedRoom, EmptyRoomOnlyDrains, ChecksAreKept |
| `rooms_live` | same without invitations, fair | DesertedRoomIsMarked |
| `rooms_overfull` | 4 users, 4 rows | violates CapacityRespected |
| `rooms_expired` | 2 users, fair | violates DesertedRoomIsClosed |
| `queue` | 1 player, 3 entries, 1 match of 2 or 3, 2 requests, 1 worker failure | TypeOK, MatchedHaveLeftQueue, AcknowledgedIsDone, QueueLifecycle, ChecksAreKept |
| `queue_live` | 1 player, 3 entries, 1 request, 1 worker failure, fair | WaitingEnds, MessageIsCarriedOut |
| `queue_left` | 2 players, 2 entries, matches of 2 | violates CancelledIsFinal |
| `statistics` | 2 users, 2 bots, 3 matches of 4, 3 and 3, a user twice in the third, two scores in the large match, missing scores in all | TypeOK, JobAgreesWithQueries, JobIsGenerous, StreakIsLastRun, MixedTableNeverHelps, HistoryCanBeOpened |
| `ratings` | 1 user, 1 bot, 1 match, 1 failure, the bot may be deleted, the user suspended | TypeOK, AcknowledgedIsApplied, PeakFallsOnlyInRace |
| `ratings_live` | 2 users, 1 bot, 1 match, 1 failure, 2 suspensions or activations, a user and the bot may be deleted, without update-statistics, fair | MessageIsSettled, RatingsConverge |
| `social` | 2 users, 2 friendships, 3 notifications, 2 requests | SocialTypeOK, ListedOnce, PartnersAreTold, CountsDrift, FriendshipLifecycle, NotificationLifecycle |
| `service` | 2 users of whom 1 administrator, 2 names, 2 requests at once, 3 in all, 2 rows per table, 1 report, 1 configuration key | ServiceTypeOK, LogExplainsState, ChecksAreKept, PowerIsHeld, ActiveFollowsRequest, LiveFollowsCause, SilentBotGoesOffline, ExportIsKept, StaleExportIsRemoved |

Why the bounds are enough. Two requests are the smallest number that races; the
budgets are stated for any number and proved for any number. One room: no
statement touches two. Three participant rows fill a room for three, and the
budgets count promised seats as well, so the last seat can be promised twice.
One player in the queue: a statement reads the rows of one player, and a player
who joins twice at once, leaves and joins again produces every combination of
entries. Three entries are the smallest match that is recorded (worker.rs:129),
two the largest that is not. One failure already repeats every statement of a
handler; a match message is requeued without a further failure once its match
exists.

In `statistics` there are four columns and three, one, two or all of a table of
each kind, and a user in two columns; NULL counts as 0 and with one or two other
values each match already has ties, losses and wins in all columns; three
matches make a run of a streak and its break. `ratings`: one match is enough to
add its delta twice, to add it beside a recalculation and to lose it; a second
one makes the state space too large and interacts with the first only through
the same rank. The samples of the ELO formula differ from the sum of the deltas, so
convergence is not a coincidence. `ratings_live` has two users, because a match
with one active user is not rated: a suspension changes the rank of the other,
and an activation brings back a rank which was left wrong. Two moderations
(MaxModerations) are a suspension and its end, or two users suspended. The run
leaves out update-statistics, which reads ranks and writes none; all that its
rows add to the recalculation is one more statement at which a deleted bot ends
it. `social` is, like `service`, a sum of two workloads (`MCFriends`):
friendships with the notifications they cause, and notifications that are
marked, deleted and counted. The handlers of friends.rs only insert
notifications, as create_notification and the notice of a moderator do in the
other workload. MaxNotes bounds the second, MaxRequests the number of requests
of a behaviour of `service` (the third comes after two that overlapped and meets
what they left; jobs, heartbeats and time are not bounded); requests run out,
hence CHECK_DEADLOCK FALSE. MaxFaults bounds the failures of worker and jobs.

What the properties of the second half say that the code's reader would not
expect:

- **JobAgreesWithQueries, JobIsGenerous**: a user's stored statistics and the
  answer of the statistics query are computed by different code. They agree if
  all the user's matches are over, with a score in every column and without ties;
  otherwise the stored ones are the better ones: ties share the better place
  (update.rs:372), and a match being played counts as a win (update.rs:214). The
  second holds for whoever has a score in every entry the query finds for him. It
  stops there: of a player matched with himself the job reads the first column, the
  query the better placed one, and if that is the second, which never gets a
  score, the query shows the better place (a negative score against NULL as 0).
- **MixedTableNeverHelps**: the recalculation takes places among all
  participants and divides by the number of those it rates
  (mmr_recalculation.rs:247): the users who are Active and not deleted, or the bots
  there are. Beside anybody else, of the other kind, suspended or deleted, this can
  only cost a rating.
- **RatingsConverge**: deltas added twice and overwritten ranks do happen; the
  recalculation, which never reads ranks, repairs them, for bots and for users who
  are Active. It passes over suspended and banned users (mmr_recalculation.rs:30),
  whose ranks stay wrong until they are activated again.
- **EmptyRoomOnlyDrains**: once a room is marked its members and the joiners on their
  way together never get more, and no handler that read it earlier opens it again.
- **StaleExportIsRemoved**: the fourteen days the code keeps an export, not the seven
  promised; see RetentionIsSevenDays below.
- **PeakFallsOnlyInRace, LiveFollowsCause, ExportIsKept, FriendshipLifecycle,
  ListedOnce, LogExplainsState**: each names the one race in which the code
  loses something (a peak, a live bot, a completed export, an answer, a second
  friendship, an audit trail) and says that there is no other way to lose it.
- **ChecksAreKept**: names of lobbies and of a user's bots, pending exports, the
  member rows and pending invitations of a room and the entries of a player in
  the queue are unique only up to the requests that overlap, and the seats of a
  room are limited only so far; each table implements `CheckThenInsert`. It says
  more than the budgets: no handler inserts twice for one check, and nothing but
  an insert makes a row count. InvitationBudget of `Rooms` and QueueBudget of
  `Matchmaking` follow from it (`BudgetHolds`) and are theorems without a run of
  their own. A bot renamed by an administrator is excepted, as its new name is
  looked up among the administrator's bots (bots.rs:201).

What the properties of the violated runs say:

- **CapacityRespected**: join_room counts and then inserts (rooms.rs:250,
  rooms.rs:266). Two joins that both count 2 of 3 make 4. Compare SeatBudget:
  this is as bad as it gets.
- **DesertedRoomIsClosed**: the job asks for status "Open", the service writes
  "Waiting" and "Empty" only. TypeOK of `Rooms` contains the invariant behind it.
- **CancelledIsFinal**: leave_queue answers "Left queue successfully"
  (matchmaking.rs:245), and the worker then writes "InMatch" over "Cancelled"
  (worker.rs:115), because the matchmaking service had matched the entry before
  it heard of the leave.

Three more properties state what the text of the repository says and the code
does not do. They have no run of their own; added to the run of their component
TLC refutes each at once. Next to each there is what does hold:
EmptyRoomOnlyDrains, MixedTableNeverHelps, StaleExportIsRemoved.

- **EmptyMeansDeserted** (`Rooms`): leave_room counts and marks in two
  statements (rooms.rs:323, :338), join_room reads the status in its first
  statement (rooms.rs:214) and inserts in its fourth: somebody may end up in a
  room nobody can join any more. EmptyRoomOnlyDrains says how far this goes.
- **LastPlaceGetsNothing** (`Statistics`): "last place gets 0.0"
  (mmr_recalculation.rs:246); the formula of the next line gives it 1/n, and
  less than 0 beside enough players who are not rated.
- **RetentionIsSevenDays** (`Exports`): "Export files are retained for 7 days after
  generation" (exports.rs:562); they expire after seven days (exports.rs:619) and the job
  takes what has been expired for seven more (export_files.rs:11).

One more observation has no property. A MatchFound that comes again after its
match row was written fails on the duplicate key each time, so it is requeued
forever (worker.rs:160, client.rs:178) - which is why MessageIsCarriedOut
promises the effect and not the acknowledgement.

### Fairness

Safety runs assume none. `Rooms!FairSpec`: a started handler takes its next
statement or fails (the runtime polls every future, the database answers), and
cron starts the job again and again. `Matchmaking!FairSpec`: the worker goes on
with the message it holds; every message ready for delivery is consumed if the
worker is idle again and again (strong, because handling another message
disables it; the broker keeps its queue in order, so none is passed over
forever); every row that goes on waiting grows an hour old and is met by the
cleanup. Nothing is assumed of clients, of publishes, of the matchmaking
service, and a handler of the service may stop anywhere.

`Ratings!FairSpec`: the worker is restarted and goes on, each message gets its
turn (strong, as above), and cron goes on running the recalculation; nothing is
assumed of the statistics job or the game server. `ServiceSpec`: cron goes on
running the heartbeat check and the cleanup of exports, and a job that has
started takes its next statement; nothing of handlers, heartbeats or time.

### Mutants

Each property has a deliberate mistake in the code it guards, next to the
bookkeeping operators of its module (`Mutant_...`): a dropped early return, an
off-by-one, a count without its filter, an update that saves the whole row, a
swapped order, a wrong status. With the mistake in place TLC finds the property
violated in the same instance.

## Proofs

`RoomsProofs`, `MatchmakingProofs`, `StatisticsProofs`, `RatingsProofs`,
`FriendsProofs`, `CheckThenInsertProofs`, `LobbiesExportsProofs` and
`ServiceProofs` are checked by TLAPS: every safety property the runs check is a
theorem. The constants are arbitrary sets subject to the named assumptions of
the modules:

- finitely many users of `Service`, request slots and row ids (also of
  notifications, lobbies, bots and exports), `None` outside every set that is
  compared with it (rooms, entries, participants, matches, friendships, names,
  statuses, ...);
- capacities 3 or 4 (rooms.rs:98), match sizes positive;
- of a match, that it has three or four columns, of participants who need not differ, and
  integer scores; of users and bots, that they are different and every bot has an owner;
- of the ELO formula, that its results are natural numbers, for pools of users
  or of bots;
- what the first state of `Service` needs to exist: a name for every
  administrator and every bot row, and a user who is no administrator to own the
  bots that are there from the start.

**Rooms.** `TypeCorrect` is inductive as it stands. `SeatBudgetHolds`,
`MembershipBudgetHolds` and `InvitationBudgetHolds` follow one argument: the
budget counts the rows and the requests that have passed the check but not yet
written. A check that succeeds has just seen the rows, and the requests it did
not see are at most all of them; a write turns a promise into a row; everything
else only shrinks the sum. That is why the budgets, and not the plain bounds,
are inductive (`CapacityIsBounded`, that k requests at once overfill a room by
at most k - 1, is a corollary). `NoRoomAbandoned` goes by what makes a room
deserted (its last member leaves and is then on the way to mark it, or a handler
dies) and by what can end such a leaver's way. `MarkedRoomsDrain` counts members
and joiners on their way in: a join starts only in a room that is Waiting, an
insert turns a joiner into a member (`EnteringStep`), everything else only
shrinks the sum; and nobody who marks a room opens one (`MarkedStays`).

`RoomsKeepChecks` is the refinement of `CheckThenInsert`, for seats (limit
max_players), members and invitations (limit 1) at once. A seat key is a room
with a capacity, which has rows only while the room has that capacity, because
the limit of a key is fixed and a room gets its own when it is made; creating
a room is a pass of the key it gets. `SeatMoves`, `MemberMoves` and
`InvitationMoves` say what a step may do to one key (nothing, lose rows, a
request passes, a request inserts or gives up), action by action; the key steps
of the abstract module follow from them by counting. A step of `Rooms` moves
several keys at once, as a join holds a seat and a member key, which is why
`CheckThenInsert!Next` is a conjunction over the keys. The budgets are proved on
their own all the same: unlike `CheckThenInsertProofs` they need no request slot
to exist.

**Matchmaking.** `TypeCorrect` is inductive (the clause that an insert of a
match row has its history row included). `LifecycleHolds` follows from one
lemma, `StatusStep`, on what a step can do to one entry. `MatchedHaveLeft` and
`AcknowledgedMeansDone` need a strengthening, `WorkerInv`:

- `Referenced`: entries known to the matchmaking service, members of matches and
  messages are about rows that were made, and a message about a match comes after
  the match; so nothing a message is about can start to wait later;
- `Progress`: for the message in hand, each entry is still in `wtodo`, is
  `wentry`, or waits no more; the match row follows when all are through; what is
  ready to be acknowledged, or was, is done.

A failure drops the position and keeps the effects, which is why redelivery is
harmless. `QueueBudgetHolds` repeats the argument of the seats, and
`QueueKeepsChecks` the refinement with players as keys (`QueueMoves`): whatever
the worker and the cleanup do to the rows of a player only ends entries.

**Statistics.** `TableInv` is inductive: the types, and that what has been made so
far is finite, so that it can be counted though `Matches` need not be.
`HistoriesOpen` is a look at the seat a participant is found in.

- Places. The match response orders the columns strictly (`Before`), so a column
  has a better place than another exactly if it comes before it
  (`PlacesAreRanks`). `MixedTables` compares two such counts: the number of
  columns ahead is the number of one's own kind ahead plus the others.
- Columns. `BestSeatFacts`: the entry the query finds is one of the player's, and if it
  has a score it is his first column, the one the job takes.
- `StatisticsAgree`. With a score in every column no player has two. Without
  ties and missing scores the columns the job puts before one are those the
  response puts there (`UntiedPlacesAgree`), so every counter counts the same
  set, and the sums add the same function.
- `JobGenerous`. `JobPlaceIsNoWorse` says so for one match; `CountsByPlace` turns the
  sum of the first k counters into the size of one set (the places 1 to k are
  disjoint), and the query's set is a subset of the job's (`MoreGamesNoWorse`).
- `StreakTheorem`. A loop is a recursive function on 0..n. That it has values
  (`LoopRuns`) and that all of them keep what each pass keeps (`LoopKeeps`) is an
  induction over the passes; it goes by the least element of a set of naturals, so it
  needs no operator as a parameter. Kept by the streak's loop is `CountsRun`: after k
  games the count is the signed length of the run the first k games end with. The
  run is unique (`RunIsUnique`), so the CHOOSE of the property finds it.

**Ratings.** `AcknowledgedMeansApplied` has the shape of
`AcknowledgedMeansDone`: `Progress` says that every participant of the message
in hand is still to be visited, is the one being written, has the delta or is
gone, and that a match which is over in the table is what the message says. A
fault drops the position and leaves the deltas, so the invariant survives the
redelivery that adds them twice. `PeaksFallInOneRace` rests on `PeaksRead`: what
update-statistics has read of a peak is never above it, and is it unless the
participant is in `raised`; what the recalculation is about to write is not below
it unless the bot is gone. Every other write of a peak raises it.

**Friends and Notifications.** One inductive invariant, `IInv` of
`FriendsProofs`, in five parts.

- `TypeInv` (`SocialTypeOK`): rows are never unmade (`NotesGrow`, `FriendsGrow`),
  so what a slot remembers stays true; the unique index compares a direction.
- `PartnersAreTold` is inductive with it: a telling request ends by inserting,
  which is `Added`, or by failing, which is `untold`.
- `ReadsInv` says what `late` is for: the row an answer will overwrite is still
  Pending (or removed), or an answer came since and is in `late`; every row that
  doubles the one about to be inserted is in `late`. `FriendshipsLive` and the
  invariant `PairsOnce`, from which `FriendsListedOnce` follows, are each one look
  at it.
- `CountInv`: the bound of `CountsDrift` speaks of complete answers only, and
  nothing can be concluded from it half way. Inductive is `CountOK`, which says
  after each count how far what has been counted and what is still to be counted
  (`Rest`) may be from the table of now: by `churn`. A change of the rows S moves
  every one of the five sizes by at most the number of the user's rows in S
  (`CardDrift`, `SetsAgree`), which is what `Churn` adds; the next count puts the
  size of now in the place of what is still to be counted (`CountNext`).

`NotificationsLive` needs that rows in `marked` are read or deleted, and that the
rows in a slot were there, both in `TypeInv`.

**CheckThenInsert and Lobbies.** `BudgetHolds` is the argument of the seats once
more, on the abstract level and for any limits. `LobbiesImplementChecks` proves
the refinement: the invariant `LobbyInv` of `LobbiesExportsProofs` (types, and
that a request that writes has found an existing lobby) makes every step of
`Lobbies` a step or stutter of each key. The mapping does not count a lobby that
a request is about to write under the same name again, or a rename to one's own
name would be a second row; that is why the rows of a key are `LobbyRows` and
not all lobbies of the name. `NameBudget` is then a corollary, and
`ActiveHasCause` an action property.

**Exports.** `CompletedIsKept` needs to know what those who delete by id have
read: whoever is about to delete a row found it not completed, or stale, and if
that has changed since is entered in `overtaken` (`WatchedByCancel`,
`WatchedByJob` in `ExportInv`). With it each step is one look at the row it changes
(`ExportStepKeeps`). `ExportsImplementChecks` and `PendingBudget` are the refinement
with users as keys; pending exports need no correction, as no row becomes
pending twice.

**Accounts, Bots, Service.** A behaviour of `Service` is about one part, so
`ServiceInv` says that the part that runs keeps its invariant and that the others
are as they began. Two parts have their invariant in `ServiceProofs`:

- `AccountsInv`. `AccountSlotOK`: what a request remembers fits the statement it
  is about to make, and the account it writes was registered. `Entitled`: who is
  about to change something holds the office for it or is in `fallen`;
  `PowerHeld` is one look at it for each of the writes. `LogOK` strengthens
  `LogExplainsState`, which is silent while an entry is awaited: of a subject that
  is not blurred at most one request owes an entry, and it owes exactly the value
  the subject has; if none does, the newest entry, if the cleanup left it, says the
  value. Two changes that overlap and a failure before the entry are what `blurred`
  is for, and the proof shows that nothing else needs an excuse.
- `BotsInv`. `BotSlotOK`: the bot a request has found may be gone by the time it
  writes but never becomes another's. `Due`: each bot the job is about to take off
  line is silent, or is in `beaten` because a heartbeat came after the selection;
  `LiveHasCause` follows (`Due` is to it what `WatchedByJob` is to `CompletedIsKept`).

`ServiceTypeCorrect`, `ServiceActiveHasCause` and `ServiceExportsAreKept`
combine these with the invariants of `Lobbies` and `Exports`.
`ServiceKeepsChecks` is the refinement of `CheckThenInsert` for the keys of all
parts at once (names of lobbies, names of the bots of a user, pending exports).
User names are not among them: there the index decides, not the check. It goes
key by key: for each action and each key one of pass, insert, leave, remove or
nothing (`CheckPass`, `CheckLeave`, `CheckRemove`), and only one key moves in a
step. For bots the rows of a key leave out those another than the owner renamed
(`foreign`) and those a rename in flight is about to write (the rename is a
holder, and a bot given its own name again would be counted twice).
`ServiceBudget` carries the budget over.

The proof of the refinement found a mistake in an earlier version of `Bots`:
deletion forgot whose the bot was, so with two renames of one bot in flight its
deletion ended both promises in one step, which no step of `CheckThenInsert`
does. It takes three requests at once, one more than the run has. Now the record
of a deleted bot keeps its owner, and a request that finds its row gone gives up by
itself, as the handler does (bots.rs:231).

**Not proved.** The liveness properties (DesertedRoomIsMarked, WaitingEnds,
MessageIsCarriedOut, MessageIsSettled, RatingsConverge, SilentBotGoesOffline,
StaleExportIsRemoved): fairness and ENABLED are out of the prover's reach. They
are checked by the runs, on their instances only. Nothing is said about the values
of the ELO formula, in the runs (a sample) or in the proofs (any natural numbers).

## Plan

Done: every module is checked; every safety property of every module is a
theorem; `CheckThenInsert` is the abstract specification, with refinements by
rooms, the queue, lobbies, bots and exports, which look before they insert and
have no index behind them. User names have a unique index. Friendships have an
index on the ordered pair; `ListedOnce` says what that is worth.

What a next step could be:

1. A second match in `Ratings` at the price of the deltas, to see two messages
   in one recalculation (the proofs hold for any number, the liveness run has one).
2. The deletion of accounts across modules, once the code says what is to become of
   the rows that stay behind.

## Not modelled

Password hashing and the session store (libraries), rate-limit headers, request
validation other than what the guards need, pagination, JSON and OpenAPI,
connection set-up and reconnection to PostgreSQL and RabbitMQ (a lost publish
stands for all of it), the floating point of the ELO formula. concluded_at of a
report is returned to clients (admin.rs), but nothing in the program is decided
by it, so the model leaves it out. Deletion of a user leaves rows in other
tables that nobody compares with the account again.
