------------------------------- MODULE Rooms -------------------------------
(***************************************************************************)
(* Private rooms: src/src/api/rooms.rs over the tables private_room,       *)
(* room_participants and room_invitation, with the cron job                *)
(* src/src/jobs/cleanup/expired_rooms.rs.                                  *)
(*                                                                         *)
(* The service opens no database transaction, so a handler is a sequence   *)
(* of independent statements and other handlers run between any two of     *)
(* them.  An action below is one statement of a handler together with the  *)
(* code that leads to the next one; a request is a slot of Requests that   *)
(* remembers what it has read.  Requests is the concurrency of the         *)
(* service: how many handlers may be between two statements at once.       *)
(*                                                                         *)
(* A request that is refused before it wrote anything changes no state     *)
(* and is simply not started, or returns to "idle".                        *)
(***************************************************************************)
EXTENDS Naturals, FiniteSets

CONSTANTS
    Users,       \* user ids
    Rooms,       \* room ids; a room is created at most once
    Requests,    \* slots for requests in flight
    PartIds,     \* ids of room_participants rows (bounds how often users join)
    Capacities,  \* values of max_players a client may ask for
    Invitees,    \* users somebody invites (bounds the invitations)
    None         \* "no value" in a column or a local variable

ASSUME FiniteAssumption == IsFiniteSet(Requests) /\ IsFiniteSet(PartIds)
ASSUME NoneAssumption == None \notin Users \cup Rooms \cup PartIds
ASSUME InviteeAssumption == Invitees \subseteq Users
\* create_room refuses every other max_players (rooms.rs:98).
ASSUME CapacityAssumption == Capacities \subseteq 3..4

VARIABLES
    \* table private_room
    status,      \* status[r]; "None" while the row does not exist
    host,        \* host[r]: host_id
    maxPlayers,  \* maxPlayers[r]
    \* table room_participants
    part,        \* part[p]: the row with id p, or None
    \* table room_invitation, which no code updates: how many Pending rows
    invites,     \* invites[r][u]
    \* the requests in flight
    pc,          \* pc[q]: the statement request q runs next
    who,         \* who[q]: the user whose membership it is about, that is the
                 \* authenticated one, or the invitee of invite_to_room
    where,       \* where[q]: the room the request works on
    row,         \* row[q]: the participant row leave_room has found
    \* history
    faulted      \* rooms on which a handler died between two of its writes

table == <<status, host, maxPlayers, part, invites>>
request == <<pc, who, where, row>>
vars == <<table, request, faulted>>

ParticipantRow ==
    [room: Rooms, user: Users, status: {"Joined", "Left"}, left_at: BOOLEAN]

ASSUME RowAssumption == None \notin ParticipantRow

RoomStatus == {"None", "Waiting", "Empty", "Closed"}

JoinPc == {"checkMember", "countJoined", "insertJoin"}
LeavePc == {"markLeft", "countLeft", "markEmpty"}
InvitePc == {"checkInvitee", "checkPending", "insertInvite"}
Pc == {"idle", "insertHost"} \cup JoinPc \cup LeavePc \cup InvitePc

-----------------------------------------------------------------------------
(* What the queries see.                                                   *)

\* The rows of room r with status = "Joined".
Joined(r) == {p \in PartIds : part[p] # None /\ part[p].room = r
                                             /\ part[p].status = "Joined"}

\* The rows the existence checks for user u in room r select.
JoinedAs(r, u) == {p \in Joined(r) : part[p].user = u}

\* get_user_rooms: the rooms a user is in.
UserRooms(u) == {r \in Rooms : JoinedAs(r, u) # {}}

Free == {p \in PartIds : part[p] = None}

-----------------------------------------------------------------------------
(* Bookkeeping of request slots.                                           *)

Start(q, u, r, next) ==
    /\ pc[q] = "idle"
    /\ pc' = [pc EXCEPT ![q] = next]
    /\ who' = [who EXCEPT ![q] = u]
    /\ where' = [where EXCEPT ![q] = r]

Goto(q, next) ==
    /\ pc' = [pc EXCEPT ![q] = next]
    /\ UNCHANGED <<who, where, row>>

Return(q) ==
    /\ pc' = [pc EXCEPT ![q] = "idle"]
    /\ who' = [who EXCEPT ![q] = None]
    /\ where' = [where EXCEPT ![q] = None]
    /\ row' = [row EXCEPT ![q] = None]

\* A new room_participants row under a fresh id, no matter which; no
\* constraint of the schema can refuse it.
InsertJoined(r, u) ==
    /\ Free # {}
    /\ part' = [part EXCEPT ![CHOOSE p \in Free : TRUE] =
                    [room |-> r, user |-> u, status |-> "Joined", left_at |-> FALSE]]

-----------------------------------------------------------------------------
(* Deliberate mistakes, one per property, to see each property fail.  None *)
(* of them is part of the specification.                                   *)

\* LeaveMarkEmpty in the vocabulary of the cron job.
Mutant_MarkOpen(q) ==
    /\ pc[q] = "markEmpty"
    /\ status' = [status EXCEPT ![where[q]] = "Open"]
    /\ Return(q)
    /\ UNCHANGED <<host, maxPlayers, part, invites, faulted>>

\* LeaveMarkEmpty without the update.
Mutant_MarkNothing(q) ==
    /\ pc[q] = "markEmpty"
    /\ Return(q)
    /\ UNCHANGED <<table, faulted>>

\* JoinCount with > for >=.
Mutant_CountOffByOne(q) ==
    /\ pc[q] = "countJoined"
    /\ \/ /\ Cardinality(Joined(where[q])) <= maxPlayers[where[q]]
          /\ Goto(q, "insertJoin")
       \/ /\ Cardinality(Joined(where[q])) > maxPlayers[where[q]]
          /\ Return(q)
    /\ UNCHANGED <<table, faulted>>

\* JoinCheckMember without the early return.
Mutant_NoMemberCheck(q) ==
    /\ pc[q] = "checkMember"
    /\ Goto(q, "countJoined")
    /\ UNCHANGED <<table, faulted>>

\* InviteCheckPending without the early return.
Mutant_NoPendingCheck(q) ==
    /\ pc[q] = "checkPending"
    /\ Goto(q, "insertInvite")
    /\ UNCHANGED <<table, faulted>>

\* LeaveCount without the status filter: rows of users who left count, too.
Mutant_CountAllRows(q) ==
    /\ pc[q] = "countLeft"
    /\ \/ (\A p \in PartIds \ Free : part[p].room # where[q]) /\ Goto(q, "markEmpty")
       \/ (\E p \in PartIds \ Free : part[p].room = where[q]) /\ Return(q)
    /\ UNCHANGED <<table, faulted>>

\* JoinFind without the status check.
Mutant_JoinAnyStatus(q, u, r) ==
    /\ Start(q, u, r, "checkMember")
    /\ status[r] # "None"
    /\ UNCHANGED <<table, row, faulted>>

-----------------------------------------------------------------------------
Init ==
    /\ status = [r \in Rooms |-> "None"]
    /\ host = [r \in Rooms |-> None]
    /\ maxPlayers = [r \in Rooms |-> 0]
    /\ part = [p \in PartIds |-> None]
    /\ invites = [r \in Rooms |-> [u \in Users |-> 0]]
    /\ pc = [q \in Requests |-> "idle"]
    /\ who = [q \in Requests |-> None]
    /\ where = [q \in Requests |-> None]
    /\ row = [q \in Requests |-> None]
    /\ faulted = {}

-----------------------------------------------------------------------------
(* POST /v1/rooms                                                          *)

\* Validate, generate a code that no room has (the unique index on room_code
\* refuses the insert otherwise) and insert the room.
CreateRoom(q, u, r, m) ==
    /\ Start(q, u, r, "insertHost")
    /\ status[r] = "None"
    /\ status' = [status EXCEPT ![r] = "Waiting"]
    /\ host' = [host EXCEPT ![r] = u]
    /\ maxPlayers' = [maxPlayers EXCEPT ![r] = m]
    /\ UNCHANGED <<part, invites, row, faulted>>

InsertHost(q) ==
    /\ pc[q] = "insertHost"
    /\ InsertJoined(where[q], who[q])
    /\ Return(q)
    /\ UNCHANGED <<status, host, maxPlayers, invites, faulted>>

-----------------------------------------------------------------------------
(* POST /v1/rooms/join                                                     *)

\* The room is found by its code and accepts players; the password, if the
\* room has one, is right.  invite_only is not looked at.
JoinFind(q, u, r) ==
    /\ Start(q, u, r, "checkMember")
    /\ status[r] = "Waiting"
    /\ UNCHANGED <<table, row, faulted>>

JoinCheckMember(q) ==
    /\ pc[q] = "checkMember"
    /\ \/ JoinedAs(where[q], who[q]) = {} /\ Goto(q, "countJoined")
       \/ JoinedAs(where[q], who[q]) # {} /\ Return(q)
    /\ UNCHANGED <<table, faulted>>

JoinCount(q) ==
    /\ pc[q] = "countJoined"
    /\ \/ /\ Cardinality(Joined(where[q])) < maxPlayers[where[q]]
          /\ Goto(q, "insertJoin")
       \/ /\ Cardinality(Joined(where[q])) >= maxPlayers[where[q]]
          /\ Return(q)
    /\ UNCHANGED <<table, faulted>>

JoinInsert(q) ==
    /\ pc[q] = "insertJoin"
    /\ InsertJoined(where[q], who[q])
    /\ Return(q)
    /\ UNCHANGED <<status, host, maxPlayers, invites, faulted>>

-----------------------------------------------------------------------------
(* POST /v1/rooms/{id}/leave                                               *)

\* One Joined row of the user, any of them if there are several.
LeaveFind(q, u, r) ==
    /\ Start(q, u, r, "markLeft")
    /\ \E p \in JoinedAs(r, u) : row' = [row EXCEPT ![q] = p]
    /\ UNCHANGED <<table, faulted>>

\* UPDATE of two columns by primary key, whatever the row says by now.
LeaveUpdate(q) ==
    /\ pc[q] = "markLeft"
    /\ part' = [part EXCEPT ![row[q]] = [@ EXCEPT !.status = "Left", !.left_at = TRUE]]
    /\ Goto(q, "countLeft")
    /\ UNCHANGED <<status, host, maxPlayers, invites, faulted>>

LeaveCount(q) ==
    /\ pc[q] = "countLeft"
    /\ \/ Joined(where[q]) = {} /\ Goto(q, "markEmpty")
       \/ Joined(where[q]) # {} /\ Return(q)
    /\ UNCHANGED <<table, faulted>>

\* Only the status column is written; the room that was read before it
\* cannot be missing, as nothing deletes rooms.
LeaveMarkEmpty(q) ==
    /\ pc[q] = "markEmpty"
    /\ status' = [status EXCEPT ![where[q]] = "Empty"]
    /\ Return(q)
    /\ UNCHANGED <<host, maxPlayers, part, invites, faulted>>

-----------------------------------------------------------------------------
(* POST /v1/rooms/{id}/invite                                              *)

\* The room exists and the inviter is its host or has joined it; the
\* invitee is a user.  host_id and user rows never go away, so these reads
\* count as one.  From here on the inviter is only a column of the new row.
InviteAuthorise(q, u, r, v) ==
    /\ Start(q, v, r, "checkInvitee")
    /\ status[r] # "None"
    /\ host[r] = u \/ JoinedAs(r, u) # {}
    /\ UNCHANGED <<table, row, faulted>>

InviteCheckJoined(q) ==
    /\ pc[q] = "checkInvitee"
    /\ \/ JoinedAs(where[q], who[q]) = {} /\ Goto(q, "checkPending")
       \/ JoinedAs(where[q], who[q]) # {} /\ Return(q)
    /\ UNCHANGED <<table, faulted>>

InviteCheckPending(q) ==
    /\ pc[q] = "checkPending"
    /\ \/ invites[where[q]][who[q]] = 0 /\ Goto(q, "insertInvite")
       \/ invites[where[q]][who[q]] # 0 /\ Return(q)
    /\ UNCHANGED <<table, faulted>>

InviteInsert(q) ==
    /\ pc[q] = "insertInvite"
    /\ invites' = [invites EXCEPT ![where[q]][who[q]] = @ + 1]
    /\ Return(q)
    /\ UNCHANGED <<status, host, maxPlayers, part, faulted>>

-----------------------------------------------------------------------------
(* Failures and the cron job.                                              *)

\* A statement fails (every ? and map_err(AppError::Database)), the client
\* goes away or the process stops: the handler ends where it stands and
\* undoes nothing.  A stop of the whole process is this for every request.
Abort(q) ==
    /\ pc[q] # "idle"
    /\ faulted' = IF pc[q] \in {"insertHost", "countLeft", "markEmpty"}
                     THEN faulted \cup {where[q]} ELSE faulted
    /\ Return(q)
    /\ UNCHANGED table

\* Rows without left_at: what the job takes for active participants.
Active(r) == {p \in PartIds : part[p] # None /\ part[p].room = r /\ ~part[p].left_at}

\* The job selects rooms with status "Open".  The selection is always empty
\* (TypeOK: no code writes "Open"), so the per-room statements that follow
\* never interleave with anything and the run is one step.
ExpiredRooms ==
    /\ status' = [r \in Rooms |-> IF status[r] = "Open" /\ Active(r) = {}
                                     THEN "Closed" ELSE status[r]]
    /\ UNCHANGED <<host, maxPlayers, part, invites, request, faulted>>

-----------------------------------------------------------------------------

\* A statement of the handler that runs in slot q.
Step(q) ==
    \/ InsertHost(q)
    \/ JoinCheckMember(q) \/ JoinCount(q) \/ JoinInsert(q)
    \/ LeaveUpdate(q) \/ LeaveCount(q) \/ LeaveMarkEmpty(q)
    \/ InviteCheckJoined(q) \/ InviteCheckPending(q) \/ InviteInsert(q)

Call(q, u, r) ==
    \/ \E m \in Capacities : CreateRoom(q, u, r, m)
    \/ JoinFind(q, u, r)
    \/ LeaveFind(q, u, r)
    \/ \E v \in Invitees : InviteAuthorise(q, u, r, v)

Next ==
    \/ \E q \in Requests, u \in Users, r \in Rooms : Call(q, u, r)
    \/ \E q \in Requests : Step(q) \/ Abort(q)
    \/ ExpiredRooms

Spec == Init /\ [][Next]_vars

\* The runtime keeps polling a handler's future and the database answers
\* every statement, so a started handler takes its next step or fails.
\* Clients owe nothing; the job is started again and again by cron.
Fairness ==
    /\ \A q \in Requests : WF_vars(Step(q) \/ Abort(q))
    /\ WF_vars(ExpiredRooms)

FairSpec == Spec /\ Fairness

-----------------------------------------------------------------------------
(* Properties.                                                             *)

\* Every column and local variable has its type; a request holds exactly the
\* locals its handler has set at that point; rows and requests refer to rooms
\* that exist, as the foreign keys demand.  No row of private_room ever says
\* "Open", the only status cleanup/expired_rooms.rs looks for.
TypeOK ==
    /\ status \in [Rooms -> RoomStatus]
    /\ host \in [Rooms -> Users \cup {None}]
    /\ maxPlayers \in [Rooms -> Nat]
    /\ part \in [PartIds -> ParticipantRow \cup {None}]
    /\ invites \in [Rooms -> [Users -> Nat]]
    /\ pc \in [Requests -> Pc]
    /\ who \in [Requests -> Users \cup {None}]
    /\ where \in [Requests -> Rooms \cup {None}]
    /\ row \in [Requests -> PartIds \cup {None}]
    /\ faulted \subseteq Rooms
    /\ \A p \in PartIds : part[p] # None => status[part[p].room] # "None"
    /\ \A q \in Requests :
        /\ pc[q] # "idle" => who[q] \in Users /\ where[q] \in Rooms
        /\ pc[q] # "idle" => status[where[q]] # "None"
        /\ pc[q] = "markLeft" => /\ row[q] \in PartIds
                                 /\ part[row[q]] # None
                                 /\ part[row[q]].room = where[q]

\* Requests that have passed the checks and are about to take a seat in r.
Admitted(r) == {q \in Requests : /\ where[q] = r
                                 /\ pc[q] \in {"insertHost", "insertJoin"}}

\* Seats taken and seats promised: the capacity check of join_room
\* (rooms.rs:250) is a read that does not reserve, so every request in
\* flight may still be promised the last seat, but no more than that.
SeatBudget ==
    \A r \in Rooms : status[r] # "None" =>
        Cardinality(Joined(r)) + Cardinality(Admitted(r)) + 1
            <= maxPlayers[r] + Cardinality(Requests)

\* The overrun of max_players is bounded by the concurrency of the service:
\* k simultaneous handlers put at most k - 1 users too many into a room, and
\* a service that handles one request at a time none.
CapacityBounded ==
    \A r \in Rooms : status[r] # "None" =>
        Cardinality(Joined(r)) + 1 <= maxPlayers[r] + Cardinality(Requests)

\* Requests of u that saw no Joined row of u in r and may still insert one.
Joining(r, u) ==
    {q \in Requests : /\ where[q] = r /\ who[q] = u
                      /\ pc[q] \in {"insertHost", "countJoined", "insertJoin"}}

\* The "already in this room" check (rooms.rs:228) limits the Joined rows of
\* one user in one room, written and about to be written, to the number of
\* simultaneous requests: one when requests are handled one at a time.
MembershipBudget ==
    \A r \in Rooms, u \in Users :
        Cardinality(JoinedAs(r, u)) + Cardinality(Joining(r, u))
            <= Cardinality(Requests)

\* Requests that saw no Pending invitation of v to r and will insert one.
Inviting(r, v) == {q \in Requests : /\ where[q] = r /\ who[q] = v
                                    /\ pc[q] = "insertInvite"}

\* The same for the pending-invitation check (rooms.rs:485).
InvitationBudget ==
    \A r \in Rooms, v \in Users :
        invites[r][v] + Cardinality(Inviting(r, v)) <= Cardinality(Requests)

\* Everything that is counted or looked for before it is inserted: the seats
\* of a room for m, the member rows of a user and the pending invitations.
CheckedKeys ==
    ({"seat"} \X Rooms \X Capacities) \cup ({"member", "invitation"} \X Rooms \X Users)

LimitOf(k) == IF k[1] = "seat" THEN k[3] ELSE 1

RowsOf(k) ==
    CASE k[1] = "seat" -> IF maxPlayers[k[2]] = k[3] THEN Cardinality(Joined(k[2])) ELSE 0
      [] k[1] = "member" -> Cardinality(JoinedAs(k[2], k[3]))
      [] k[1] = "invitation" -> invites[k[2]][k[3]]

HoldersOf(k) ==
    CASE k[1] = "seat" -> IF maxPlayers[k[2]] = k[3] THEN Admitted(k[2]) ELSE {}
      [] k[1] = "member" -> Joining(k[2], k[3])
      [] k[1] = "invitation" -> Inviting(k[2], k[3])

Checks == INSTANCE CheckThenInsert WITH
    Keys    <- CheckedKeys,
    Limit   <- [k \in CheckedKeys |-> LimitOf(k)],
    rows    <- [k \in CheckedKeys |-> RowsOf(k)],
    holders <- [k \in CheckedKeys |-> HoldersOf(k)]

\* Whatever runs next to a request, it inserts only what it has passed the
\* check for, and passing, inserting and giving up are what CheckThenInsert
\* says, on seats, members and invitations at once (rooms.rs:228, :250, :485).
ChecksAreKept == Checks!Spec

\* A room whose creator is between the two inserts of create_room.
BeingCreated(r) == \E q \in Requests : pc[q] = "insertHost" /\ where[q] = r

\* A room nobody is in and that still accepts players.
Deserted(r) == status[r] = "Waiting" /\ Joined(r) = {} /\ ~BeingCreated(r)

\* However many users leave at once, one of them counts zero (rooms.rs:323)
\* and marks the room: a deserted room always has a leaver on its way to do
\* so, unless a handler died between its writes.
NoAbandonedRoom ==
    \A r \in Rooms : Deserted(r) =>
        \/ r \in faulted
        \/ \E q \in Requests : where[q] = r /\ pc[q] \in {"countLeft", "markEmpty"}

\* Requests that have found the room and may still take a seat in it.
Entering(r) == {q \in Requests : /\ where[q] = r
                                 /\ pc[q] \in {"insertHost"} \cup JoinPc}

\* A room that was marked only empties: no handler that read it earlier opens
\* it again, and the members and those on their way in, together, never get
\* more.  A join that passed the status check (rooms.rs:214) before the last
\* member left may end inside an "Empty" room, but nobody follows it; the job
\* may still close the room.
EmptyRoomOnlyDrains ==
    [][\A r \in Rooms : status[r] \in {"Empty", "Closed"} =>
          /\ status'[r] \in {"Empty", "Closed"}
          /\ Cardinality(Joined(r)') + Cardinality(Entering(r)')
                <= Cardinality(Joined(r)) + Cardinality(Entering(r))]_vars

\* The leavers that NoAbandonedRoom promises do arrive: a deserted room is
\* marked, is among somebody's rooms again, or was struck by a failure.
DesertedRoomIsMarked ==
    \A r \in Rooms : Deserted(r) ~>
        (status[r] = "Empty" \/ (\E u \in Users : r \in UserRooms(u)) \/ r \in faulted)

\* An "Empty" room no request is working on has nobody in it (rooms.rs:322
\* "Check if the room is now empty and update status"; :213 "Check if room is
\* still accepting players").  The code does not keep to it: a join that found
\* the room Waiting inserts after the last leaver has counted.
EmptyMeansDeserted ==
    \A r \in Rooms :
        status[r] = "Empty" /\ (\A q \in Requests : where[q] # r) => Joined(r) = {}

\* join_room refuses a full room (rooms.rs:186 "room full", :242 "Check if
\* room is full"): never more Joined rows than max_players.
CapacityRespected ==
    \A r \in Rooms : Cardinality(Joined(r)) <= maxPlayers[r]

\* The cron job closes rooms without active participants (expired_rooms.rs:8
\* "Find rooms that are open but have no active participants", :27).
DesertedRoomIsClosed ==
    \A r \in Rooms : (status[r] = "Empty" /\ Active(r) = {})
                        ~> (status[r] = "Closed" \/ Active(r) # {})
=============================================================================
