---------------------------- MODULE Notifications ----------------------------
(***************************************************************************)
(* Table notifications: the handlers of src/src/api/notifications.rs and   *)
(* the cron job src/src/jobs/cleanup/notifications.rs.  An action is one   *)
(* statement; every handler works without a transaction.  The handlers of  *)
(* module Friends insert rows too and use the same request slots.          *)
(*                                                                         *)
(* Title, message and expires_at are left out: no code looks at them.      *)
(* Pages are left out: the list is counted whole.                          *)
(***************************************************************************)
EXTENDS Integers, FiniteSets, Sequences

CONSTANTS
    Users,     \* user ids
    NoteIds,   \* ids of rows of notifications (bounds how many are made)
    Requests,  \* slots for HTTP requests in flight
    None       \* "no value"

ASSUME NoteIdsAssumption == IsFiniteSet(NoteIds)

Types == {"FriendRequest", "SystemMessage", "ModeratorAction"}

VARIABLES
    note,      \* note[n]: [state, user, type, about] of a row
    req,       \* req[q]: [pc, user, row, todo, counts, other] of a request
    \* history
    churn,     \* churn[q]: changes to the user's rows since q's first count
    marked     \* rows a mark-read or mark-all-read request has reported as read

notesVars == <<note, req, churn, marked>>

Request == [pc |-> "idle", user |-> None, row |-> None, todo |-> {},
            counts |-> <<>>, other |-> None]

NotesInit ==
    /\ note = [n \in NoteIds |-> [state |-> "none", user |-> None, type |-> None,
                                  about |-> None]]
    /\ req = [q \in Requests |-> Request]
    /\ churn = [q \in Requests |-> 0]
    /\ marked = {}

\* The rows of a user, as the data export lists them too.
NotesOf(u) == {n \in NoteIds : note[n].user = u /\ note[n].state \in {"unread", "read"}}
Unread(u) == {n \in NotesOf(u) : note[n].state = "unread"}
FreshNotes == {n \in NoteIds : note[n].state = "none"}

Goto(q, next) == req' = [req EXCEPT ![q].pc = next]
Return(q) == req' = [req EXCEPT ![q] = Request]

\* Rows S change: the requests that are counting take note of those they count.
Churn(S) ==
    churn' = [q \in Requests |->
                 IF req[q].counts = <<>> THEN churn[q]
                    ELSE churn[q] + Cardinality({n \in S : note'[n].user = req[q].user})]

\* A new row, unread.
InsertNote(u, type, about) ==
    /\ FreshNotes # {}
    /\ LET n == CHOOSE m \in FreshNotes : TRUE
       IN  /\ note' = [note EXCEPT ![n] = [state |-> "unread", user |-> u,
                                           type |-> type, about |-> about]]
           /\ Churn({n})

SetNotes(S, state) ==
    /\ note' = [n \in NoteIds |-> IF n \in S THEN [note[n] EXCEPT !.state = state]
                                             ELSE note[n]]
    /\ Churn(S)

-----------------------------------------------------------------------------
(* Reading: GET /v1/notifications and /v1/notifications/summary.           *)

\* Mistake: friend requests are counted whether read or not.
Mutant_CountRead(u) ==
    << NotesOf(u), Unread(u),
       {n \in NotesOf(u) : note[n].type = "FriendRequest"},
       {n \in Unread(u) : note[n].type = "SystemMessage"} >>

\* The statements of get_notification_summary, in their order.
Summary(u) ==
    << NotesOf(u), Unread(u),
       {n \in Unread(u) : note[n].type = "FriendRequest"},
       {n \in Unread(u) : note[n].type = "SystemMessage"} >>

\* Those of get_notifications: total_count, unread_count and the list.
List(u, unreadOnly) ==
    LET rows == IF unreadOnly THEN Unread(u) ELSE NotesOf(u)
    IN << rows, Unread(u), rows >>

Statements(q) ==
    IF req[q].pc = "summary" THEN Summary(req[q].user)
                             ELSE List(req[q].user, req[q].pc = "listUnread")

StartReading(q, u, what) ==
    /\ req[q].pc = "idle"
    /\ what \in {"summary", "list", "listUnread"}
    /\ req' = [req EXCEPT ![q].pc = what, ![q].user = u]
    /\ UNCHANGED <<note, churn, marked>>

\* The next count.
Count(q) ==
    /\ req[q].pc \in {"summary", "list", "listUnread"}
    /\ LET i == Len(req[q].counts) + 1
       IN  /\ i <= Len(Statements(q))
           /\ req' = [req EXCEPT ![q].counts =
                         Append(@, Cardinality(Statements(q)[i]))]
    /\ UNCHANGED <<note, churn, marked>>

Respond(q) ==
    /\ req[q].pc \in {"summary", "list", "listUnread"}
    /\ Len(req[q].counts) = Len(Statements(q))
    /\ Return(q)
    /\ churn' = [churn EXCEPT ![q] = 0]
    /\ UNCHANGED <<note, marked>>

-----------------------------------------------------------------------------
(* Marking and deleting.                                                   *)

\* mark_notifications_as_read selects the rows that are asked for and the
\* user's; S are those among them that it will write, the unread ones.
MarkSelect(q, u, S) ==
    /\ req[q].pc = "idle"
    /\ S \subseteq Unread(u)
    /\ req' = [req EXCEPT ![q].pc = "mark", ![q].user = u, ![q].todo = S]
    /\ UNCHANGED <<note, churn, marked>>

\* Mistake: save() for update() writes a row again that was deleted.
Mutant_SaveNote(q, n) ==
    /\ req[q].pc = "mark" /\ n \in req[q].todo \ marked
    /\ SetNotes({n}, "read")
    /\ req' = [req EXCEPT ![q].todo = @ \ {n}]
    /\ marked' = marked \cup {n}

\* The update of one row that was unread when it was selected; a row deleted
\* since is an error that ends the request.
MarkUpdate(q, n) ==
    /\ req[q].pc = "mark" /\ n \in req[q].todo
    /\ \/ /\ note[n].state # "deleted"
          /\ SetNotes({n}, "read")
          /\ req' = [req EXCEPT ![q].todo = @ \ {n}]
          /\ marked' = marked \cup {n}
       \/ note[n].state = "deleted" /\ Return(q) /\ UNCHANGED <<note, churn, marked>>

MarkDone(q) ==
    /\ req[q].pc = "mark" /\ req[q].todo = {}
    /\ Return(q)
    /\ UNCHANGED <<note, churn, marked>>

\* mark_all_notifications_as_read: one statement.
MarkAll(u) ==
    /\ Unread(u) # {}
    /\ SetNotes(Unread(u), "read")
    /\ marked' = marked \cup Unread(u)
    /\ UNCHANGED req

\* delete_notification: the row exists and is the caller's.
DeleteFind(q, u, n) ==
    /\ req[q].pc = "idle"
    /\ n \in NotesOf(u)
    /\ req' = [req EXCEPT ![q].pc = "deleteNote", ![q].user = u, ![q].row = n]
    /\ UNCHANGED <<note, churn, marked>>

\* Deleting a row that is gone already is no error.
DeleteRow(q) ==
    /\ req[q].pc = "deleteNote"
    /\ IF note[req[q].row].state = "deleted" THEN UNCHANGED <<note, churn>>
                                             ELSE SetNotes({req[q].row}, "deleted")
    /\ Return(q)
    /\ UNCHANGED marked

\* create_notification of an administrator or moderator: one statement.
CreateNotification(u, type) ==
    /\ InsertNote(u, type, None)
    /\ UNCHANGED <<req, marked>>

\* The last statement of moderate_user.
ModeratorNotice(u) ==
    /\ InsertNote(u, "ModeratorAction", None)
    /\ UNCHANGED <<req, marked>>

\* Mistake: the age alone decides.
Mutant_DeleteOld(S) ==
    /\ S # {} /\ \A n \in S : note[n].state \in {"unread", "read"}
    /\ SetNotes(S, "deleted")
    /\ UNCHANGED <<req, marked>>

\* The cleanup deletes read rows older than 30 days: any set of read rows.
CleanupNotifications(S) ==
    /\ S # {} /\ \A n \in S : note[n].state = "read"
    /\ SetNotes(S, "deleted")
    /\ UNCHANGED <<req, marked>>

Reading(q) ==
    \/ \E u \in Users, what \in {"summary", "list", "listUnread"} : StartReading(q, u, what)
    \/ Count(q) \/ Respond(q)

Marking(q) ==
    \/ \E u \in Users, S \in SUBSET NoteIds : MarkSelect(q, u, S)
    \/ \E u \in Users, n \in NoteIds : DeleteFind(q, u, n)
    \/ \E n \in NoteIds : MarkUpdate(q, n)
    \/ MarkDone(q) \/ DeleteRow(q)

AtOnce ==
    \/ \E u \in Users : MarkAll(u) \/ ModeratorNotice(u)
    \/ \E u \in Users, type \in {"FriendRequest", "SystemMessage"} : CreateNotification(u, type)
    \/ \E S \in SUBSET NoteIds : CleanupNotifications(S)

-----------------------------------------------------------------------------
(* Properties.                                                             *)

NotesTypeOK ==
    /\ \A n \in NoteIds :
          /\ note[n].state \in {"none", "unread", "read", "deleted"}
          /\ note[n].state # "none" => note[n].user \in Users /\ note[n].type \in Types
    /\ churn \in [Requests -> Nat]
    /\ marked \subseteq NoteIds
    /\ \A q \in Requests :
          /\ \A n \in req[q].todo : note[n].user = req[q].user
          /\ req[q].pc = "deleteNote" => note[req[q].row].user = req[q].user

\* A row is read once and deleted once and never comes back; whoever deletes
\* an unread row is its user, the cleanup never does; and what has been
\* reported as read stays read (notifications.rs:206 writes rows it selected
\* before, jobs/cleanup/notifications.rs:11 deletes in between).
NotificationLifecycle ==
    [][\A n \in NoteIds : note'[n].state # note[n].state =>
          \/ note[n].state = "none" /\ note'[n].state = "unread"
          \/ note[n].state = "unread" /\ note'[n].state = "read" /\ n \in marked'
          \/ note[n].state = "read" /\ note'[n].state = "deleted"
          \/ /\ note[n].state = "unread" /\ note'[n].state = "deleted"
             /\ n \notin marked
             /\ \E q \in Requests : /\ req[q].pc = "deleteNote" /\ req[q].row = n
                                    /\ req[q].user = note[n].user]_notesVars

Distance(a, b) == IF a >= b THEN a - b ELSE b - a
Notices(u) == {n \in Unread(u) : note[n].type = "ModeratorAction"}

\* The counts of one answer come from different moments, but they disagree
\* by no more than what changed while they were taken: the unread ones are
\* those of the two kinds and the notices of moderators, which the summary
\* does not count apart, and not more than all (notifications.rs:329); the
\* list has as many rows as its total (notifications.rs:125).
CountsDrift ==
    \A q \in Requests :
        LET c == req[q].counts
        IN  /\ req[q].pc = "summary" /\ Len(c) = 4 =>
                  /\ Distance(c[2], c[3] + c[4] + Cardinality(Notices(req[q].user))) <= churn[q]
                  /\ c[2] <= c[1] + churn[q]
            /\ req[q].pc = "list" /\ Len(c) = 3 =>
                  Distance(c[1], c[3]) <= churn[q] /\ c[2] <= c[1] + churn[q]
            /\ req[q].pc = "listUnread" /\ Len(c) = 3 =>
                  Distance(c[1], c[3]) <= churn[q] /\ Distance(c[1], c[2]) <= churn[q]

=============================================================================
