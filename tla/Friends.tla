------------------------------- MODULE Friends -------------------------------
(***************************************************************************)
(* Table friendship and the handlers of src/src/api/friends.rs, which also *)
(* insert rows into table notifications.  An action is one statement or a  *)
(* group of statements of which one touches friendship or notifications;   *)
(* no handler uses a transaction.  Users are deleted softly, so that the   *)
(* rows a friendship refers to are always found.                           *)
(***************************************************************************)
EXTENDS Notifications

CONSTANT FriendIds   \* ids of rows of friendship (bounds how many are made)

ASSUME FriendIdsAssumption == None \notin FriendIds

VARIABLES
    friendship,  \* friendship[f]: [status, from, to]; from is requester_id
    \* history
    late,        \* late[q]: rows inserted or answered since q read the table
    crossed,     \* rows inserted although one for the pair was in late
    untold       \* rows whose request failed before its notification

friendVars == <<friendship, late, crossed, untold>>
socialVars == <<notesVars, friendVars>>

Live == {f \in FriendIds : friendship[f].status \notin {"none", "removed"}}
Pair(f) == {friendship[f].from, friendship[f].to}
\* What the unique index over (requester_id, addressee_id) compares.
Directed(u, v) == {f \in Live : friendship[f].from = u /\ friendship[f].to = v}
FreshRows == {f \in FriendIds : friendship[f].status = "none"}

SocialInit ==
    /\ NotesInit
    /\ friendship = [f \in FriendIds |-> [status |-> "none", from |-> None, to |-> None]]
    /\ late = [q \in Requests |-> {}]
    /\ crossed = {} /\ untold = {}

Deciding == {q \in Requests : req[q].pc \in {"insertRequest", "Accepted", "Declined"}}
Written(f) == late' = [q \in Requests |-> IF q \in Deciding THEN late[q] \cup {f} ELSE {}]
ReadNow(q) == late' = [late EXCEPT ![q] = {}]

-----------------------------------------------------------------------------
(* POST /v1/friends/request                                                *)

\* Mistake: only the caller's own requests are looked for.
Mutant_OneDirection(q, u, v) ==
    /\ req[q].pc = "idle"
    /\ Directed(u, v) = {}
    /\ req' = [req EXCEPT ![q].pc = "insertRequest", ![q].user = u, ![q].other = v]
    /\ ReadNow(q)
    /\ UNCHANGED <<note, churn, marked, friendship, crossed, untold>>

\* The target exists, and no row, whatever its status, has the pair in either
\* direction.  Nothing keeps the caller from naming himself.
SendCheck(q, u, v) ==
    /\ req[q].pc = "idle"
    /\ ~\E f \in Live : Pair(f) = {u, v}
    /\ req' = [req EXCEPT ![q].pc = "insertRequest", ![q].user = u, ![q].other = v]
    /\ ReadNow(q)
    /\ UNCHANGED <<note, churn, marked, friendship, crossed, untold>>

\* The unique index covers (requester_id, addressee_id): a second row with
\* the same direction is an error.
SendInsert(q) ==
    /\ req[q].pc = "insertRequest"
    /\ LET u == req[q].user
           v == req[q].other
       IN  \/ /\ Directed(u, v) # {}
              /\ Return(q)
              /\ UNCHANGED friendVars
           \/ /\ Directed(u, v) = {}
              /\ FreshRows # {}
              /\ LET f == CHOOSE g \in FreshRows : TRUE
                 IN  /\ friendship' = [friendship EXCEPT ![f] =
                                         [status |-> "Pending", from |-> u, to |-> v]]
                     /\ crossed' = IF \E g \in late[q] : Pair(g) = {u, v}
                                      THEN crossed \cup {f} ELSE crossed
                     /\ req' = [req EXCEPT ![q].pc = "tellAddressee", ![q].row = f]
                     /\ Written(f)
              /\ UNCHANGED untold
    /\ UNCHANGED <<note, churn, marked>>

SendNotify(q) ==
    /\ req[q].pc = "tellAddressee"
    /\ InsertNote(req[q].other, "FriendRequest", req[q].row)
    /\ Return(q)
    /\ UNCHANGED <<marked, friendVars>>

-----------------------------------------------------------------------------
(* PATCH /v1/friends/requests/{id}                                         *)

\* The row exists, is addressed to the caller and is pending.
AnswerFind(q, u, f, answer) ==
    /\ req[q].pc = "idle"
    /\ friendship[f].status = "Pending" /\ friendship[f].to = u
    /\ answer \in {"Accepted", "Declined"}
    /\ req' = [req EXCEPT ![q].pc = answer, ![q].user = u, ![q].row = f]
    /\ ReadNow(q)
    /\ UNCHANGED <<note, churn, marked, friendship, crossed, untold>>

\* Mistake: save() for update() makes a removed friendship anew.
Mutant_SaveAnswer(q) ==
    /\ req[q].pc \in {"Accepted", "Declined"}
    /\ friendship' = [friendship EXCEPT ![req[q].row].status = req[q].pc]
    /\ Goto(q, "tellRequester")
    /\ Written(req[q].row)
    /\ UNCHANGED <<note, churn, marked, crossed, untold>>

\* The update by id, whatever the status is by now; the row may be gone,
\* which is an error.
AnswerUpdate(q) ==
    /\ req[q].pc \in {"Accepted", "Declined"}
    /\ \/ /\ req[q].row \in Live
          /\ friendship' = [friendship EXCEPT ![req[q].row].status = req[q].pc]
          /\ Goto(q, "tellRequester")
          /\ Written(req[q].row)
       \/ req[q].row \notin Live /\ Return(q) /\ UNCHANGED <<friendship, late>>
    /\ UNCHANGED <<note, churn, marked, crossed, untold>>

\* Mistake: the notification goes to the caller.
Mutant_TellMyself(q) ==
    /\ req[q].pc = "tellRequester"
    /\ InsertNote(req[q].user, "FriendRequest", req[q].row)
    /\ Return(q)
    /\ UNCHANGED <<marked, friendVars>>

AnswerNotify(q) ==
    /\ req[q].pc = "tellRequester"
    /\ InsertNote(friendship[req[q].row].from, "FriendRequest", req[q].row)
    /\ Return(q)
    /\ UNCHANGED <<marked, friendVars>>

-----------------------------------------------------------------------------
(* GET /v1/friends and /v1/friends/requests, DELETE /v1/friends/{id}       *)

\* The answer of get_friends: a user per accepted row, found by its id.
FriendsOf(u) ==
    {[row |-> f, friend |-> IF friendship[f].from = u THEN friendship[f].to
                                                      ELSE friendship[f].from] :
        f \in {g \in Live : friendship[g].status = "Accepted" /\ u \in Pair(g)}}

\* The friends in a data export, by their names.
FriendExport(u) ==
    {v \in Users : \E f \in Directed(u, v) \cup Directed(v, u) :
                      friendship[f].status = "Accepted"}

\* The answer of get_pending_friend_requests.
PendingFor(u) ==
    {[row |-> f, friend |-> friendship[f].from] :
        f \in {g \in Live : friendship[g].status = "Pending" /\ friendship[g].to = u}}

\* The row exists and the caller is part of it, in whatever status it is.
RemoveFind(q, u, f) ==
    /\ req[q].pc = "idle"
    /\ f \in Live /\ u \in Pair(f)
    /\ req' = [req EXCEPT ![q].pc = "remove", ![q].user = u, ![q].row = f]
    /\ UNCHANGED <<note, churn, marked, friendVars>>

\* Deleting a row that is gone is no error.
RemoveDelete(q) ==
    /\ req[q].pc = "remove"
    /\ friendship' = [friendship EXCEPT ![req[q].row].status = "removed"]
    /\ Return(q)
    /\ UNCHANGED <<note, churn, marked, late, crossed, untold>>

\* A statement fails or the service stops: the handler ends where it stands.
Abort(q) ==
    /\ req[q].pc \in {"insertRequest", "Accepted", "Declined", "remove",
                      "tellAddressee", "tellRequester"}
    /\ untold' = IF req[q].pc \in {"tellAddressee", "tellRequester"}
                    THEN untold \cup {req[q].row} ELSE untold
    /\ Return(q)
    /\ UNCHANGED <<note, churn, marked, friendship, late, crossed>>

Befriending(q) ==
    \/ \E u, v \in Users : SendCheck(q, u, v)
    \/ \E u \in Users, f \in FriendIds, answer \in {"Accepted", "Declined"} :
          AnswerFind(q, u, f, answer)
    \/ \E u \in Users, f \in FriendIds : RemoveFind(q, u, f)
    \/ SendInsert(q) \/ SendNotify(q)
    \/ AnswerUpdate(q) \/ AnswerNotify(q)
    \/ RemoveDelete(q) \/ Abort(q)

SocialNext ==
    \/ (\E q \in Requests : Reading(q) \/ Marking(q)) /\ UNCHANGED friendVars
    \/ AtOnce /\ UNCHANGED friendVars
    \/ \E q \in Requests : Befriending(q)

SocialSpec == SocialInit /\ [][SocialNext]_socialVars

-----------------------------------------------------------------------------
(* Properties.                                                             *)

\* Types, among them that a notification about a friendship goes to one of
\* its two users, and the unique index of the table.
SocialTypeOK ==
    /\ NotesTypeOK
    /\ \A f \in FriendIds :
          /\ friendship[f].status \in {"none", "Pending", "Accepted", "Declined", "removed"}
          /\ friendship[f].status # "none" => Pair(f) \subseteq Users
    /\ \A n \in NoteIds : note[n].about # None => note[n].user \in Pair(note[n].about)
    /\ \A u, v \in Users : Cardinality(Directed(u, v)) <= 1

\* Nobody is listed as a friend of the same user twice, nor as a friend who
\* still has a request pending, unless two requests crossed: each was checked
\* before the other was inserted (friends.rs:421 and :444).  A data export
\* names the same friends as the list (exports.rs:437 against friends.rs:615).
ListedOnce ==
    \A u \in Users :
        /\ \A x, y \in FriendsOf(u) \cup PendingFor(u) :
              x.friend = y.friend => \/ x.row = y.row
                                     \/ {x.row, y.row} \cap crossed # {}
        /\ FriendExport(u) = {x.friend : x \in FriendsOf(u)}

\* A request is answered at most once and a removed one never comes back; an
\* answer changes only if the two answers were under way at the same time
\* (friends.rs:530 reads the status that :548 overwrites).
FriendshipLifecycle ==
    [][\A f \in FriendIds :
          LET old == friendship[f].status
              new == friendship'[f].status
              answered == {"Accepted", "Declined"}
          IN new # old =>
                \/ old = "none" /\ new = "Pending"
                \/ old = "Pending" /\ new \in answered
                \/ old \notin {"none", "removed"} /\ new = "removed"
                \/ /\ old \in answered /\ new \in answered
                   /\ \E q \in Requests : req[q].pc = new /\ req[q].row = f
                                            /\ f \in late[q]]_socialVars

About(f) == {n \in NoteIds : note[n].about = f}
Telling(f, pc) == \E q \in Requests : req[q].pc = pc /\ req[q].row = f

\* Whoever is asked or answered has a notification of it, or had one and
\* deleted it, or is about to get one, or the request failed between the
\* row and its notification (friends.rs:454 and :467, :548 and :578).
PartnersAreTold ==
    \A f \in Live \ untold :
        /\ \/ \E n \in About(f) : note[n].user = friendship[f].to
           \/ Telling(f, "tellAddressee")
        /\ friendship[f].status \in {"Accepted", "Declined"} =>
              \/ \E n \in About(f) : note[n].user = friendship[f].from
              \/ Telling(f, "tellRequester")

=============================================================================
