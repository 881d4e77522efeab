---------------------------- MODULE FriendsProofs ----------------------------
(***************************************************************************)
(* Friendships and notifications for any users, rows and requests: types   *)
(* and the unique index, the life of a row of either table, that partners  *)
(* are told, that a friend is listed once, and how far the counts of one   *)
(* answer may disagree.                                                    *)
(***************************************************************************)
EXTENDS Friends, FiniteSetTheorems, SequenceTheorems, TLAPS

NoteStates == {"none", "unread", "read", "deleted"}
FriendStates == {"none", "Pending", "Accepted", "Declined", "removed"}
ReadingPcs == {"summary", "list", "listUnread"}
Answers == {"Accepted", "Declined"}
TellingPcs == {"tellAddressee", "tellRequester"}
RequestPcs == {"idle", "mark", "deleteNote", "insertRequest", "remove"}
              \cup ReadingPcs \cup Answers \cup TellingPcs

Notes == [state : NoteStates, user : Users \cup {None}, type : Types \cup {None},
          about : FriendIds \cup {None}]
Friendships == [status : FriendStates, from : Users \cup {None}, to : Users \cup {None}]
Slots == [pc : RequestPcs, user : Users \cup {None}, row : NoteIds \cup FriendIds \cup {None},
          todo : SUBSET NoteIds, counts : Seq(Nat), other : Users \cup {None}]

\* A notification about a friendship goes to one of its two users.
AboutOK(n) ==
    note[n].about # None =>
        /\ note[n].about \in FriendIds /\ friendship[note[n].about].status # "none"
        /\ note[n].user \in Pair(note[n].about)

NoteInv ==
    /\ note \in [NoteIds -> Notes]
    /\ churn \in [Requests -> Nat]
    /\ marked \subseteq {n \in NoteIds : note[n].state \in {"read", "deleted"}}
    /\ \A n \in NoteIds :
          IF note[n].state = "none"
             THEN note[n].about = None /\ note[n].user = None
             ELSE note[n].user \in Users /\ note[n].type \in Types
    /\ \A n \in NoteIds : AboutOK(n)

\* The unique index compares the direction.
FriendInv ==
    /\ friendship \in [FriendIds -> Friendships]
    /\ \A f \in FriendIds :
          friendship[f].status # "none" => friendship[f].from \in Users /\ friendship[f].to \in Users
    /\ \A f, g \in Live :
          friendship[f].from = friendship[g].from /\ friendship[f].to = friendship[g].to => f = g

\* What a request remembers refers to rows that were there, and so still have
\* the users they had.
SlotNotes(q) ==
    /\ \A n \in req[q].todo : note[n].state # "none" /\ note[n].user = req[q].user
    /\ req[q].pc = "deleteNote" =>
          /\ req[q].row \in NoteIds /\ note[req[q].row].state # "none"
          /\ note[req[q].row].user = req[q].user

SlotFriends(q) ==
    /\ req[q].pc \in Answers \cup TellingPcs \cup {"remove"} =>
          req[q].row \in FriendIds /\ friendship[req[q].row].status # "none"
    /\ req[q].pc = "tellAddressee" => req[q].other = friendship[req[q].row].to

SlotArgs(q) ==
    /\ req[q].pc \in ReadingPcs \cup {"insertRequest"} => req[q].user \in Users
    /\ req[q].pc = "insertRequest" => req[q].other \in Users
    /\ req[q].pc \notin ReadingPcs => req[q].counts = <<>>
    /\ req[q].pc # "mark" => req[q].todo = {}

SlotInv(q) == SlotNotes(q) /\ SlotFriends(q) /\ SlotArgs(q)

\* A row that an answer overwrites is still pending, or the other answer came
\* after this one had read it.
AnswerRead(q) ==
    req[q].pc \in Answers =>
        friendship[req[q].row].status \in {"Pending", "removed"} \/ req[q].row \in late[q]

\* A row that an insert doubles came after the insert's check.
InsertRead(q) ==
    req[q].pc = "insertRequest" =>
        \A g \in Live : Pair(g) = {req[q].user, req[q].other} => g \in late[q]

ReadsInv ==
    /\ late \in [Requests -> SUBSET FriendIds]
    /\ \A q \in Requests : AnswerRead(q) /\ InsertRead(q)

PairsOnce ==
    \A f, g \in Live : Pair(f) = Pair(g) => f = g \/ {f, g} \cap crossed # {}

\* What is still to be counted after the second count of a summary.
Rest(u, i) ==
    {n \in Unread(u) : /\ i >= 3 => note[n].type # "FriendRequest"
                       /\ i = 4 => note[n].type = "ModeratorAction"}

\* After each count: how far what was counted may be from what would be
\* counted now.  c are the counts, then come the changes since the first of
\* them, all rows, the unread ones, and the rest after two, three and four counts.
CountOK(pc, c, drift, all, unread, rest2, rest3, rest4) ==
    /\ Len(c) = 0 => drift = 0
    /\ pc = "summary" =>
          /\ Len(c) \in 0..4
          /\ Len(c) = 1 => unread <= c[1] + drift
          /\ Len(c) >= 2 => c[2] <= c[1] + drift
          /\ Len(c) = 2 => Distance(c[2], rest2) <= drift
          /\ Len(c) = 3 => Distance(c[2], c[3] + rest3) <= drift
          /\ Len(c) = 4 => Distance(c[2], c[3] + c[4] + rest4) <= drift
    /\ pc = "list" =>
          /\ Len(c) \in 0..3
          /\ Len(c) \in 1..2 => Distance(c[1], all) <= drift
          /\ Len(c) = 1 => unread <= c[1] + drift
          /\ Len(c) >= 2 => c[2] <= c[1] + drift
          /\ Len(c) = 3 => Distance(c[1], c[3]) <= drift
    /\ pc = "listUnread" =>
          /\ Len(c) \in 0..3
          /\ Len(c) \in 1..2 => Distance(c[1], unread) <= drift
          /\ Len(c) >= 2 => Distance(c[1], c[2]) <= drift
          /\ Len(c) = 3 => Distance(c[1], c[3]) <= drift

CountInv(q) ==
    LET u == req[q].user
    IN CountOK(req[q].pc, req[q].counts, churn[q], Cardinality(NotesOf(u)), Cardinality(Unread(u)),
               Cardinality(Rest(u, 2)), Cardinality(Rest(u, 3)), Cardinality(Rest(u, 4)))

TypeInv ==
    /\ NoteInv /\ FriendInv
    /\ req \in [Requests -> Slots]
    /\ \A q \in Requests : SlotInv(q)

IInv ==
    /\ TypeInv /\ PartnersAreTold /\ ReadsInv /\ PairsOnce
    /\ \A q \in Requests : CountInv(q)

-----------------------------------------------------------------------------
(* What the steps do to the tables: rows are added, never undone.          *)

NotesGrow ==
    \A n \in NoteIds : note[n].state # "none" =>
        /\ note'[n].state # "none" /\ note'[n].user = note[n].user
        /\ note'[n].type = note[n].type /\ note'[n].about = note[n].about

FriendsGrow ==
    \A f \in FriendIds : friendship[f].status # "none" =>
        /\ friendship'[f].status # "none"
        /\ friendship'[f].from = friendship[f].from /\ friendship'[f].to = friendship[f].to

Grow == NotesGrow /\ FriendsGrow

LEMMA CountNat ==
    ASSUME NEW S \in SUBSET NoteIds
    PROVE  IsFiniteSet(S) /\ Cardinality(S) \in Nat
BY NoteIdsAssumption, FS_Subset, FS_CardinalityType

LEMMA ChurnNat ==
    ASSUME churn \in [Requests -> Nat], NEW S \in SUBSET NoteIds, Churn(S)
    PROVE  churn' \in [Requests -> Nat]
<1>1. \A q \in Requests : Cardinality({n \in S : note'[n].user = req[q].user}) \in Nat
  <2> TAKE q \in Requests
  <2>1. {n \in S : note'[n].user = req[q].user} \in SUBSET NoteIds
    OBVIOUS
  <2> QED
    BY <2>1, CountNat
<1> QED
  BY <1>1 DEF Churn

LEMMA InsertEffect ==
    ASSUME NEW u, NEW type, NEW about, InsertNote(u, type, about)
    PROVE  \E n \in NoteIds :
              /\ note[n].state = "none" /\ Churn({n})
              /\ note' = [note EXCEPT ![n] = [state |-> "unread", user |-> u,
                                             type |-> type, about |-> about]]
<1>1. (CHOOSE m \in FreshNotes : TRUE) \in FreshNotes
  BY DEF InsertNote
<1> QED
  BY <1>1 DEF InsertNote, FreshNotes

Added(u, about) == \E n \in NoteIds : note'[n].user = u /\ note'[n].about = about

LEMMA InsertAdds ==
    ASSUME NoteInv, NEW u \in Users, NEW type \in Types, NEW about \in FriendIds,
           InsertNote(u, type, about)
    PROVE  Added(u, about)
<1> DEFINE new == [state |-> "unread", user |-> u, type |-> type, about |-> about]
<1>1. PICK n \in NoteIds : note[n].state = "none" /\ Churn({n}) /\ note' = [note EXCEPT ![n] = new]
  BY InsertEffect
<1>2. new.user = u /\ new.about = about
  OBVIOUS
<1> HIDE DEF new
<1>3. note'[n] = new
  BY <1>1 DEF NoteInv
<1> QED
  BY <1>2, <1>3 DEF Added

LEMMA InsertKeeps ==
    ASSUME NoteInv, NEW u \in Users, NEW type \in Types, NEW about \in FriendIds \cup {None},
           about # None => friendship[about].status # "none" /\ u \in Pair(about),
           InsertNote(u, type, about), UNCHANGED marked, FriendsGrow
    PROVE  NoteInv' /\ NotesGrow
<1> DEFINE new == [state |-> "unread", user |-> u, type |-> type, about |-> about]
<1>1. PICK n \in NoteIds : note[n].state = "none" /\ Churn({n}) /\ note' = [note EXCEPT ![n] = new]
  BY InsertEffect
<1>2. /\ new \in Notes /\ new.state = "unread" /\ new.user = u /\ new.type = type
      /\ new.about = about
  BY DEF Notes, NoteStates
<1>3. churn' \in [Requests -> Nat]
  BY <1>1, ChurnNat DEF NoteInv
<1> HIDE DEF new
<1>4. /\ note' \in [NoteIds -> Notes] /\ note'[n] = new
      /\ \A m \in NoteIds \ {n} : note'[m] = note[m]
  BY <1>1, <1>2 DEF NoteInv
<1>5. NotesGrow
  BY <1>1, <1>4 DEF NotesGrow
<1>6. marked' \subseteq {m \in NoteIds : note'[m].state \in {"read", "deleted"}}
  BY <1>1, <1>4 DEF NoteInv
<1>7. \A m \in NoteIds :
          IF note'[m].state = "none"
             THEN note'[m].about = None /\ note'[m].user = None
             ELSE note'[m].user \in Users /\ note'[m].type \in Types
  BY <1>2, <1>4 DEF NoteInv
<1>8. \A m \in NoteIds : AboutOK(m)'
  BY <1>2, <1>4 DEF NoteInv, FriendsGrow, Pair, AboutOK
<1> QED
  BY <1>3, <1>4, <1>5, <1>6, <1>7, <1>8 DEF NoteInv

LEMMA SetKeeps ==
    ASSUME NoteInv, NEW S \in SUBSET NoteIds, NEW state \in {"read", "deleted"},
           \A n \in S : note[n].state # "none", SetNotes(S, state),
           marked' \in {marked, marked \cup S}, FriendsGrow
    PROVE  NoteInv' /\ NotesGrow
<1>1. /\ note' \in [NoteIds -> Notes]
      /\ \A n \in NoteIds : /\ note'[n].user = note[n].user /\ note'[n].type = note[n].type
                            /\ note'[n].about = note[n].about
                            /\ note'[n].state = IF n \in S THEN state ELSE note[n].state
  BY DEF SetNotes, NoteInv, Notes, NoteStates
<1>2. churn' \in [Requests -> Nat]
  BY ChurnNat DEF NoteInv, SetNotes
<1>3. NotesGrow
  BY <1>1 DEF NotesGrow
<1>4. marked' \subseteq {m \in NoteIds : note'[m].state \in {"read", "deleted"}}
  BY <1>1 DEF NoteInv
<1>5. \A m \in NoteIds : AboutOK(m)'
  BY <1>1 DEF NoteInv, FriendsGrow, Pair, AboutOK
<1>6. \A m \in NoteIds :
          IF note'[m].state = "none"
             THEN note'[m].about = None /\ note'[m].user = None
             ELSE note'[m].user \in Users /\ note'[m].type \in Types
  BY <1>1 DEF NoteInv
<1> QED
  BY <1>1, <1>2, <1>3, <1>4, <1>5, <1>6 DEF NoteInv

LEMMA NotesStay ==
    ASSUME NoteInv, UNCHANGED <<note, marked>>, churn' \in [Requests -> Nat], FriendsGrow
    PROVE  NoteInv' /\ NotesGrow
<1>1. NotesGrow
  BY DEF NotesGrow
<1>2. \A m \in NoteIds : AboutOK(m)'
  BY DEF NoteInv, FriendsGrow, Pair, AboutOK
<1> QED
  BY <1>1, <1>2 DEF NoteInv

LEMMA FriendsStay ==
    ASSUME FriendInv, UNCHANGED friendship
    PROVE  FriendInv' /\ FriendsGrow
BY DEF FriendInv, FriendsGrow, Live

\* A request changes its own slot; what the others remember is still there.
LEMMA OneSlot ==
    ASSUME TypeInv, NEW q \in Requests, req' \in [Requests -> Slots],
           \A p \in Requests \ {q} : req'[p] = req[p],
           NoteInv', FriendInv', Grow, SlotInv(q)'
    PROVE  TypeInv'
<1>1. ASSUME NEW p \in Requests, p # q
      PROVE  SlotInv(p)'
  <2>1. SlotInv(p) /\ req'[p] = req[p] /\ req[p].todo \subseteq NoteIds
    BY <1>1 DEF TypeInv, Slots
  <2>2. SlotNotes(p)'
    BY <2>1 DEF SlotInv, SlotNotes, Grow, NotesGrow
  <2>3. SlotFriends(p)'
    BY <2>1 DEF SlotInv, SlotFriends, Grow, FriendsGrow, Answers, TellingPcs
  <2>4. SlotArgs(p)'
    BY <2>1 DEF SlotInv, SlotArgs
  <2> QED
    BY <2>2, <2>3, <2>4 DEF SlotInv
<1> QED
  BY <1>1 DEF TypeInv

LEMMA NoSlot ==
    ASSUME TypeInv, UNCHANGED req, NoteInv', FriendInv', Grow
    PROVE  TypeInv'
<1>1. ASSUME NEW p \in Requests
      PROVE  SlotInv(p)'
  <2>1. SlotInv(p) /\ req'[p] = req[p] /\ req[p].todo \subseteq NoteIds
    BY <1>1 DEF TypeInv, Slots
  <2>2. SlotNotes(p)'
    BY <2>1 DEF SlotInv, SlotNotes, Grow, NotesGrow
  <2>3. SlotFriends(p)'
    BY <2>1 DEF SlotInv, SlotFriends, Grow, FriendsGrow, Answers, TellingPcs
  <2>4. SlotArgs(p)'
    BY <2>1 DEF SlotInv, SlotArgs
  <2> QED
    BY <2>2, <2>3, <2>4 DEF SlotInv
<1> QED
  BY <1>1 DEF TypeInv

LEMMA ReturnSlot ==
    ASSUME req \in [Requests -> Slots], NEW q \in Requests, Return(q)
    PROVE  /\ req' \in [Requests -> Slots] /\ req'[q] = Request
           /\ \A p \in Requests \ {q} : req'[p] = req[p]
           /\ Request.pc = "idle" /\ Request.counts = <<>>
           /\ SlotInv(q)'
<1>1. Request \in Slots /\ Request.pc = "idle" /\ Request.todo = {} /\ Request.counts = <<>>
  BY DEF Request, Slots, RequestPcs
<1>2. req' \in [Requests -> Slots] /\ req'[q] = Request /\ \A p \in Requests \ {q} : req'[p] = req[p]
  BY <1>1 DEF Return
<1>3. SlotInv(q)'
  BY <1>1, <1>2 DEF SlotInv, SlotNotes, SlotFriends, SlotArgs, ReadingPcs, Answers, TellingPcs
<1> QED
  BY <1>1, <1>2, <1>3

LEMMA GotoSlot ==
    ASSUME req \in [Requests -> Slots], NEW q \in Requests, NEW next \in RequestPcs, Goto(q, next)
    PROVE  /\ req' \in [Requests -> Slots] /\ req'[q].pc = next
           /\ req'[q].user = req[q].user /\ req'[q].row = req[q].row /\ req'[q].todo = req[q].todo
           /\ req'[q].counts = req[q].counts /\ req'[q].other = req[q].other
           /\ \A p \in Requests \ {q} : req'[p] = req[p]
BY DEF Goto, Slots

LEMMA SlotOnly ==
    ASSUME TypeInv, NEW q \in Requests, req' \in [Requests -> Slots],
           \A p \in Requests \ {q} : req'[p] = req[p], SlotInv(q)',
           UNCHANGED <<note, marked, friendship>>, churn' \in [Requests -> Nat]
    PROVE  TypeInv' /\ Grow
<1>1. NoteInv' /\ FriendInv' /\ Grow
  BY NotesStay, FriendsStay DEF TypeInv, Grow
<1> QED
  BY <1>1, OneSlot

LEMMA ReturnOnly ==
    ASSUME TypeInv, NEW q \in Requests, Return(q),
           UNCHANGED <<note, marked, friendship>>, churn' \in [Requests -> Nat]
    PROVE  TypeInv' /\ Grow
<1>1. req \in [Requests -> Slots]
  BY DEF TypeInv
<1> QED
  BY <1>1, ReturnSlot, SlotOnly

\* Every statement counts a set of rows.
LEMMA StatementsAre ==
    ASSUME NEW q \in Requests
    PROVE  Statements(q) \in Seq(SUBSET NoteIds)
<1>1. \A u : NotesOf(u) \in SUBSET NoteIds /\ Unread(u) \in SUBSET NoteIds
  BY DEF NotesOf, Unread
<1>2. CASE req[q].pc = "summary"
  <2>1. Statements(q) = Summary(req[q].user)
    BY <1>2 DEF Statements
  <2>2. /\ {n \in Unread(req[q].user) : note[n].type = "FriendRequest"} \in SUBSET NoteIds
        /\ {n \in Unread(req[q].user) : note[n].type = "SystemMessage"} \in SUBSET NoteIds
    BY <1>1
  <2> QED
    BY <1>1, <2>1, <2>2 DEF Summary
<1>3. CASE req[q].pc # "summary"
  <2>1. Statements(q) = List(req[q].user, req[q].pc = "listUnread")
    BY <1>3 DEF Statements
  <2> QED
    BY <1>1, <2>1 DEF List
<1> QED
  BY <1>2, <1>3

LEMMA ReadingTypes ==
    ASSUME TypeInv, NEW q \in Requests, Reading(q), UNCHANGED friendVars
    PROVE  TypeInv' /\ Grow
<1>0. /\ req \in [Requests -> Slots] /\ SlotInv(q) /\ churn \in [Requests -> Nat]
      /\ UNCHANGED friendship
  BY DEF TypeInv, NoteInv, friendVars
<1>1. ASSUME NEW u \in Users, NEW what \in ReadingPcs, StartReading(q, u, what)
      PROVE  TypeInv' /\ Grow
  <2>1. /\ req' \in [Requests -> Slots] /\ req'[q].pc = what /\ req'[q].user = u
        /\ req'[q].todo = req[q].todo /\ req[q].pc = "idle"
        /\ \A p \in Requests \ {q} : req'[p] = req[p]
    <3> DEFINE r == [req[q] EXCEPT !.pc = what, !.user = u]
    <3>1. r \in Slots /\ r.pc = what /\ r.user = u /\ r.todo = req[q].todo
      BY <1>0 DEF Slots, RequestPcs
    <3>2. req' = [req EXCEPT ![q] = r] /\ req[q].pc = "idle"
      BY <1>0, <1>1 DEF StartReading
    <3> HIDE DEF r
    <3> QED
      BY <1>0, <3>1, <3>2
  <2>2. req'[q].todo = {}
    BY <1>0, <2>1 DEF SlotInv, SlotArgs
  <2>3. SlotInv(q)'
    BY <2>1, <2>2 DEF SlotInv, SlotNotes, SlotFriends, SlotArgs, ReadingPcs, Answers, TellingPcs
  <2>4. UNCHANGED <<note, churn, marked, friendship>>
    BY <1>0, <1>1 DEF StartReading
  <2> QED
    BY <1>0, <2>1, <2>3, <2>4, SlotOnly
<1>2. CASE Count(q)
  <2> DEFINE i == Len(req[q].counts) + 1
             k == Cardinality(Statements(q)[i])
  <2>1. req[q].counts \in Seq(Nat) /\ i \in 1..Len(Statements(q)) /\ req[q].pc \in ReadingPcs
    BY <1>0, <1>2 DEF Count, Slots, ReadingPcs
  <2>2. k \in Nat
    BY <2>1, StatementsAre, CountNat
  <2>3. req' = [req EXCEPT ![q].counts = Append(@, k)] /\ UNCHANGED <<note, churn, marked>>
    BY <1>2 DEF Count
  <2> HIDE DEF i, k
  <2>4. Append(req[q].counts, k) \in Seq(Nat)
    BY <2>1, <2>2
  <2>5. /\ req' \in [Requests -> Slots] /\ req'[q].pc = req[q].pc /\ req'[q].user = req[q].user
        /\ req'[q].todo = req[q].todo
        /\ \A p \in Requests \ {q} : req'[p] = req[p]
    BY <1>0, <2>3, <2>4 DEF Slots
  <2>6. SlotInv(q)'
    <3>1. req[q].todo = {} /\ req[q].user \in Users
      BY <1>0, <2>1 DEF SlotInv, SlotArgs, ReadingPcs
    <3> QED
      BY <2>1, <2>5, <3>1
      DEF SlotInv, SlotNotes, SlotFriends, SlotArgs, ReadingPcs, Answers, TellingPcs
  <2> QED
    BY <1>0, <2>3, <2>5, <2>6, SlotOnly
<1>3. CASE Respond(q)
  <2>1. churn' \in [Requests -> Nat] /\ Return(q) /\ UNCHANGED <<note, marked>>
    BY <1>0, <1>3 DEF Respond
  <2> QED
    BY <1>0, <2>1, ReturnOnly
<1> QED
  BY <1>1, <1>2, <1>3 DEF Reading, ReadingPcs

LEMMA MarkingTypes ==
    ASSUME TypeInv, NEW q \in Requests, Marking(q), UNCHANGED friendVars
    PROVE  TypeInv' /\ Grow
<1>0. /\ req \in [Requests -> Slots] /\ SlotInv(q) /\ churn \in [Requests -> Nat] /\ NoteInv
      /\ FriendInv' /\ FriendsGrow /\ UNCHANGED friendship
  BY FriendsStay DEF TypeInv, NoteInv, friendVars
<1>1. ASSUME NEW u \in Users, NEW S \in SUBSET NoteIds, MarkSelect(q, u, S)
      PROVE  TypeInv' /\ Grow
  <2>1. /\ req' \in [Requests -> Slots] /\ req'[q].pc = "mark" /\ req'[q].user = u
        /\ req'[q].todo = S /\ req'[q].counts = req[q].counts /\ req[q].pc = "idle"
        /\ \A p \in Requests \ {q} : req'[p] = req[p]
        /\ S \subseteq Unread(u) /\ UNCHANGED <<note, churn, marked>>
    <3> DEFINE r == [req[q] EXCEPT !.pc = "mark", !.user = u, !.todo = S]
    <3>1. r \in Slots /\ r.pc = "mark" /\ r.user = u /\ r.todo = S /\ r.counts = req[q].counts
      BY <1>0 DEF Slots, RequestPcs
    <3>2. req' = [req EXCEPT ![q] = r]
      BY <1>0, <1>1 DEF MarkSelect
    <3> HIDE DEF r
    <3>3. req' \in [Requests -> Slots] /\ req'[q] = r /\ \A p \in Requests \ {q} : req'[p] = req[p]
      BY <1>0, <3>1, <3>2
    <3> QED
      BY <1>1, <3>1, <3>3 DEF MarkSelect
  <2>2. \A n \in S : note[n].state # "none" /\ note[n].user = u
    BY <2>1 DEF Unread, NotesOf
  <2>3. SlotInv(q)'
    BY <1>0, <2>1, <2>2
    DEF SlotInv, SlotNotes, SlotFriends, SlotArgs, ReadingPcs, Answers, TellingPcs
  <2> QED
    BY <1>0, <2>1, <2>3, SlotOnly
<1>2. ASSUME NEW u \in Users, NEW n \in NoteIds, DeleteFind(q, u, n)
      PROVE  TypeInv' /\ Grow
  <2>1. /\ req' \in [Requests -> Slots] /\ req'[q].pc = "deleteNote" /\ req'[q].user = u
        /\ req'[q].row = n
        /\ req'[q].todo = req[q].todo /\ req'[q].counts = req[q].counts /\ req[q].pc = "idle"
        /\ \A p \in Requests \ {q} : req'[p] = req[p]
        /\ n \in NotesOf(u) /\ UNCHANGED <<note, churn, marked>>
    <3> DEFINE r == [req[q] EXCEPT !.pc = "deleteNote", !.user = u, !.row = n]
    <3>1. /\ r \in Slots /\ r.pc = "deleteNote" /\ r.user = u /\ r.row = n
          /\ r.todo = req[q].todo /\ r.counts = req[q].counts
      BY <1>0 DEF Slots, RequestPcs
    <3>2. req' = [req EXCEPT ![q] = r]
      BY <1>0, <1>2 DEF DeleteFind
    <3> HIDE DEF r
    <3>3. req' \in [Requests -> Slots] /\ req'[q] = r /\ \A p \in Requests \ {q} : req'[p] = req[p]
      BY <1>0, <3>1, <3>2
    <3> QED
      BY <1>2, <3>1, <3>3 DEF DeleteFind
  <2>2. note[n].state # "none" /\ note[n].user = u
    BY <2>1 DEF NotesOf
  <2>3. SlotInv(q)'
    BY <1>0, <2>1, <2>2
    DEF SlotInv, SlotNotes, SlotFriends, SlotArgs, ReadingPcs, Answers, TellingPcs
  <2> QED
    BY <1>0, <2>1, <2>3, SlotOnly
<1>3. ASSUME NEW n \in NoteIds, MarkUpdate(q, n)
      PROVE  TypeInv' /\ Grow
  <2>1. CASE Return(q) /\ UNCHANGED <<note, churn, marked>>
    BY <1>0, <2>1, ReturnOnly
  <2>2. CASE /\ SetNotes({n}, "read") /\ marked' = marked \cup {n}
             /\ req' = [req EXCEPT ![q].todo = @ \ {n}]
    <3>1. req[q].pc = "mark" /\ n \in req[q].todo /\ note[n].state # "none"
      BY <1>0, <1>3 DEF MarkUpdate, SlotInv, SlotNotes
    <3>2. NoteInv' /\ NotesGrow
      BY <1>0, <2>2, <3>1, SetKeeps
    <3>3. /\ req' \in [Requests -> Slots] /\ req'[q].pc = "mark" /\ req'[q].user = req[q].user
          /\ req'[q].todo = req[q].todo \ {n} /\ req'[q].counts = req[q].counts
          /\ \A p \in Requests \ {q} : req'[p] = req[p]
      BY <1>0, <2>2, <3>1 DEF Slots
    <3>4. req[q].todo \subseteq NoteIds
      BY <1>0 DEF Slots
    <3>5. SlotInv(q)'
      BY <1>0, <3>1, <3>2, <3>3, <3>4
      DEF SlotInv, SlotNotes, SlotFriends, SlotArgs, ReadingPcs, Answers, TellingPcs, NotesGrow
    <3> QED
      BY <1>0, <3>2, <3>3, <3>5, OneSlot DEF Grow
  <2> QED
    BY <1>3, <2>1, <2>2 DEF MarkUpdate
<1>4. CASE MarkDone(q)
  BY <1>0, <1>4, ReturnOnly DEF MarkDone
<1>5. CASE DeleteRow(q)
  <2>1. Return(q) /\ UNCHANGED marked /\ req[q].pc = "deleteNote"
    BY <1>5 DEF DeleteRow
  <2>2. req[q].row \in NoteIds /\ note[req[q].row].state # "none"
    BY <1>0, <2>1 DEF SlotInv, SlotNotes
  <2>3. NoteInv' /\ NotesGrow
    <3>1. CASE UNCHANGED <<note, churn>>
      BY <1>0, <2>1, <3>1, NotesStay
    <3>2. CASE SetNotes({req[q].row}, "deleted")
      BY <1>0, <2>1, <2>2, <3>2, SetKeeps
    <3> QED
      BY <1>5, <3>1, <3>2 DEF DeleteRow
  <2> QED
    BY <1>0, <2>1, <2>3, ReturnSlot, OneSlot DEF Grow
<1> QED
  BY <1>1, <1>2, <1>3, <1>4, <1>5 DEF Marking

LEMMA AtOnceTypes ==
    ASSUME TypeInv, AtOnce, UNCHANGED friendVars
    PROVE  TypeInv' /\ Grow
<1>0. NoteInv /\ FriendInv' /\ FriendsGrow
  BY FriendsStay DEF TypeInv, friendVars
<1>1. ASSUME NEW u \in Users, MarkAll(u)
      PROVE  NoteInv' /\ NotesGrow
  <2>1. Unread(u) \in SUBSET NoteIds /\ \A n \in Unread(u) : note[n].state # "none"
    BY DEF Unread, NotesOf
  <2> QED
    BY <1>0, <1>1, <2>1, SetKeeps DEF MarkAll
<1>2. ASSUME NEW u \in Users, NEW type \in Types, InsertNote(u, type, None), UNCHANGED marked
      PROVE  NoteInv' /\ NotesGrow
  BY <1>0, <1>2, InsertKeeps
<1>3. ASSUME NEW S \in SUBSET NoteIds, CleanupNotifications(S)
      PROVE  NoteInv' /\ NotesGrow
  BY <1>0, <1>3, SetKeeps DEF CleanupNotifications
<1>4. NoteInv' /\ NotesGrow
  BY <1>1, <1>2, <1>3 DEF AtOnce, ModeratorNotice, CreateNotification, Types
<1>5. UNCHANGED req
  BY DEF AtOnce, MarkAll, ModeratorNotice, CreateNotification, CleanupNotifications
<1> QED
  BY <1>0, <1>4, <1>5, NoSlot DEF Grow

\* An answer, or the removal, of a row.
LEMMA StatusKeeps ==
    ASSUME FriendInv, NEW f \in FriendIds, NEW state \in {"Accepted", "Declined", "removed"},
           f \in Live \/ state = "removed", friendship[f].status # "none",
           friendship' = [friendship EXCEPT ![f].status = state]
    PROVE  /\ FriendInv' /\ FriendsGrow /\ Live' \subseteq Live
           /\ friendship'[f].status = state
           /\ \A g \in FriendIds \ {f} : friendship'[g] = friendship[g]
           /\ \A g \in FriendIds : Pair(g)' = Pair(g)
<1>1. /\ friendship' \in [FriendIds -> Friendships] /\ friendship'[f].status = state
      /\ \A g \in FriendIds \ {f} : friendship'[g] = friendship[g]
      /\ \A g \in FriendIds : /\ friendship'[g].from = friendship[g].from
                              /\ friendship'[g].to = friendship[g].to
  BY DEF FriendInv, Friendships, FriendStates
<1>2. Live' \subseteq Live
  BY <1>1 DEF Live
<1>3. FriendsGrow
  BY <1>1 DEF FriendsGrow
<1>4. \A g, h \in Live' :
          friendship'[g].from = friendship'[h].from /\ friendship'[g].to = friendship'[h].to => g = h
  <2>1. Live \subseteq FriendIds
    BY DEF Live
  <2> QED
    BY <1>1, <1>2, <2>1 DEF FriendInv
<1>5. \A g \in FriendIds : friendship'[g].status # "none" =>
          friendship'[g].from \in Users /\ friendship'[g].to \in Users
  BY <1>1 DEF FriendInv
<1> QED
  BY <1>1, <1>2, <1>3, <1>4, <1>5 DEF FriendInv, Pair

AddRow(f, u, v) ==
    /\ f \in FreshRows /\ Directed(u, v) = {}
    /\ friendship' = [friendship EXCEPT ![f] = [status |-> "Pending", from |-> u, to |-> v]]

\* A new row, whose direction no row has.
LEMMA RowKeeps ==
    ASSUME FriendInv, NEW f, NEW u \in Users, NEW v \in Users, AddRow(f, u, v)
    PROVE  /\ FriendInv' /\ FriendsGrow /\ Live' = Live \cup {f} /\ f \notin Live
           /\ friendship'[f].status = "Pending"
           /\ friendship'[f].from = u /\ friendship'[f].to = v
           /\ \A g \in FriendIds \ {f} : friendship'[g] = friendship[g]
<1> DEFINE new == [status |-> "Pending", from |-> u, to |-> v]
<1>1. new \in Friendships /\ new.status = "Pending" /\ new.from = u /\ new.to = v
  BY DEF Friendships, FriendStates
<1> HIDE DEF new
<1>2. /\ f \in FriendIds /\ friendship[f].status = "none"
      /\ friendship' \in [FriendIds -> Friendships] /\ friendship'[f] = new
      /\ \A g \in FriendIds \ {f} : friendship'[g] = friendship[g]
  BY <1>1 DEF FriendInv, FreshRows, AddRow, new
<1>3. Live' = Live \cup {f} /\ f \notin Live
  BY <1>1, <1>2 DEF Live
<1>4. FriendsGrow
  BY <1>2 DEF FriendsGrow
<1>5. ASSUME NEW g \in Live', NEW h \in Live',
             friendship'[g].from = friendship'[h].from, friendship'[g].to = friendship'[h].to
      PROVE  g = h
  <2>1. \A k \in Live : k \in FriendIds /\ ~(friendship[k].from = u /\ friendship[k].to = v)
    BY DEF AddRow, Directed, Live
  <2> QED
    BY <1>1, <1>2, <1>3, <1>5, <2>1 DEF FriendInv
<1>6. \A g \in FriendIds : friendship'[g].status # "none" =>
          friendship'[g].from \in Users /\ friendship'[g].to \in Users
  BY <1>1, <1>2 DEF FriendInv
<1> QED
  BY <1>1, <1>2, <1>3, <1>4, <1>5, <1>6 DEF FriendInv

\* Handlers find a row, or that there is none.
LEMMA FindTypes ==
    ASSUME TypeInv, NEW q \in Requests,
           \/ \E u, v \in Users : SendCheck(q, u, v)
           \/ \E u \in Users, f \in FriendIds, answer \in Answers : AnswerFind(q, u, f, answer)
           \/ \E u \in Users, f \in FriendIds : RemoveFind(q, u, f)
    PROVE  TypeInv' /\ Grow
<1>0. req \in [Requests -> Slots] /\ SlotInv(q) /\ churn \in [Requests -> Nat]
  BY DEF TypeInv, NoteInv
<1>1. ASSUME NEW u \in Users, NEW v \in Users, SendCheck(q, u, v)
      PROVE  TypeInv' /\ Grow
  <2>1. /\ req' \in [Requests -> Slots] /\ req'[q].pc = "insertRequest"
        /\ req'[q].user = u /\ req'[q].other = v
        /\ req'[q].todo = req[q].todo /\ req'[q].counts = req[q].counts /\ req[q].pc = "idle"
        /\ \A p \in Requests \ {q} : req'[p] = req[p]
        /\ UNCHANGED <<note, churn, marked, friendship>>
    <3> DEFINE r == [req[q] EXCEPT !.pc = "insertRequest", !.user = u, !.other = v]
    <3>1. /\ r \in Slots /\ r.pc = "insertRequest" /\ r.user = u /\ r.other = v
          /\ r.todo = req[q].todo /\ r.counts = req[q].counts
      BY <1>0 DEF Slots, RequestPcs
    <3>2. req' = [req EXCEPT ![q] = r]
      BY <1>0, <1>1 DEF SendCheck
    <3> HIDE DEF r
    <3>3. req' \in [Requests -> Slots] /\ req'[q] = r /\ \A p \in Requests \ {q} : req'[p] = req[p]
      BY <1>0, <3>1, <3>2
    <3> QED
      BY <1>1, <3>1, <3>3 DEF SendCheck
  <2>2. SlotInv(q)'
    BY <1>0, <2>1
    DEF SlotInv, SlotNotes, SlotFriends, SlotArgs, ReadingPcs, Answers, TellingPcs
  <2> QED
    BY <1>0, <2>1, <2>2, SlotOnly
<1>2. ASSUME NEW u \in Users, NEW f \in FriendIds, NEW answer \in Answers \cup {"remove"},
             AnswerFind(q, u, f, answer) \/ (answer = "remove" /\ RemoveFind(q, u, f))
      PROVE  TypeInv' /\ Grow
  <2>1. /\ req' \in [Requests -> Slots] /\ req'[q].pc = answer /\ req'[q].row = f
        /\ req'[q].todo = req[q].todo /\ req'[q].counts = req[q].counts /\ req[q].pc = "idle"
        /\ \A p \in Requests \ {q} : req'[p] = req[p]
        /\ UNCHANGED <<note, churn, marked, friendship>>
        /\ friendship[f].status # "none"
    <3>1. /\ req' = [req EXCEPT ![q].pc = answer, ![q].user = u, ![q].row = f]
          /\ req[q].pc = "idle" /\ UNCHANGED <<note, churn, marked, friendship>>
          /\ friendship[f].status # "none"
      BY <1>2 DEF AnswerFind, RemoveFind, Live, friendVars
    <3>2. answer \in RequestPcs
      BY DEF RequestPcs
    <3> DEFINE r == [req[q] EXCEPT !.pc = answer, !.user = u, !.row = f]
    <3>3. /\ r \in Slots /\ r.pc = answer /\ r.row = f
          /\ r.todo = req[q].todo /\ r.counts = req[q].counts
      BY <1>0, <3>2 DEF Slots
    <3>4. req' = [req EXCEPT ![q] = r]
      BY <1>0, <3>1
    <3> HIDE DEF r
    <3>5. req' \in [Requests -> Slots] /\ req'[q] = r /\ \A p \in Requests \ {q} : req'[p] = req[p]
      BY <1>0, <3>3, <3>4
    <3> QED
      BY <3>1, <3>3, <3>5
  <2>2. SlotInv(q)'
    BY <1>0, <2>1
    DEF SlotInv, SlotNotes, SlotFriends, SlotArgs, ReadingPcs, Answers, TellingPcs
  <2> QED
    BY <1>0, <2>1, <2>2, SlotOnly
<1> QED
  BY <1>1, <1>2

\* What SendInsert does when it succeeds.
Inserted(q, f) ==
    /\ AddRow(f, req[q].user, req[q].other) /\ Written(f)
    /\ crossed' = IF \E g \in late[q] : Pair(g) = {req[q].user, req[q].other}
                     THEN crossed \cup {f} ELSE crossed
    /\ req' = [req EXCEPT ![q].pc = "tellAddressee", ![q].row = f]
    /\ UNCHANGED <<note, churn, marked, untold>>

LEMMA InsertCases ==
    ASSUME NEW q \in Requests, SendInsert(q)
    PROVE  (Return(q) /\ UNCHANGED <<note, churn, marked, friendVars>>) \/ \E f : Inserted(q, f)
<1>1. CASE ~(Return(q) /\ UNCHANGED friendVars)
  <2>1. Directed(req[q].user, req[q].other) = {} /\ FreshRows # {}
    BY <1>1 DEF SendInsert
  <2>2. (CHOOSE g \in FreshRows : TRUE) \in FreshRows
    BY <2>1
  <2>3. Inserted(q, CHOOSE g \in FreshRows : TRUE)
    BY <1>1, <2>1, <2>2 DEF SendInsert, Inserted, AddRow
  <2> QED
    BY <2>3
<1> QED
  BY <1>1 DEF SendInsert

LEMMA InsertedSlot ==
    ASSUME req \in [Requests -> Slots], NEW q \in Requests, NEW f, Inserted(q, f)
    PROVE  /\ req' \in [Requests -> Slots] /\ req'[q].pc = "tellAddressee" /\ req'[q].row = f
           /\ req'[q].other = req[q].other
           /\ req'[q].todo = req[q].todo /\ req'[q].counts = req[q].counts
           /\ \A p \in Requests \ {q} : req'[p] = req[p]
           /\ f \in FriendIds /\ friendship[f].status = "none"
<1> DEFINE r == [req[q] EXCEPT !.pc = "tellAddressee", !.row = f]
<1>0. f \in FriendIds /\ friendship[f].status = "none"
  BY DEF Inserted, AddRow, FreshRows
<1>1. /\ r \in Slots /\ r.pc = "tellAddressee" /\ r.row = f /\ r.other = req[q].other
      /\ r.todo = req[q].todo /\ r.counts = req[q].counts
  BY <1>0 DEF Slots, RequestPcs, TellingPcs
<1>2. req' = [req EXCEPT ![q] = r]
  BY DEF Inserted
<1> HIDE DEF r
<1> QED
  BY <1>0, <1>1, <1>2

LEMMA SendInsertTypes ==
    ASSUME TypeInv, NEW q \in Requests, SendInsert(q)
    PROVE  TypeInv' /\ Grow
<1>0. /\ req \in [Requests -> Slots] /\ SlotInv(q) /\ churn \in [Requests -> Nat]
      /\ NoteInv /\ FriendInv /\ UNCHANGED <<note, churn, marked>>
      /\ req[q].user \in Users /\ req[q].other \in Users /\ req[q].pc = "insertRequest"
  BY DEF TypeInv, NoteInv, SendInsert, SlotInv, SlotArgs
<1>1. CASE Return(q) /\ UNCHANGED friendship
  BY <1>0, <1>1, ReturnOnly
<1>2. ASSUME NEW f, Inserted(q, f)
      PROVE  TypeInv' /\ Grow
  <2>1. /\ FriendInv' /\ FriendsGrow
        /\ friendship'[f].status = "Pending" /\ friendship'[f].to = req[q].other
    BY <1>0, <1>2, RowKeeps DEF Inserted
  <2>2. NoteInv' /\ NotesGrow
    BY <1>0, <2>1, NotesStay
  <2>3. SlotInv(q)'
    BY <1>0, <1>2, <2>1, InsertedSlot
    DEF SlotInv, SlotNotes, SlotFriends, SlotArgs, ReadingPcs, Answers, TellingPcs
  <2> QED
    BY <1>0, <1>2, <2>1, <2>2, <2>3, InsertedSlot, OneSlot DEF Grow
<1> QED
  BY <1>1, <1>2, InsertCases DEF friendVars

LEMMA NotifyTypes ==
    ASSUME TypeInv, NEW q \in Requests, SendNotify(q) \/ AnswerNotify(q)
    PROVE  TypeInv' /\ Grow
<1>0. /\ req \in [Requests -> Slots] /\ SlotInv(q) /\ NoteInv /\ FriendInv
      /\ FriendInv' /\ FriendsGrow /\ Return(q) /\ UNCHANGED marked
      /\ req[q].pc \in TellingPcs
  BY FriendsStay DEF TypeInv, SendNotify, AnswerNotify, friendVars, TellingPcs
<1>1. /\ req[q].row \in FriendIds /\ friendship[req[q].row].status # "none"
      /\ req[q].pc = "tellAddressee" => req[q].other = friendship[req[q].row].to
  BY <1>0 DEF SlotInv, SlotFriends
<1>2. PICK u \in Users : u \in Pair(req[q].row) /\ InsertNote(u, "FriendRequest", req[q].row)
  BY <1>0, <1>1 DEF FriendInv, Pair, SendNotify, AnswerNotify
<1>3. NoteInv' /\ NotesGrow
  BY <1>0, <1>1, <1>2, InsertKeeps DEF Types
<1> QED
  BY <1>0, <1>3, ReturnSlot, OneSlot DEF Grow

LEMMA AnswerTypes ==
    ASSUME TypeInv, NEW q \in Requests, AnswerUpdate(q) \/ RemoveDelete(q)
    PROVE  TypeInv' /\ Grow
<1>0. /\ req \in [Requests -> Slots] /\ SlotInv(q) /\ NoteInv /\ FriendInv
      /\ churn \in [Requests -> Nat] /\ UNCHANGED <<note, churn, marked>>
      /\ req[q].pc \in Answers \cup {"remove"}
  BY DEF TypeInv, NoteInv, AnswerUpdate, RemoveDelete, Answers
<1>1. req[q].row \in FriendIds /\ friendship[req[q].row].status # "none"
  BY <1>0 DEF SlotInv, SlotFriends
<1>2. CASE RemoveDelete(q)
  <2>1. FriendInv' /\ FriendsGrow /\ Return(q)
    BY <1>0, <1>1, <1>2, StatusKeeps DEF RemoveDelete
  <2>2. NoteInv' /\ NotesGrow
    BY <1>0, <2>1, NotesStay
  <2> QED
    BY <1>0, <2>1, <2>2, ReturnSlot, OneSlot DEF Grow
<1>3. CASE AnswerUpdate(q)
  <2>1. CASE Return(q) /\ UNCHANGED friendship
    BY <1>0, <2>1, ReturnOnly
  <2>2. CASE /\ req[q].row \in Live /\ Goto(q, "tellRequester")
             /\ friendship' = [friendship EXCEPT ![req[q].row].status = req[q].pc]
    <3>1. req[q].pc \in {"Accepted", "Declined"}
      BY <1>3 DEF AnswerUpdate
    <3>2. FriendInv' /\ FriendsGrow
      BY <1>0, <1>1, <2>2, <3>1, StatusKeeps
    <3>3. NoteInv' /\ NotesGrow
      BY <1>0, <3>2, NotesStay
    <3>4. /\ req' \in [Requests -> Slots] /\ req'[q].pc = "tellRequester"
          /\ req'[q].row = req[q].row /\ req'[q].todo = req[q].todo
          /\ req'[q].counts = req[q].counts
          /\ \A p \in Requests \ {q} : req'[p] = req[p]
      BY <1>0, <2>2, GotoSlot DEF RequestPcs, TellingPcs
    <3>5. SlotInv(q)'
      BY <1>0, <1>1, <3>1, <3>2, <3>4
      DEF SlotInv, SlotNotes, SlotFriends, SlotArgs, ReadingPcs, Answers, TellingPcs, FriendsGrow
    <3> QED
      BY <3>2, <3>3, <3>4, <3>5, OneSlot DEF Grow
  <2> QED
    BY <1>3, <2>1, <2>2 DEF AnswerUpdate
<1> QED
  BY <1>2, <1>3

LEMMA BefriendingTypes ==
    ASSUME TypeInv, NEW q \in Requests, Befriending(q)
    PROVE  TypeInv' /\ Grow
<1>1. CASE Abort(q)
  <2>1. Return(q) /\ UNCHANGED <<note, churn, marked, friendship>> /\ churn \in [Requests -> Nat]
    BY <1>1 DEF Abort, TypeInv, NoteInv
  <2> QED
    BY <2>1, ReturnOnly
<1> QED
  BY <1>1, FindTypes, SendInsertTypes, NotifyTypes, AnswerTypes DEF Befriending, Answers

LEMMA StepTypes == ASSUME TypeInv, [SocialNext]_socialVars PROVE TypeInv' /\ Grow
<1>1. CASE UNCHANGED socialVars
  <2>1. NoteInv' /\ FriendInv' /\ Grow /\ UNCHANGED req
    BY <1>1, NotesStay, FriendsStay DEF socialVars, notesVars, friendVars, TypeInv, NoteInv, Grow
  <2> QED
    BY <2>1, NoSlot
<1> QED
  BY <1>1, ReadingTypes, MarkingTypes, AtOnceTypes, BefriendingTypes DEF SocialNext

LEMMA InitTypes == ASSUME SocialInit PROVE TypeInv
<1>1. /\ Request \in Slots /\ Request.pc = "idle" /\ Request.todo = {} /\ Request.counts = <<>>
  BY DEF Request, Slots, RequestPcs
<1>2. req \in [Requests -> Slots] /\ \A q \in Requests : req[q] = Request
  BY <1>1 DEF SocialInit, NotesInit
<1>3. \A q \in Requests : SlotInv(q)
  BY <1>1, <1>2 DEF SlotInv, SlotNotes, SlotFriends, SlotArgs, ReadingPcs, Answers, TellingPcs
<1>4. NoteInv
  BY DEF SocialInit, NotesInit, NoteInv, Notes, NoteStates, AboutOK
<1>5. FriendInv
  BY DEF SocialInit, FriendInv, Friendships, FriendStates, Live
<1> QED
  BY <1>2, <1>3, <1>4, <1>5 DEF TypeInv

-----------------------------------------------------------------------------
(* Who is told.                                                            *)

ToldTo(f) ==
    \/ \E n \in About(f) : note[n].user = friendship[f].to
    \/ Telling(f, "tellAddressee")

ToldFrom(f) ==
    \/ \E n \in About(f) : note[n].user = friendship[f].from
    \/ Telling(f, "tellRequester")

Told(f) == ToldTo(f) /\ (friendship[f].status \in Answers => ToldFrom(f))

LEMMA ToldMeans == PartnersAreTold <=> \A f \in Live \ untold : Told(f)
BY DEF PartnersAreTold, Told, ToldTo, ToldFrom, Answers

\* Those who are telling go on, or are done.
LEMMA ToldFrame ==
    ASSUME TypeInv, Grow, NEW f \in FriendIds, friendship[f].status # "none",
           \A q \in Requests : req[q].pc \in TellingPcs /\ req[q].row = f =>
               req'[q].pc = req[q].pc /\ req'[q].row = req[q].row
    PROVE  (ToldTo(f) => ToldTo(f)') /\ (ToldFrom(f) => ToldFrom(f)')
<1>1. /\ friendship'[f].to = friendship[f].to /\ friendship'[f].from = friendship[f].from
  BY DEF Grow, FriendsGrow
<1>2. \A n \in About(f) : n \in About(f)' /\ note'[n].user = note[n].user
  <2>1. ASSUME NEW n \in About(f)
        PROVE  n \in NoteIds /\ note[n].state # "none"
    <3>1. n \in NoteIds /\ note[n].about = f
      BY DEF About
    <3>2. note[n].state = "none" => note[n].about = None /\ note[n].user = None
      BY <3>1 DEF TypeInv, NoteInv
    <3> QED
      BY <3>1, <3>2, FriendIdsAssumption
  <2> QED
    BY <2>1 DEF About, Grow, NotesGrow
<1>3. \A pc \in TellingPcs : Telling(f, pc) => Telling(f, pc)'
  BY DEF Telling
<1> QED
  BY <1>1, <1>2, <1>3 DEF ToldTo, ToldFrom, TellingPcs

\* No row is added or answered, and those who are telling go on.
LEMMA ToldStays ==
    ASSUME TypeInv, Grow, PartnersAreTold, Live' \subseteq Live, untold \subseteq untold',
           \A f \in Live' : friendship'[f].status = friendship[f].status,
           \A q \in Requests : req[q].pc \in TellingPcs /\ req[q].row \notin untold' =>
               req'[q].pc = req[q].pc /\ req'[q].row = req[q].row
    PROVE  PartnersAreTold'
<1>1. \A f \in Live \ untold : Told(f)
  BY ToldMeans
<1>2. ASSUME NEW f \in Live' \ untold'
      PROVE  Told(f)'
  <2>1. f \in Live /\ f \in FriendIds /\ friendship[f].status # "none" /\ Told(f)
    BY <1>1, <1>2 DEF Live
  <2> QED
    BY <1>2, <2>1, ToldFrame DEF Told
<1>3. PartnersAreTold' <=> \A f \in Live' \ untold' : Told(f)'
  BY DEF PartnersAreTold, Told, ToldTo, ToldFrom, Answers
<1> QED
  BY <1>2, <1>3

LEMMA ToldStep ==
    ASSUME TypeInv, PartnersAreTold, [SocialNext]_socialVars
    PROVE  PartnersAreTold'
<1>0. Grow /\ TypeInv' /\ \A q \in Requests : SlotInv(q)
  BY StepTypes DEF TypeInv
<1>1. ASSUME NEW q \in Requests, req[q].pc \notin TellingPcs,
             \A p \in Requests \ {q} : req'[p] = req[p],
             UNCHANGED <<friendship, untold>>
      PROVE  PartnersAreTold'
  <2>1. Live' = Live
    BY <1>1 DEF Live
  <2> QED
    BY <1>0, <1>1, <2>1, ToldStays
<1>2. ASSUME NEW q \in Requests, Reading(q) \/ Marking(q), UNCHANGED friendVars
      PROVE  PartnersAreTold'
  <2>1. req[q].pc \notin TellingPcs /\ \A p \in Requests \ {q} : req'[p] = req[p]
    BY <1>2 DEF Reading, Marking, StartReading, Count, Respond, MarkSelect, DeleteFind, MarkUpdate,
       MarkDone, DeleteRow, Return, TellingPcs, TypeInv
  <2> QED
    BY <1>1, <1>2, <2>1 DEF friendVars
<1>3. ASSUME UNCHANGED <<req, friendship, untold>>
      PROVE  PartnersAreTold'
  <2>1. Live' = Live
    BY <1>3 DEF Live
  <2> QED
    BY <1>0, <1>3, <2>1, ToldStays
<1>4. ASSUME \/ AtOnce /\ UNCHANGED friendVars
             \/ UNCHANGED socialVars
      PROVE  UNCHANGED <<req, friendship, untold>>
  BY <1>4 DEF AtOnce, MarkAll, ModeratorNotice, CreateNotification, CleanupNotifications,
     friendVars, socialVars, notesVars
<1>5. ASSUME NEW q \in Requests,
             \/ \E u, v \in Users : SendCheck(q, u, v)
             \/ \E u \in Users, f \in FriendIds, answer \in Answers : AnswerFind(q, u, f, answer)
             \/ \E u \in Users, f \in FriendIds : RemoveFind(q, u, f)
      PROVE  PartnersAreTold'
  <2>1. /\ req[q].pc \notin TellingPcs /\ UNCHANGED <<friendship, untold>>
        /\ \A p \in Requests \ {q} : req'[p] = req[p]
    BY <1>5 DEF SendCheck, AnswerFind, RemoveFind, friendVars, TellingPcs, TypeInv
  <2> QED
    BY <1>1, <2>1
<1>6. ASSUME NEW q \in Requests, SendInsert(q)
      PROVE  PartnersAreTold'
  <2>1. req[q].pc = "insertRequest" /\ req[q].user \in Users /\ req[q].other \in Users
    BY <1>0, <1>6 DEF SendInsert, SlotInv, SlotArgs
  <2>2. CASE Return(q) /\ UNCHANGED friendVars
    BY <1>1, <2>1, <2>2, ReturnSlot DEF TellingPcs, friendVars, TypeInv
  <2>3. ASSUME NEW f, Inserted(q, f)
        PROVE  PartnersAreTold'
    <3>1. UNCHANGED untold
      BY <2>3 DEF Inserted
    <3>2. /\ Live' = Live \cup {f} /\ f \notin Live
          /\ friendship'[f].status = "Pending"
          /\ \A g \in FriendIds \ {f} : friendship'[g] = friendship[g]
      BY <2>1, <2>3, RowKeeps DEF TypeInv, Inserted
    <3>3. /\ req'[q].pc = "tellAddressee" /\ req'[q].row = f
          /\ \A p \in Requests \ {q} : req'[p] = req[p]
      BY <2>3, InsertedSlot DEF TypeInv
    <3>4. Told(f)'
      BY <3>2, <3>3 DEF Told, ToldTo, Telling, Answers
    <3>5. ASSUME NEW g \in Live' \ untold', g # f
          PROVE  Told(g)'
      <4>1. g \in Live \ untold /\ g \in FriendIds /\ friendship[g].status # "none"
        BY <3>1, <3>2, <3>5 DEF Live
      <4>2. Told(g)
        BY <4>1, ToldMeans
      <4>3. (ToldTo(g) => ToldTo(g)') /\ (ToldFrom(g) => ToldFrom(g)')
        BY <1>0, <2>1, <3>3, <4>1, ToldFrame DEF TellingPcs
      <4> QED
        BY <3>2, <3>5, <4>1, <4>2, <4>3 DEF Told
    <3>6. PartnersAreTold' <=> \A g \in Live' \ untold' : Told(g)'
      BY DEF PartnersAreTold, Told, ToldTo, ToldFrom, Answers
    <3> QED
      BY <3>4, <3>5, <3>6
  <2> QED
    BY <1>6, <2>2, <2>3, InsertCases
<1>7. ASSUME NEW q \in Requests, SendNotify(q) \/ AnswerNotify(q)
      PROVE  PartnersAreTold'
  <2>0. PICK f : f = req[q].row
    OBVIOUS
  <2>1. /\ UNCHANGED <<friendship, untold>> /\ Live' = Live
        /\ \A p \in Requests \ {q} : req'[p] = req[p]
        /\ req[q].pc \in TellingPcs
    BY <1>7, ReturnSlot DEF SendNotify, AnswerNotify, friendVars, Live, TypeInv, TellingPcs
  <2>2. f \in FriendIds /\ (req[q].pc = "tellAddressee" => req[q].other = friendship[f].to)
    BY <1>0, <2>0, <2>1 DEF SlotInv, SlotFriends
  <2>3. \E n \in About(f)' :
            note'[n].user = IF req[q].pc = "tellAddressee" THEN friendship[f].to ELSE friendship[f].from
    <3>0. PICK u : u = IF req[q].pc = "tellAddressee" THEN friendship[f].to ELSE friendship[f].from
      OBVIOUS
    <3>1. InsertNote(u, "FriendRequest", f)
      <4>1. CASE req[q].pc = "tellAddressee"
        BY <1>7, <2>0, <2>2, <3>0, <4>1 DEF SendNotify, AnswerNotify
      <4>2. CASE req[q].pc = "tellRequester"
        BY <1>7, <2>0, <3>0, <4>2 DEF SendNotify, AnswerNotify
      <4> QED
        BY <2>1, <4>1, <4>2 DEF TellingPcs
    <3>2. Added(u, f)
      <4>1. u \in Users /\ NoteInv /\ "FriendRequest" \in Types
        BY <1>0, <2>0, <2>1, <2>2, <3>0 DEF TypeInv, FriendInv, SlotInv, SlotFriends, Types
      <4> QED
        BY <2>2, <3>1, <4>1, InsertAdds
    <3> QED
      BY <2>1, <3>0, <3>2 DEF About, Added
  <2>4. ASSUME NEW g \in Live \ untold
        PROVE  Told(g)'
    <3>1. g \in FriendIds /\ friendship[g].status # "none" /\ Told(g)
      BY <2>4, ToldMeans DEF Live
    <3>2. CASE g # f
      BY <1>0, <2>0, <2>1, <3>1, <3>2, ToldFrame DEF Told
    <3>3. CASE g = f
      <4>1. \A n \in About(g) : n \in About(g)' /\ note'[n].user = note[n].user
        <5>1. \A n \in About(g) : n \in NoteIds /\ note[n].about = g /\ g # None
          BY <3>1, FriendIdsAssumption DEF About
        <5> QED
          BY <1>0, <5>1 DEF About, Grow, NotesGrow, TypeInv, NoteInv
      <4>2. /\ req[q].pc = "tellAddressee" => ToldTo(g)' /\ (ToldFrom(g) => ToldFrom(g)')
            /\ req[q].pc = "tellRequester" => ToldFrom(g)' /\ (ToldTo(g) => ToldTo(g)')
        <5>1. \/ req[q].pc = "tellAddressee" /\ ToldTo(g)'
              \/ req[q].pc = "tellRequester" /\ ToldFrom(g)'
          BY <2>1, <2>3, <3>3 DEF ToldTo, ToldFrom, TellingPcs
        <5>2. /\ req[q].pc = "tellAddressee" => (ToldFrom(g) => ToldFrom(g)')
              /\ req[q].pc = "tellRequester" => (ToldTo(g) => ToldTo(g)')
          <6>1. \A pc \in TellingPcs : pc # req[q].pc => (Telling(g, pc) => Telling(g, pc)')
            BY <2>1 DEF Telling
          <6> QED
            BY <2>1, <4>1, <6>1 DEF ToldTo, ToldFrom, TellingPcs
        <5> QED
          BY <5>1, <5>2
      <4> QED
        BY <2>1, <3>1, <4>2 DEF Told, TellingPcs
    <3> QED
      BY <3>2, <3>3
  <2>5. PartnersAreTold' <=> \A g \in Live' \ untold' : Told(g)'
    BY DEF PartnersAreTold, Told, ToldTo, ToldFrom, Answers
  <2> QED
    BY <2>1, <2>4, <2>5
<1>8. ASSUME NEW q \in Requests, RemoveDelete(q) \/ AnswerUpdate(q)
      PROVE  PartnersAreTold'
  <2> DEFINE f == req[q].row
  <2>1. /\ req[q].pc \notin TellingPcs /\ f \in FriendIds /\ friendship[f].status # "none"
        /\ UNCHANGED untold
    BY <1>0, <1>8 DEF RemoveDelete, AnswerUpdate, TellingPcs, SlotInv, SlotFriends, Answers
  <2>2. CASE Return(q) /\ UNCHANGED friendship
    BY <1>1, <2>1, <2>2, ReturnSlot DEF TypeInv
  <2>3. CASE Return(q) /\ friendship' = [friendship EXCEPT ![f].status = "removed"]
    <3>1. /\ Live' \subseteq Live /\ f \notin Live'
          /\ \A g \in FriendIds \ {f} : friendship'[g] = friendship[g]
      BY <2>1, <2>3, StatusKeeps DEF TypeInv, Live
    <3>2. \A g \in Live' : friendship'[g].status = friendship[g].status
      BY <3>1 DEF Live
    <3>3. \A p \in Requests \ {q} : req'[p] = req[p]
      BY <2>3, ReturnSlot DEF TypeInv
    <3> QED
      BY <1>0, <2>1, <3>1, <3>2, <3>3, ToldStays
  <2>4. CASE /\ req[q].pc \in Answers /\ f \in Live /\ Goto(q, "tellRequester")
             /\ friendship' = [friendship EXCEPT ![f].status = req[q].pc]
    <3>1. /\ Live' \subseteq Live /\ \A g \in FriendIds \ {f} : friendship'[g] = friendship[g]
      BY <2>1, <2>4, StatusKeeps DEF TypeInv, Answers
    <3>2. /\ req'[q].pc = "tellRequester" /\ req'[q].row = f
          /\ \A p \in Requests \ {q} : req'[p] = req[p]
      BY <2>4, GotoSlot DEF TypeInv, RequestPcs, TellingPcs
    <3>3. ASSUME NEW g \in Live' \ untold'
          PROVE  Told(g)'
      <4>1. g \in Live \ untold /\ g \in FriendIds /\ friendship[g].status # "none"
        BY <2>1, <3>1, <3>3 DEF Live
      <4>2. Told(g)
        BY <4>1, ToldMeans
      <4>3. (ToldTo(g) => ToldTo(g)') /\ (ToldFrom(g) => ToldFrom(g)')
        BY <1>0, <2>1, <3>2, <4>1, ToldFrame
      <4>4. g = f => ToldFrom(g)'
        BY <3>2 DEF ToldFrom, Telling
      <4> QED
        BY <3>1, <4>1, <4>2, <4>3, <4>4 DEF Told
    <3>4. PartnersAreTold' <=> \A g \in Live' \ untold' : Told(g)'
      BY DEF PartnersAreTold, Told, ToldTo, ToldFrom, Answers
    <3> QED
      BY <3>3, <3>4
  <2> QED
    BY <1>8, <2>2, <2>3, <2>4 DEF RemoveDelete, AnswerUpdate, Answers
<1>9. ASSUME NEW q \in Requests, Abort(q)
      PROVE  PartnersAreTold'
  <2>1. /\ UNCHANGED friendship /\ Live' = Live /\ untold \subseteq untold'
        /\ req[q].pc \in TellingPcs => req[q].row \in untold'
        /\ \A p \in Requests \ {q} : req'[p] = req[p]
    BY <1>9, ReturnSlot DEF Abort, TellingPcs, Live, TypeInv
  <2> QED
    BY <1>0, <2>1, ToldStays
<1> QED
  BY <1>2, <1>3, <1>4, <1>5, <1>6, <1>7, <1>8, <1>9 DEF SocialNext, Befriending, Answers

-----------------------------------------------------------------------------
(* What was read, and what came after.                                     *)

\* A request that goes on, and for which nothing but its late rows changed.
LEMMA ReadFrame ==
    ASSUME TypeInv, NEW q \in Requests, AnswerRead(q), InsertRead(q), req'[q] = req[q],
           late[q] \subseteq late'[q], Live' \subseteq Live,
           \A g \in FriendIds : Pair(g)' = Pair(g),
           \A g \in FriendIds : \/ friendship'[g].status \in {friendship[g].status, "removed"}
                                \/ q \in Deciding => g \in late'[q]
    PROVE  (AnswerRead(q) /\ InsertRead(q))'
<1>1. req[q].pc \in Answers => req[q].row \in FriendIds /\ q \in Deciding
  BY DEF TypeInv, SlotInv, SlotFriends, Deciding, Answers
<1>2. AnswerRead(q)'
  BY <1>1 DEF AnswerRead
<1>3. Live \subseteq FriendIds
  BY DEF Live
<1>4. InsertRead(q)'
  BY <1>3 DEF InsertRead
<1> QED
  BY <1>2, <1>4

\* A request that is not between its check and its write.
LEMMA ReadDone ==
    ASSUME NEW q \in Requests, req'[q].pc \notin Answers \cup {"insertRequest"}
    PROVE  (AnswerRead(q) /\ InsertRead(q))'
BY DEF AnswerRead, InsertRead

LEMMA ReadsStay ==
    ASSUME TypeInv, ReadsInv, UNCHANGED <<friendship, late>>,
           \A q \in Requests :
               req'[q] = req[q] \/ req'[q].pc \notin Answers \cup {"insertRequest"}
    PROVE  ReadsInv'
<1>1. Live' = Live /\ \A g \in FriendIds : Pair(g)' = Pair(g)
  BY DEF Live, Pair
<1>2. ASSUME NEW q \in Requests
      PROVE  (AnswerRead(q) /\ InsertRead(q))'
  <2>1. AnswerRead(q) /\ InsertRead(q)
    BY DEF ReadsInv
  <2>2. CASE req'[q] = req[q]
    BY <1>1, <2>1, <2>2, ReadFrame
  <2>3. CASE req'[q].pc \notin Answers \cup {"insertRequest"}
    BY <2>3, ReadDone
  <2> QED
    BY <2>2, <2>3
<1> QED
  BY <1>2 DEF ReadsInv

LEMMA ReadsStep ==
    ASSUME TypeInv, ReadsInv, [SocialNext]_socialVars
    PROVE  ReadsInv'
<1>0. /\ req \in [Requests -> Slots] /\ late \in [Requests -> SUBSET FriendIds]
      /\ \A q \in Requests : AnswerRead(q) /\ InsertRead(q) /\ SlotInv(q)
      /\ FriendInv
  BY DEF TypeInv, ReadsInv
<1>1. ASSUME NEW q \in Requests, UNCHANGED <<friendship, late>>,
             \A p \in Requests \ {q} : req'[p] = req[p],
             req'[q].pc \notin Answers \cup {"insertRequest"}
      PROVE  ReadsInv'
  BY <1>1, ReadsStay
<1>2. ASSUME NEW q \in Requests, Reading(q) \/ Marking(q), UNCHANGED friendVars
      PROVE  ReadsInv'
  <2>1. ASSUME Return(q)
        PROVE  ReadsInv'
    BY <1>0, <1>1, <1>2, <2>1, ReturnSlot DEF friendVars, Answers
  <2>2. ASSUME Count(q) \/ \E n \in NoteIds : MarkUpdate(q, n), ~Return(q)
        PROVE  ReadsInv'
    <3>1. /\ \A p \in Requests \ {q} : req'[p] = req[p]
          /\ req'[q].pc = req[q].pc /\ req[q].pc \in ReadingPcs \cup {"mark"}
      <4>1. CASE Count(q)
        BY <1>0, <4>1 DEF Count, ReadingPcs, Slots
      <4>2. CASE \E n \in NoteIds : MarkUpdate(q, n)
        BY <1>0, <2>2, <4>2 DEF MarkUpdate, Slots
      <4> QED
        BY <2>2, <4>1, <4>2
    <3> QED
      BY <1>1, <1>2, <3>1 DEF friendVars, ReadingPcs, Answers
  <2>3. ASSUME \/ \E u \in Users, what \in ReadingPcs : StartReading(q, u, what)
               \/ \E u \in Users, S \in SUBSET NoteIds : MarkSelect(q, u, S)
               \/ \E u \in Users, n \in NoteIds : DeleteFind(q, u, n)
        PROVE  ReadsInv'
    <3>1. /\ \A p \in Requests \ {q} : req'[p] = req[p]
          /\ req'[q].pc \in ReadingPcs \cup {"mark", "deleteNote"}
      <4>1. ASSUME NEW u \in Users, NEW what \in ReadingPcs, StartReading(q, u, what)
            PROVE  req'[q].pc = what /\ \A p \in Requests \ {q} : req'[p] = req[p]
        BY <1>0, <4>1 DEF StartReading, Slots
      <4>2. ASSUME NEW u \in Users, NEW S \in SUBSET NoteIds, MarkSelect(q, u, S)
            PROVE  req'[q].pc = "mark" /\ \A p \in Requests \ {q} : req'[p] = req[p]
        BY <1>0, <4>2 DEF MarkSelect, Slots
      <4>3. ASSUME NEW u \in Users, NEW n \in NoteIds, DeleteFind(q, u, n)
            PROVE  req'[q].pc = "deleteNote" /\ \A p \in Requests \ {q} : req'[p] = req[p]
        BY <1>0, <4>3 DEF DeleteFind, Slots
      <4> QED
        BY <2>3, <4>1, <4>2, <4>3
    <3> QED
      BY <1>1, <1>2, <3>1 DEF friendVars, ReadingPcs, Answers
  <2> QED
    BY <1>2, <2>1, <2>2, <2>3 DEF Reading, Marking, Respond, MarkDone, DeleteRow, ReadingPcs
<1>3. ASSUME \/ AtOnce /\ UNCHANGED friendVars
             \/ UNCHANGED socialVars
      PROVE  ReadsInv'
  <2>1. UNCHANGED <<req, friendship, late>>
    BY <1>3 DEF AtOnce, MarkAll, ModeratorNotice, CreateNotification, CleanupNotifications,
       friendVars, socialVars, notesVars
  <2> QED
    BY <2>1, ReadsStay
<1>4. ASSUME NEW q \in Requests,
             SendNotify(q) \/ AnswerNotify(q) \/ Abort(q)
      PROVE  ReadsInv'
  <2>1. Return(q) /\ UNCHANGED <<friendship, late>>
    BY <1>4 DEF SendNotify, AnswerNotify, Abort, friendVars
  <2> QED
    BY <1>0, <1>1, <2>1, ReturnSlot DEF Answers
<1>5. ASSUME NEW q \in Requests, NEW u \in Users, NEW f \in FriendIds, RemoveFind(q, u, f)
      PROVE  ReadsInv'
  <2>1. /\ \A p \in Requests \ {q} : req'[p] = req[p]
        /\ req'[q].pc = "remove" /\ UNCHANGED <<friendship, late>>
    BY <1>0, <1>5 DEF RemoveFind, Slots, friendVars
  <2> QED
    BY <1>1, <2>1 DEF Answers
<1>6. ASSUME NEW q \in Requests,
             \/ \E u, v \in Users : SendCheck(q, u, v)
             \/ \E u \in Users, f \in FriendIds, answer \in Answers : AnswerFind(q, u, f, answer)
      PROVE  ReadsInv'
  <2>1. /\ late' = [late EXCEPT ![q] = {}] /\ UNCHANGED friendship
        /\ \A p \in Requests \ {q} : req'[p] = req[p]
    BY <1>6 DEF SendCheck, AnswerFind, ReadNow, TypeInv
  <2>2. (AnswerRead(q) /\ InsertRead(q))'
    <3>1. ASSUME NEW u \in Users, NEW v \in Users, SendCheck(q, u, v)
          PROVE  (AnswerRead(q) /\ InsertRead(q))'
      <4>1. /\ req'[q].pc = "insertRequest" /\ req'[q].user = u /\ req'[q].other = v
            /\ ~\E f \in Live : Pair(f) = {u, v}
        BY <1>0, <3>1 DEF SendCheck, Slots
      <4>2. Live' = Live /\ \A g : Pair(g)' = Pair(g)
        BY <2>1 DEF Live, Pair
      <4> QED
        BY <4>1, <4>2 DEF AnswerRead, InsertRead, Answers
    <3>2. ASSUME NEW u \in Users, NEW f \in FriendIds, NEW answer \in Answers,
                 AnswerFind(q, u, f, answer)
          PROVE  (AnswerRead(q) /\ InsertRead(q))'
      <4>1. req'[q].pc = answer /\ req'[q].row = f /\ friendship[f].status = "Pending"
        BY <1>0, <3>2 DEF AnswerFind, Slots
      <4> QED
        BY <2>1, <4>1 DEF AnswerRead, InsertRead, Answers
    <3> QED
      BY <1>6, <3>1, <3>2
  <2>3. ASSUME NEW p \in Requests, p # q
        PROVE  (AnswerRead(p) /\ InsertRead(p))'
    <3>1. Live' = Live /\ \A g \in FriendIds : Pair(g)' = Pair(g)
      BY <2>1 DEF Live, Pair
    <3> QED
      BY <1>0, <2>1, <2>3, <3>1, ReadFrame
  <2> QED
    BY <1>0, <2>1, <2>2, <2>3 DEF ReadsInv
<1>7. ASSUME NEW q \in Requests, RemoveDelete(q)
      PROVE  ReadsInv'
  <2>1. /\ Return(q) /\ UNCHANGED late /\ req[q].row \in FriendIds
        /\ friendship[req[q].row].status # "none"
        /\ friendship' = [friendship EXCEPT ![req[q].row].status = "removed"]
    BY <1>0, <1>7 DEF RemoveDelete, SlotInv, SlotFriends
  <2>2. PICK f \in FriendIds :
            /\ Live' \subseteq Live /\ friendship'[f].status = "removed"
            /\ \A g \in FriendIds \ {f} : friendship'[g] = friendship[g]
            /\ \A g \in FriendIds : Pair(g)' = Pair(g)
    BY <1>0, <2>1, StatusKeeps
  <2>3. \A p \in Requests : (AnswerRead(p) /\ InsertRead(p))'
    <3>1. ASSUME NEW p \in Requests, p # q
          PROVE  (AnswerRead(p) /\ InsertRead(p))'
      BY <1>0, <2>1, <2>2, <3>1, ReturnSlot, ReadFrame
    <3>2. (AnswerRead(q) /\ InsertRead(q))'
      BY <1>0, <2>1, ReturnSlot, ReadDone DEF Answers
    <3> QED
      BY <3>1, <3>2
  <2> QED
    BY <1>0, <2>1, <2>3 DEF ReadsInv
<1>8. ASSUME NEW f \in FriendIds, Written(f)
      PROVE  /\ late' \in [Requests -> SUBSET FriendIds]
             /\ \A p \in Requests : p \in Deciding => late[p] \subseteq late'[p] /\ f \in late'[p]
  BY <1>0, <1>8 DEF Written
<1>9. ASSUME NEW q \in Requests, AnswerUpdate(q)
      PROVE  ReadsInv'
  <2>1. req[q].pc \in Answers /\ req[q].row \in FriendIds /\ friendship[req[q].row].status # "none"
    BY <1>0, <1>9 DEF AnswerUpdate, SlotInv, SlotFriends, Answers
  <2>2. CASE Return(q) /\ UNCHANGED <<friendship, late>>
    BY <1>0, <1>1, <2>2, ReturnSlot DEF Answers
  <2>3. CASE ~(Return(q) /\ UNCHANGED <<friendship, late>>)
    <3>1. /\ Goto(q, "tellRequester") /\ Written(req[q].row) /\ req[q].row \in Live
          /\ friendship' = [friendship EXCEPT ![req[q].row].status = req[q].pc]
      BY <1>9, <2>3 DEF AnswerUpdate
    <3>2. PICK f \in FriendIds :
              /\ f = req[q].row /\ Live' \subseteq Live
              /\ \A g \in FriendIds \ {f} : friendship'[g] = friendship[g]
              /\ \A g \in FriendIds : Pair(g)' = Pair(g)
      BY <1>0, <2>1, <3>1, StatusKeeps DEF Answers
    <3>3. /\ late' \in [Requests -> SUBSET FriendIds]
          /\ \A p \in Requests : p \in Deciding => late[p] \subseteq late'[p] /\ f \in late'[p]
      BY <1>8, <3>1, <3>2
    <3>4. /\ req'[q].pc = "tellRequester"
          /\ \A p \in Requests \ {q} : req'[p] = req[p]
      BY <1>0, <3>1, GotoSlot DEF RequestPcs, TellingPcs
    <3>5. ASSUME NEW p \in Requests
          PROVE  (AnswerRead(p) /\ InsertRead(p))'
      <4>1. CASE p = q \/ p \notin Deciding
        BY <3>4, <4>1, ReadDone DEF Deciding, Answers
      <4>2. CASE p # q /\ p \in Deciding
        BY <1>0, <3>2, <3>3, <3>4, <4>2, ReadFrame
      <4> QED
        BY <4>1, <4>2
    <3> QED
      BY <3>3, <3>5 DEF ReadsInv
  <2> QED
    BY <2>2, <2>3
<1>10. ASSUME NEW q \in Requests, SendInsert(q)
       PROVE  ReadsInv'
  <2>1. req[q].pc = "insertRequest" /\ req[q].user \in Users /\ req[q].other \in Users
    BY <1>0, <1>10 DEF SendInsert, SlotInv, SlotArgs
  <2>2. CASE Return(q) /\ UNCHANGED friendVars
    BY <1>0, <1>1, <2>2, ReturnSlot DEF friendVars, Answers
  <2>3. ASSUME NEW f, Inserted(q, f)
        PROVE  ReadsInv'
    <3>1. /\ req'[q].pc = "tellAddressee" /\ f \in FriendIds /\ friendship[f].status = "none"
          /\ \A p \in Requests \ {q} : req'[p] = req[p]
      BY <1>0, <2>3, InsertedSlot
    <3>2. /\ Live' = Live \cup {f} /\ f \notin Live
          /\ \A g \in FriendIds \ {f} : friendship'[g] = friendship[g]
      BY <1>0, <2>1, <2>3, RowKeeps DEF Inserted
    <3>3. /\ late' \in [Requests -> SUBSET FriendIds]
          /\ \A p \in Requests : p \in Deciding => late[p] \subseteq late'[p] /\ f \in late'[p]
      BY <1>8, <2>3, <3>1 DEF Inserted
    <3>4. ASSUME NEW p \in Requests
          PROVE  (AnswerRead(p) /\ InsertRead(p))'
      <4>1. CASE p = q \/ p \notin Deciding
        BY <3>1, <4>1, ReadDone DEF Deciding, Answers
      <4>2. CASE p # q /\ p \in Deciding
        <5>1. AnswerRead(p)'
          BY <1>0, <3>1, <3>2, <3>3, <4>2 DEF AnswerRead, SlotInv, SlotFriends
        <5>2. \A g \in Live : Pair(g)' = Pair(g)
          BY <3>2 DEF Pair, Live
        <5>3. InsertRead(p)'
          BY <1>0, <3>1, <3>2, <3>3, <4>2, <5>2 DEF InsertRead
        <5> QED
          BY <5>1, <5>3
      <4> QED
        BY <4>1, <4>2
    <3> QED
      BY <3>3, <3>4 DEF ReadsInv
  <2> QED
    BY <1>10, <2>2, <2>3, InsertCases
<1> QED
  BY <1>2, <1>3, <1>4, <1>5, <1>6, <1>7, <1>9, <1>10 DEF SocialNext, Befriending, Answers

\* A second row for a pair crossed the first.
LEMMA PairsStep ==
    ASSUME TypeInv, ReadsInv, PairsOnce, [SocialNext]_socialVars
    PROVE  PairsOnce'
<1>0. FriendInv /\ Live \subseteq FriendIds /\ \A q \in Requests : SlotInv(q) /\ InsertRead(q)
  BY DEF TypeInv, Live, ReadsInv
<1>1. ASSUME Live' \subseteq Live, \A g \in FriendIds : Pair(g)' = Pair(g), crossed \subseteq crossed'
      PROVE  PairsOnce'
  BY <1>0, <1>1 DEF PairsOnce
<1>2. ASSUME UNCHANGED <<friendship, crossed>>
      PROVE  PairsOnce'
  BY <1>1, <1>2 DEF Live, Pair
<1>3. ASSUME NEW q \in Requests, RemoveDelete(q) \/ AnswerUpdate(q)
      PROVE  PairsOnce'
  <2>1. req[q].row \in FriendIds /\ friendship[req[q].row].status # "none"
    BY <1>0, <1>3 DEF RemoveDelete, AnswerUpdate, SlotInv, SlotFriends, Answers
  <2>2. CASE UNCHANGED friendship
    BY <1>2, <1>3, <2>2 DEF RemoveDelete, AnswerUpdate
  <2>3. CASE friendship' # friendship
    <3>1. Live' \subseteq Live /\ \A g \in FriendIds : Pair(g)' = Pair(g)
      <4>1. CASE RemoveDelete(q)
        BY <1>0, <2>1, <4>1, StatusKeeps DEF RemoveDelete
      <4>2. CASE AnswerUpdate(q)
        BY <1>0, <2>1, <2>3, <4>2, StatusKeeps DEF AnswerUpdate
      <4> QED
        BY <1>3, <4>1, <4>2
    <3> QED
      BY <1>1, <1>3, <3>1 DEF RemoveDelete, AnswerUpdate
  <2> QED
    BY <2>2, <2>3
<1>4. ASSUME NEW q \in Requests, SendInsert(q)
      PROVE  PairsOnce'
  <2>1. req[q].pc = "insertRequest" /\ req[q].user \in Users /\ req[q].other \in Users
    BY <1>0, <1>4 DEF SendInsert, SlotInv, SlotArgs
  <2>2. ASSUME NEW f, Inserted(q, f)
        PROVE  PairsOnce'
    <3>1. /\ Live' = Live \cup {f} /\ f \notin Live
          /\ friendship'[f].from = req[q].user /\ friendship'[f].to = req[q].other
          /\ \A g \in FriendIds \ {f} : friendship'[g] = friendship[g]
      BY <1>0, <2>1, <2>2, RowKeeps DEF Inserted
    <3>2. Pair(f)' = {req[q].user, req[q].other} /\ \A g \in Live : Pair(g)' = Pair(g)
      BY <1>0, <3>1 DEF Pair
    <3>3. crossed \subseteq crossed'
      BY <2>2 DEF Inserted
    <3>4. ASSUME NEW g \in Live, Pair(g) = {req[q].user, req[q].other}
          PROVE  f \in crossed'
      <4>1. g \in late[q]
        BY <1>0, <2>1, <3>4 DEF InsertRead
      <4> QED
        BY <2>2, <3>4, <4>1 DEF Inserted
    <3> QED
      BY <3>1, <3>2, <3>3, <3>4 DEF PairsOnce
  <2> QED
    BY <1>2, <1>4, <2>2, InsertCases DEF friendVars
<1>5. ASSUME \/ \E q \in Requests : (Reading(q) \/ Marking(q)) /\ UNCHANGED friendVars
             \/ AtOnce /\ UNCHANGED friendVars
             \/ UNCHANGED socialVars
      PROVE  PairsOnce'
  BY <1>2, <1>5 DEF friendVars, socialVars
<1>6. ASSUME NEW q \in Requests,
             \/ \E u, v \in Users : SendCheck(q, u, v)
             \/ \E u \in Users, f \in FriendIds, answer \in Answers : AnswerFind(q, u, f, answer)
             \/ \E u \in Users, f \in FriendIds : RemoveFind(q, u, f)
             \/ SendNotify(q) \/ AnswerNotify(q) \/ Abort(q)
      PROVE  PairsOnce'
  BY <1>2, <1>6 DEF SendCheck, AnswerFind, RemoveFind, SendNotify, AnswerNotify, Abort, friendVars
<1> QED
  BY <1>3, <1>4, <1>5, <1>6 DEF SocialNext, Befriending, Answers

-----------------------------------------------------------------------------
(* The counts of one answer.                                               *)

LEMMA UserSets ==
    ASSUME NEW u
    PROVE  /\ NotesOf(u) \in SUBSET NoteIds /\ Unread(u) \subseteq NotesOf(u)
           /\ Unread(u) \in SUBSET NoteIds /\ \A i \in 2..4 : Rest(u, i) \in SUBSET NoteIds
BY DEF NotesOf, Unread, Rest

\* Sets that agree outside D differ in size by at most D's.
LEMMA CardDrift ==
    ASSUME NEW A \in SUBSET NoteIds, NEW B \in SUBSET NoteIds, NEW D \in SUBSET NoteIds,
           A \ D = B \ D
    PROVE  Cardinality(B) <= Cardinality(A) + Cardinality(D)
<1> DEFINE C == (A \ D) \cup D
<1>1. B \subseteq C /\ C \in SUBSET NoteIds /\ A \ D \in SUBSET A /\ (A \ D) \cap D = {}
  OBVIOUS
<1>2. IsFiniteSet(A) /\ IsFiniteSet(D) /\ IsFiniteSet(C) /\ IsFiniteSet(A \ D)
  BY <1>1, CountNat
<1>3. Cardinality(C) = Cardinality(A \ D) + Cardinality(D) - Cardinality((A \ D) \cap D)
  BY <1>2, FS_Union
<1>4. Cardinality((A \ D) \cap D) = 0
  BY <1>1, FS_EmptySet
<1>5. Cardinality(A \ D) <= Cardinality(A)
  BY <1>1, <1>2, FS_Subset
<1>6. Cardinality(B) <= Cardinality(C)
  BY <1>1, <1>2, FS_Subset
<1>7. /\ Cardinality(A) \in Nat /\ Cardinality(B) \in Nat /\ Cardinality(C) \in Nat
      /\ Cardinality(D) \in Nat /\ Cardinality(A \ D) \in Nat
  BY <1>1, CountNat
<1> HIDE DEF C
<1> QED
  BY <1>3, <1>4, <1>5, <1>6, <1>7

LEMMA CardSplit ==
    ASSUME NEW A \in SUBSET NoteIds, NEW B \in SUBSET NoteIds, NEW C \in SUBSET NoteIds,
           A = B \cup C, B \cap C = {}
    PROVE  Cardinality(A) = Cardinality(B) + Cardinality(C)
<1>1. IsFiniteSet(B) /\ IsFiniteSet(C) /\ Cardinality(B) \in Nat /\ Cardinality(C) \in Nat
  BY CountNat
<1>2. Cardinality(A) = Cardinality(B) + Cardinality(C) - Cardinality(B \cap C)
  BY <1>1, FS_Union
<1>3. Cardinality(B \cap C) = 0
  BY FS_EmptySet
<1> QED
  BY <1>1, <1>2, <1>3

\* A change of the rows S, of which D are the user's, moves none of the counts
\* by more than D.
Changes(S) ==
    /\ Churn(S)
    /\ \A n \in NoteIds \ S : note'[n] = note[n]
    /\ \A n \in S : note[n].state = "none" \/ note'[n].user = note[n].user

Moved == \E S \in SUBSET NoteIds : Changes(S)

LEMMA InsertChanges ==
    ASSUME NoteInv, NEW u, NEW type, NEW about, InsertNote(u, type, about)
    PROVE  Moved
<1> DEFINE new == [state |-> "unread", user |-> u, type |-> type, about |-> about]
<1>1. PICK n \in NoteIds : note[n].state = "none" /\ Churn({n}) /\ note' = [note EXCEPT ![n] = new]
  BY InsertEffect
<1> HIDE DEF new
<1>2. Changes({n})
  BY <1>1 DEF Changes, NoteInv
<1> QED
  BY <1>2 DEF Moved

LEMMA SetChanges ==
    ASSUME NoteInv, NEW S \in SUBSET NoteIds, NEW state, SetNotes(S, state)
    PROVE  Moved
<1>1. \A n \in NoteIds : note'[n] = IF n \in S THEN [note[n] EXCEPT !.state = state] ELSE note[n]
  BY DEF SetNotes
<1>2. \A n \in S : note'[n].user = note[n].user
  BY <1>1 DEF NoteInv, Notes
<1> QED
  BY <1>1, <1>2 DEF Changes, SetNotes, Moved

LEMMA NoChanges ==
    ASSUME NoteInv, UNCHANGED <<note, churn>>
    PROVE  Moved
<1>1. \A q \in Requests : Cardinality({n \in {} : note'[n].user = req[q].user}) = 0
  BY FS_EmptySet
<1>2. Churn({})
  BY <1>1 DEF Churn, NoteInv
<1>3. Changes({})
  BY <1>2 DEF Changes
<1> QED
  BY <1>3 DEF Moved

OfUser(u, S, D) == \A n \in NoteIds : n \in D <=> n \in S /\ note'[n].user = u

Agree(u, D) ==
    /\ NotesOf(u) \ D = NotesOf(u)' \ D
    /\ Unread(u) \ D = Unread(u)' \ D
    /\ \A i \in 2..4 : Rest(u, i) \ D = Rest(u, i)' \ D

LEMMA SetsAgree ==
    ASSUME NoteInv, NEW u, NEW S \in SUBSET NoteIds, NEW D \in SUBSET NoteIds,
           Changes(S), OfUser(u, S, D)
    PROVE  Agree(u, D)
<1>1. ASSUME NEW n \in NoteIds \ D
      PROVE  /\ n \in NotesOf(u) <=> n \in NotesOf(u)'
             /\ n \in Unread(u) <=> n \in Unread(u)'
             /\ n \in NotesOf(u) => note'[n].type = note[n].type
  <2>1. CASE n \notin S
    BY <2>1 DEF Changes, NotesOf, Unread
  <2>2. CASE n \in S
    <3>1. note'[n].user # u
      BY <1>1, <2>2 DEF OfUser
    <3>2. n \notin NotesOf(u)
      BY <2>2, <3>1 DEF Changes, NotesOf
    <3> QED
      BY <3>1, <3>2 DEF NotesOf, Unread
  <2> QED
    BY <2>1, <2>2
<1>2. NotesOf(u) \subseteq NoteIds /\ NotesOf(u)' \subseteq NoteIds /\ Unread(u) \subseteq NotesOf(u)
      /\ Unread(u)' \subseteq NotesOf(u)'
  BY DEF NotesOf, Unread
<1>3. NotesOf(u) \ D = NotesOf(u)' \ D /\ Unread(u) \ D = Unread(u)' \ D
  BY <1>1, <1>2
<1>4. ASSUME NEW i \in 2..4, NEW n \in NoteIds \ D
      PROVE  n \in Rest(u, i) <=> n \in Rest(u, i)'
  BY <1>1, <1>2 DEF Rest
<1>5. \A i \in 2..4 : Rest(u, i) \subseteq NoteIds /\ Rest(u, i)' \subseteq NoteIds
  BY <1>2 DEF Rest
<1> QED
  BY <1>3, <1>4, <1>5 DEF Agree

\* The counts drift no faster than the rows change.
LEMMA CountDrifts ==
    ASSUME NEW pc, NEW c, NEW drift \in Nat, NEW e \in Nat, NEW n \in Nat \ {0},
           Len(c) = n, \A i \in 1..n : c[i] \in Nat,
           NEW a \in Nat, NEW x \in Nat, NEW r2 \in Nat, NEW r3 \in Nat, NEW r4 \in Nat,
           NEW aa \in Nat, NEW xx \in Nat, NEW rr2 \in Nat, NEW rr3 \in Nat, NEW rr4 \in Nat,
           CountOK(pc, c, drift, a, x, r2, r3, r4),
           aa <= a + e, xx <= x + e, rr2 <= r2 + e, rr3 <= r3 + e, rr4 <= r4 + e,
           a <= aa + e, x <= xx + e, r2 <= rr2 + e, r3 <= rr3 + e, r4 <= rr4 + e
    PROVE  CountOK(pc, c, drift + e, aa, xx, rr2, rr3, rr4)
<1>1. Len(c) \in Nat /\ (\A i \in 1..Len(c) : c[i] \in Nat) /\ Len(c) # 0
  OBVIOUS
<1>2. CASE pc = "summary"
  <2>0. Len(c) \in 1..4
    <3>1. Len(c) \in 0..4
      BY <1>2 DEF CountOK
    <3> QED
      BY <1>1, <3>1
  <2>1. CASE Len(c) = 1
    BY <1>1, <1>2, <2>1 DEF CountOK
  <2>2. CASE Len(c) = 2
    <3>1. c[1] \in Nat /\ c[2] \in Nat
      BY <1>1, <2>2
    <3> QED
      BY <1>2, <2>2, <3>1 DEF CountOK, Distance
  <2>3. CASE Len(c) = 3
    <3>1. c[1] \in Nat /\ c[2] \in Nat /\ c[3] \in Nat
      BY <1>1, <2>3
    <3> QED
      BY <1>2, <2>3, <3>1 DEF CountOK, Distance
  <2>4. CASE Len(c) = 4
    <3>1. c[1] \in Nat /\ c[2] \in Nat /\ c[3] \in Nat /\ c[4] \in Nat
      BY <1>1, <2>4
    <3> QED
      BY <1>2, <2>4, <3>1 DEF CountOK, Distance
  <2> QED
    BY <2>0, <2>1, <2>2, <2>3, <2>4
<1>3. CASE pc = "list"
  BY <1>1, <1>3, SMTT(30) DEF CountOK, Distance
<1>4. CASE pc = "listUnread"
  BY <1>1, <1>4, SMTT(30) DEF CountOK, Distance
<1>5. CASE pc \notin {"summary", "list", "listUnread"}
  BY <1>1, <1>5 DEF CountOK
<1> QED
  BY <1>2, <1>3, <1>4, <1>5

\* The next count, k, is that of the n-th statement.
NextCount(pc, n, k, a, x, r2, r3, r4) ==
    /\ k \in Nat /\ n \in 0..3 /\ (pc = "summary" \/ n # 3)
    /\ n \in {0, 2} /\ pc = "list" => k = a
    /\ n \in {0, 2} /\ pc = "listUnread" => k = x
    /\ n = 1 => k = x
    /\ pc = "summary" => /\ (n = 0 => k = a)
                        /\ (n = 2 => r2 = k + r3)
                        /\ (n = 3 => r3 = k + r4)

LEMMA CountNext ==
    ASSUME NEW pc \in ReadingPcs, NEW c \in Seq(Nat), NEW k, NEW n, NEW drift \in Nat,
           NEW a \in Nat, NEW x \in Nat, NEW r2 \in Nat, NEW r3 \in Nat, NEW r4 \in Nat,
           CountOK(pc, c, drift, a, x, r2, r3, r4), Len(c) = n,
           NextCount(pc, n, k, a, x, r2, r3, r4), x <= a, r2 = x
    PROVE  CountOK(pc, Append(c, k), drift, a, x, r2, r3, r4)
<1>0. k \in Nat /\ n \in 0..3
  BY DEF NextCount
<1> DEFINE d == Append(c, k)
<1>1. /\ Len(c) \in Nat /\ Len(d) = Len(c) + 1 /\ d[Len(c) + 1] = k /\ d # <<>>
      /\ \A i \in 1..Len(c) : d[i] = c[i] /\ c[i] \in Nat
  <2>1. Len(c) \in Nat /\ \A i \in 1..Len(c) : c[i] \in Nat
    OBVIOUS
  <2>2. /\ d # <<>> /\ Len(d) = Len(c) + 1 /\ d[Len(c) + 1] = k
        /\ \A i \in 1..Len(c) : d[i] = c[i]
    BY <1>0, AppendProperties
  <2> QED
    BY <2>1, <2>2
<1> HIDE DEF d
<1>3. CountOK(pc, d, drift, a, x, r2, r3, r4)
  <2>1. CASE pc = "summary"
    <3>0. Len(c) \in 0..3
      BY <1>0
    <3>1. CASE Len(c) = 0
      <4>1. Len(d) = 1 /\ d[1] = k
        BY <1>1, <3>1
      <4>2. drift = 0
        BY <2>1, <3>1 DEF CountOK
      <4>3. k = a
        BY <2>1, <3>1 DEF NextCount
      <4> QED
        BY <2>1, <4>1, <4>2, <4>3 DEF CountOK
    <3>2. CASE Len(c) = 1
      <4>1. Len(d) = 2 /\ d[1] = c[1] /\ d[2] = k /\ c[1] \in Nat
        BY <1>1, <3>2
      <4> QED
        BY <1>0, <1>1, <2>1, <3>2, <4>1 DEF CountOK, NextCount, Distance
    <3>3. CASE Len(c) = 2
      <4>1. Len(d) = 3 /\ d[1] = c[1] /\ d[2] = c[2] /\ d[3] = k /\ c[1] \in Nat /\ c[2] \in Nat
        BY <1>1, <3>3
      <4>2. Distance(c[2], r2) <= drift /\ c[2] <= c[1] + drift
        BY <2>1, <3>3 DEF CountOK
      <4>3. r2 = k + r3
        BY <2>1, <3>3 DEF NextCount
      <4> QED
        BY <1>0, <2>1, <4>1, <4>2, <4>3 DEF CountOK
    <3>4. CASE Len(c) = 3
      <4>1. /\ Len(d) = 4 /\ d[1] = c[1] /\ d[2] = c[2] /\ d[3] = c[3] /\ d[4] = k
            /\ c[1] \in Nat /\ c[2] \in Nat /\ c[3] \in Nat
        BY <1>1, <3>4
      <4>2. Distance(c[2], c[3] + r3) <= drift /\ c[2] <= c[1] + drift
        BY <2>1, <3>4 DEF CountOK
      <4>3. r3 = k + r4
        BY <2>1, <3>4 DEF NextCount
      <4>4. Distance(c[2], c[3] + k + r4) <= drift
        <5>1. c[3] + r3 = c[3] + k + r4
          BY <1>0, <4>1, <4>3
        <5> QED
          BY <4>2, <5>1
      <4> QED
        BY <1>0, <2>1, <4>1, <4>2, <4>4 DEF CountOK
    <3> QED
      BY <3>0, <3>1, <3>2, <3>3, <3>4
  <2>2. CASE pc = "list"
    BY <1>0, <1>1, <2>2 DEF CountOK, NextCount, Distance
  <2>3. CASE pc = "listUnread"
    BY <1>0, <1>1, <2>3 DEF CountOK, NextCount, Distance
  <2> QED
    BY <2>1, <2>2, <2>3 DEF ReadingPcs
<1> QED
  BY <1>3 DEF d

LEMMA CountFrame ==
    ASSUME TypeInv, NEW q \in Requests, CountInv(q), req'[q] = req[q],
           NEW S \in SUBSET NoteIds, Changes(S)
    PROVE  CountInv(q)'
<1>0. PICK u : u = req[q].user
  OBVIOUS
<1>1. CountInv(q)' <=>
        CountOK(req[q].pc, req[q].counts, churn'[q], Cardinality(NotesOf(u)'), Cardinality(Unread(u)'),
                Cardinality(Rest(u, 2)'), Cardinality(Rest(u, 3)'), Cardinality(Rest(u, 4)'))
  BY <1>0 DEF CountInv
<1>2. CountOK(req[q].pc, req[q].counts, churn[q], Cardinality(NotesOf(u)), Cardinality(Unread(u)),
              Cardinality(Rest(u, 2)), Cardinality(Rest(u, 3)), Cardinality(Rest(u, 4)))
  BY <1>0 DEF CountInv
<1>3. req[q].counts \in Seq(Nat) /\ churn[q] \in Nat /\ NoteInv
  BY DEF TypeInv, Slots, NoteInv
<1>4. CASE req[q].counts = <<>>
  <2>1. churn'[q] = churn[q]
    BY <1>4 DEF Changes, Churn
  <2>2. Len(req[q].counts) = 0
    BY <1>4
  <2> QED
    BY <1>1, <1>2, <2>1, <2>2 DEF CountOK
<1>5. CASE req[q].counts # <<>>
  <2> DEFINE D == {n \in S : note'[n].user = req[q].user}
  <2>1. D \in SUBSET NoteIds
    OBVIOUS
  <2>2. churn'[q] = churn[q] + Cardinality(D)
    BY <1>5 DEF Changes, Churn
  <2> HIDE DEF D
  <2>3. /\ NotesOf(u) \ D = NotesOf(u)' \ D
        /\ Unread(u) \ D = Unread(u)' \ D
        /\ \A i \in 2..4 : Rest(u, i) \ D = Rest(u, i)' \ D
    <3>1. OfUser(u, S, D)
      BY <1>0 DEF D, OfUser
    <3>2. Agree(u, D)
      BY <1>3, <2>1, <3>1, SetsAgree
    <3> QED
      BY <3>2 DEF Agree
  <2>4. /\ NotesOf(u) \in SUBSET NoteIds /\ Unread(u) \in SUBSET NoteIds
        /\ \A i \in 2..4 : Rest(u, i) \in SUBSET NoteIds
        /\ NotesOf(u)' \in SUBSET NoteIds /\ Unread(u)' \in SUBSET NoteIds
        /\ \A i \in 2..4 : Rest(u, i)' \in SUBSET NoteIds
    BY DEF NotesOf, Unread, Rest
  <2>5. ASSUME NEW A \in SUBSET NoteIds, NEW B \in SUBSET NoteIds, A \ D = B \ D
        PROVE  /\ Cardinality(A) \in Nat /\ Cardinality(B) \in Nat /\ Cardinality(D) \in Nat
               /\ Cardinality(B) <= Cardinality(A) + Cardinality(D)
               /\ Cardinality(A) <= Cardinality(B) + Cardinality(D)
    BY <2>1, <2>5, CountNat, CardDrift
  <2>6. 2 \in 2..4 /\ 3 \in 2..4 /\ 4 \in 2..4
    OBVIOUS
  <2>7. CountOK(req[q].pc, req[q].counts, churn[q] + Cardinality(D),
                Cardinality(NotesOf(u)'), Cardinality(Unread(u)'),
                Cardinality(Rest(u, 2)'), Cardinality(Rest(u, 3)'), Cardinality(Rest(u, 4)'))
    <3>1. /\ Rest(u, 2) \in SUBSET NoteIds /\ Rest(u, 2)' \in SUBSET NoteIds
          /\ Rest(u, 2) \ D = Rest(u, 2)' \ D
          /\ Rest(u, 3) \in SUBSET NoteIds /\ Rest(u, 3)' \in SUBSET NoteIds
          /\ Rest(u, 3) \ D = Rest(u, 3)' \ D
          /\ Rest(u, 4) \in SUBSET NoteIds /\ Rest(u, 4)' \in SUBSET NoteIds
          /\ Rest(u, 4) \ D = Rest(u, 4)' \ D
      BY <2>3, <2>4, <2>6
    <3>2. /\ Cardinality(D) \in Nat
          /\ Cardinality(NotesOf(u)) \in Nat /\ Cardinality(NotesOf(u)') \in Nat
          /\ Cardinality(NotesOf(u)') <= Cardinality(NotesOf(u)) + Cardinality(D)
          /\ Cardinality(NotesOf(u)) <= Cardinality(NotesOf(u)') + Cardinality(D)
      BY <2>3, <2>4, <2>5
    <3>3. /\ Cardinality(Unread(u)) \in Nat /\ Cardinality(Unread(u)') \in Nat
          /\ Cardinality(Unread(u)') <= Cardinality(Unread(u)) + Cardinality(D)
          /\ Cardinality(Unread(u)) <= Cardinality(Unread(u)') + Cardinality(D)
      BY <2>3, <2>4, <2>5
    <3>4. /\ Cardinality(Rest(u, 2)) \in Nat /\ Cardinality(Rest(u, 2)') \in Nat
          /\ Cardinality(Rest(u, 2)') <= Cardinality(Rest(u, 2)) + Cardinality(D)
          /\ Cardinality(Rest(u, 2)) <= Cardinality(Rest(u, 2)') + Cardinality(D)
      BY <2>5, <3>1
    <3>5. /\ Cardinality(Rest(u, 3)) \in Nat /\ Cardinality(Rest(u, 3)') \in Nat
          /\ Cardinality(Rest(u, 3)') <= Cardinality(Rest(u, 3)) + Cardinality(D)
          /\ Cardinality(Rest(u, 3)) <= Cardinality(Rest(u, 3)') + Cardinality(D)
      BY <2>5, <3>1
    <3>6. /\ Cardinality(Rest(u, 4)) \in Nat /\ Cardinality(Rest(u, 4)') \in Nat
          /\ Cardinality(Rest(u, 4)') <= Cardinality(Rest(u, 4)) + Cardinality(D)
          /\ Cardinality(Rest(u, 4)) <= Cardinality(Rest(u, 4)') + Cardinality(D)
      BY <2>5, <3>1
    <3>7. /\ Len(req[q].counts) \in Nat \ {0}
          /\ \A i \in 1..Len(req[q].counts) : req[q].counts[i] \in Nat
      BY <1>3, <1>5, EmptySeq
    <3> QED
      BY <1>2, <1>3, <3>2, <3>3, <3>4, <3>5, <3>6, <3>7, CountDrifts
  <2> QED
    BY <1>1, <2>2, <2>7
<1> QED
  BY <1>4, <1>5

\* A request that is not counting makes a step.
QuietAct(q) ==
    /\ req[q].counts = <<>> /\ req'[q].counts = <<>>
    /\ \A p \in Requests \ {q} : req'[p] = req[p]

LEMMA QuietCounts ==
    ASSUME TypeInv, \A p \in Requests : CountInv(p), NEW q \in Requests, QuietAct(q), Moved
    PROVE  \A p \in Requests : CountInv(p)'
<1>1. PICK S \in SUBSET NoteIds : Changes(S)
  BY DEF Moved
<1>2. ASSUME NEW p \in Requests, p # q
      PROVE  CountInv(p)'
  BY <1>1, <1>2, CountFrame DEF QuietAct
<1>3. churn'[q] = churn[q]
  BY <1>1 DEF Changes, Churn, QuietAct
<1>4. Len(req[q].counts) = 0 /\ Len(req'[q].counts) = 0
  BY DEF QuietAct
<1>5. churn[q] = 0
  BY <1>4 DEF CountInv, CountOK
<1>6. CountInv(q)'
  BY <1>3, <1>4, <1>5 DEF CountInv, CountOK
<1> QED
  BY <1>2, <1>6

LEMMA RestSizes ==
    ASSUME NoteInv, NEW u \in Users
    PROVE  /\ Cardinality(Unread(u)) <= Cardinality(NotesOf(u)) /\ Rest(u, 2) = Unread(u)
           /\ Cardinality(Rest(u, 2)) =
                 Cardinality({n \in Unread(u) : note[n].type = "FriendRequest"})
                    + Cardinality(Rest(u, 3))
           /\ Cardinality(Rest(u, 3)) =
                 Cardinality({n \in Unread(u) : note[n].type = "SystemMessage"})
                    + Cardinality(Rest(u, 4))
<1> DEFINE asked == {n \in Unread(u) : note[n].type = "FriendRequest"}
           system == {n \in Unread(u) : note[n].type = "SystemMessage"}
<1>1. /\ NotesOf(u) \in SUBSET NoteIds /\ Unread(u) \in SUBSET NotesOf(u)
      /\ asked \in SUBSET NoteIds /\ system \in SUBSET NoteIds
      /\ Rest(u, 2) \in SUBSET NoteIds /\ Rest(u, 3) \in SUBSET NoteIds
      /\ Rest(u, 4) \in SUBSET NoteIds
  BY DEF NotesOf, Unread, Rest
<1>2. Cardinality(Unread(u)) <= Cardinality(NotesOf(u))
  BY <1>1, CountNat, FS_Subset
<1>3. Rest(u, 2) = Unread(u)
  BY DEF Rest
<1>4. \A n \in Unread(u) : note[n].type \in Types
  BY DEF NotesOf, Unread, NoteInv
<1>5. Rest(u, 2) = asked \cup Rest(u, 3) /\ asked \cap Rest(u, 3) = {}
  BY <1>3 DEF Rest
<1>6. Rest(u, 3) = system \cup Rest(u, 4) /\ system \cap Rest(u, 4) = {}
  BY <1>4 DEF Rest, Types
<1> HIDE DEF asked, system
<1>7. Cardinality(Rest(u, 2)) = Cardinality(asked) + Cardinality(Rest(u, 3))
  BY <1>1, <1>5, CardSplit
<1>8. Cardinality(Rest(u, 3)) = Cardinality(system) + Cardinality(Rest(u, 4))
  BY <1>1, <1>6, CardSplit
<1> QED
  BY <1>2, <1>3, <1>7, <1>8 DEF asked, system

\* What the next statement returns, were it run now.
CountsTo(q, n, k) == n = Len(req[q].counts) /\ k = Cardinality(Statements(q)[n + 1])

LEMMA StatementSizes ==
    ASSUME TypeInv, NEW q \in Requests, Count(q), NEW u, u = req[q].user,
           NEW n \in Nat, NEW k, CountsTo(q, n, k)
    PROVE  NextCount(req[q].pc, n, k, Cardinality(NotesOf(u)), Cardinality(Unread(u)),
                     Cardinality(Rest(u, 2)), Cardinality(Rest(u, 3)), Cardinality(Rest(u, 4)))
<1>1. req[q].pc \in ReadingPcs /\ n + 1 <= Len(Statements(q))
  BY DEF Count, ReadingPcs, CountsTo
<1>2. u \in Users /\ NoteInv
  BY <1>1 DEF TypeInv, SlotInv, SlotArgs
<1>3. CASE req[q].pc = "summary"
  <2>1. Statements(q) = Summary(u)
    BY <1>3 DEF Statements
  <2>2. Len(Summary(u)) = 4
    BY DEF Summary
  <2>3. n \in 0..3
    <3>1. n + 1 <= 4
      BY <1>1, <2>1, <2>2
    <3> QED
      BY <3>1
  <2>4. CASE n = 0
    <3>1. k = Cardinality(NotesOf(u))
      BY <2>1, <2>4 DEF Summary, CountsTo
    <3> QED
      BY <1>2, <1>3, <2>4, <3>1, UserSets, CountNat DEF NextCount
  <2>5. CASE n = 1
    <3>1. k = Cardinality(Unread(u))
      BY <2>1, <2>5 DEF Summary, CountsTo
    <3> QED
      BY <1>2, <1>3, <2>5, <3>1, UserSets, CountNat DEF NextCount
  <2>6. CASE n = 2
    <3>1. k = Cardinality({m \in Unread(u) : note[m].type = "FriendRequest"})
      BY <2>1, <2>6 DEF Summary, CountsTo
    <3>2. {m \in Unread(u) : note[m].type = "FriendRequest"} \in SUBSET NoteIds
      BY DEF Unread, NotesOf
    <3>3. k \in Nat
      BY <3>1, <3>2, CountNat
    <3>4. Cardinality(Rest(u, 2)) = k + Cardinality(Rest(u, 3))
      BY <1>2, <3>1, RestSizes
    <3> QED
      BY <1>3, <2>6, <3>3, <3>4 DEF NextCount
  <2>7. CASE n = 3
    <3>1. k = Cardinality({m \in Unread(u) : note[m].type = "SystemMessage"})
      BY <2>1, <2>7 DEF Summary, CountsTo
    <3>2. {m \in Unread(u) : note[m].type = "SystemMessage"} \in SUBSET NoteIds
      BY DEF Unread, NotesOf
    <3>3. k \in Nat
      BY <3>1, <3>2, CountNat
    <3>4. Cardinality(Rest(u, 3)) = k + Cardinality(Rest(u, 4))
      BY <1>2, <3>1, RestSizes
    <3> QED
      BY <1>3, <2>7, <3>3, <3>4 DEF NextCount
  <2> QED
    BY <2>3, <2>4, <2>5, <2>6, <2>7
<1>4. CASE req[q].pc # "summary"
  <2>1. PICK rows : rows = IF req[q].pc = "listUnread" THEN Unread(u) ELSE NotesOf(u)
    OBVIOUS
  <2>2. Statements(q) = << rows, Unread(u), rows >>
    BY <1>4, <2>1 DEF Statements, List
  <2>3. n \in 0..2
    <3>1. PICK s : s = << rows, Unread(u), rows >>
      OBVIOUS
    <3>2. Len(s) = 3
      BY <3>1
    <3>3. n + 1 <= 3
      BY <1>1, <2>2, <3>1, <3>2
    <3> QED
      BY <3>3
  <2>4. rows \in SUBSET NoteIds /\ Unread(u) \in SUBSET NoteIds
    BY <2>1, UserSets
  <2>5. CASE n = 0 \/ n = 2
    <3>0. Statements(q)[1] = rows /\ Statements(q)[3] = rows
      BY <2>2
    <3>1. k = Cardinality(rows)
      <4>1. CASE n = 0
        BY <3>0, <4>1 DEF CountsTo
      <4>2. CASE n = 2
        BY <3>0, <4>2 DEF CountsTo
      <4> QED
        BY <2>5, <4>1, <4>2
    <3>2. k \in Nat
      BY <2>4, <3>1, CountNat
    <3>3. /\ req[q].pc = "list" => k = Cardinality(NotesOf(u))
          /\ req[q].pc = "listUnread" => k = Cardinality(Unread(u))
      BY <2>1, <3>1
    <3> QED
      BY <1>4, <2>5, <3>2, <3>3 DEF NextCount
  <2>6. CASE n = 1
    <3>1. k = Cardinality(Unread(u))
      BY <2>2, <2>6 DEF CountsTo
    <3>2. k \in Nat
      BY <2>4, <3>1, CountNat
    <3> QED
      BY <1>4, <2>6, <3>1, <3>2 DEF NextCount
  <2> QED
    BY <2>3, <2>5, <2>6
<1> QED
  BY <1>3, <1>4

LEMMA CountStatement ==
    ASSUME TypeInv, NEW q \in Requests, CountInv(q), Count(q)
    PROVE  CountInv(q)'
<1>1. PICK u : u = req[q].user
  OBVIOUS
<1>2. PICK c : c = req[q].counts
  OBVIOUS
<1>3. PICK pc : pc = req[q].pc
  OBVIOUS
<1>4. pc \in ReadingPcs /\ u \in Users /\ c \in Seq(Nat) /\ churn[q] \in Nat /\ NoteInv
  BY <1>1, <1>2, <1>3 DEF TypeInv, SlotInv, SlotArgs, Slots, NoteInv, Count, ReadingPcs
<1>5. PICK n \in Nat : n = Len(c)
  BY <1>4
<1>6. PICK k : CountsTo(q, n, k)
  BY <1>2, <1>5 DEF CountsTo
<1>7. /\ req'[q].counts = Append(c, k) /\ req'[q].pc = pc /\ req'[q].user = u
      /\ UNCHANGED <<note, churn>>
  BY <1>1, <1>2, <1>3, <1>5, <1>6 DEF Count, TypeInv, Slots, CountsTo
<1>8. CountOK(pc, c, churn[q], Cardinality(NotesOf(u)), Cardinality(Unread(u)),
              Cardinality(Rest(u, 2)), Cardinality(Rest(u, 3)), Cardinality(Rest(u, 4)))
  BY <1>1, <1>2, <1>3 DEF CountInv
<1>9. /\ Cardinality(NotesOf(u)) \in Nat /\ Cardinality(Unread(u)) \in Nat
      /\ Cardinality(Rest(u, 2)) \in Nat /\ Cardinality(Rest(u, 3)) \in Nat
      /\ Cardinality(Rest(u, 4)) \in Nat
  <2>1. /\ NotesOf(u) \in SUBSET NoteIds /\ Unread(u) \in SUBSET NoteIds
        /\ Rest(u, 2) \in SUBSET NoteIds /\ Rest(u, 3) \in SUBSET NoteIds
        /\ Rest(u, 4) \in SUBSET NoteIds
    BY DEF NotesOf, Unread, Rest
  <2> QED
    BY <2>1, CountNat
<1>10. /\ Cardinality(Unread(u)) <= Cardinality(NotesOf(u))
       /\ Cardinality(Rest(u, 2)) = Cardinality(Unread(u))
  BY <1>4, RestSizes
<1>11. NextCount(pc, n, k, Cardinality(NotesOf(u)), Cardinality(Unread(u)),
                 Cardinality(Rest(u, 2)), Cardinality(Rest(u, 3)), Cardinality(Rest(u, 4)))
  BY <1>1, <1>3, <1>6, StatementSizes
<1>12. CountOK(pc, Append(c, k), churn[q], Cardinality(NotesOf(u)), Cardinality(Unread(u)),
              Cardinality(Rest(u, 2)), Cardinality(Rest(u, 3)), Cardinality(Rest(u, 4)))
  BY <1>4, <1>5, <1>8, <1>9, <1>10, <1>11, CountNext
<1> QED
  BY <1>7, <1>12 DEF CountInv, NotesOf, Unread, Rest

LEMMA RespondCounts ==
    ASSUME TypeInv, \A p \in Requests : CountInv(p), NEW q \in Requests, Respond(q)
    PROVE  \A p \in Requests : CountInv(p)'
<1>1. /\ req'[q].counts = <<>> /\ churn'[q] = 0
      /\ \A p \in Requests \ {q} : req'[p] = req[p] /\ churn'[p] = churn[p]
  BY ReturnSlot DEF Respond, TypeInv, NoteInv
<1>2. CountInv(q)'
  <2>1. Len(req'[q].counts) = 0 /\ req'[q].pc = "idle"
    BY <1>1, ReturnSlot DEF Respond, TypeInv
  <2> QED
    BY <1>1, <2>1 DEF CountInv, CountOK
<1>3. ASSUME NEW p \in Requests, p # q
      PROVE  CountInv(p)'
  <2>1. CountInv(p) /\ req'[p] = req[p] /\ churn'[p] = churn[p] /\ UNCHANGED note
    BY <1>1, <1>3 DEF Respond
  <2> QED
    BY <2>1 DEF CountInv, NotesOf, Unread, Rest
<1> QED
  BY <1>2, <1>3

LEMMA ReturnQuiet ==
    ASSUME TypeInv, NEW q \in Requests, req[q].pc \notin ReadingPcs, Return(q)
    PROVE  QuietAct(q)
BY ReturnSlot DEF TypeInv, SlotInv, SlotArgs, QuietAct

LEMMA SendInsertQuiet ==
    ASSUME TypeInv, NEW q \in Requests, SendInsert(q)
    PROVE  QuietAct(q) /\ Moved
<1>1. req[q].pc \notin ReadingPcs /\ NoteInv /\ req \in [Requests -> Slots]
  BY DEF SendInsert, ReadingPcs, TypeInv
<1>2. Moved
  BY <1>1, NoChanges DEF SendInsert
<1>3. CASE Return(q)
  BY <1>1, <1>2, <1>3, ReturnQuiet
<1>4. ASSUME NEW f, Inserted(q, f)
      PROVE  QuietAct(q)
  BY <1>1, <1>4, InsertedSlot DEF QuietAct, TypeInv, SlotInv, SlotArgs
<1> QED
  BY <1>2, <1>3, <1>4, InsertCases

LEMMA NotifyQuiet ==
    ASSUME TypeInv, NEW q \in Requests, SendNotify(q) \/ AnswerNotify(q)
    PROVE  QuietAct(q) /\ Moved
<1>1. req[q].pc \notin ReadingPcs /\ NoteInv /\ Return(q)
  BY DEF SendNotify, AnswerNotify, ReadingPcs, TypeInv
<1>2. CASE SendNotify(q)
  BY <1>1, <1>2, InsertChanges, ReturnQuiet DEF SendNotify
<1>3. CASE AnswerNotify(q)
  BY <1>1, <1>3, InsertChanges, ReturnQuiet DEF AnswerNotify
<1> QED
  BY <1>2, <1>3

LEMMA BefriendingQuiet ==
    ASSUME TypeInv, NEW q \in Requests, Befriending(q)
    PROVE  QuietAct(q) /\ Moved
<1>0. NoteInv /\ req \in [Requests -> Slots] /\ SlotArgs(q)
  BY DEF TypeInv, SlotInv
<1>1. CASE \/ \E u, v \in Users : SendCheck(q, u, v)
           \/ \E u \in Users, f \in FriendIds, answer \in Answers : AnswerFind(q, u, f, answer)
           \/ \E u \in Users, f \in FriendIds : RemoveFind(q, u, f)
  <2>1. Moved
    BY <1>0, <1>1, NoChanges DEF SendCheck, AnswerFind, RemoveFind
  <2>2. req[q].pc = "idle"
    BY <1>1 DEF SendCheck, AnswerFind, RemoveFind
  <2>3. req'[q].counts = req[q].counts /\ \A p \in Requests \ {q} : req'[p] = req[p]
    <3>1. ASSUME NEW u \in Users, NEW v \in Users, SendCheck(q, u, v)
          PROVE  req'[q].counts = req[q].counts /\ \A p \in Requests \ {q} : req'[p] = req[p]
      BY <1>0, <3>1 DEF SendCheck, Slots
    <3>2. ASSUME NEW u \in Users, NEW f \in FriendIds, NEW answer, AnswerFind(q, u, f, answer)
          PROVE  req'[q].counts = req[q].counts /\ \A p \in Requests \ {q} : req'[p] = req[p]
      BY <1>0, <3>2 DEF AnswerFind, Slots
    <3>3. ASSUME NEW u \in Users, NEW f \in FriendIds, RemoveFind(q, u, f)
          PROVE  req'[q].counts = req[q].counts /\ \A p \in Requests \ {q} : req'[p] = req[p]
      BY <1>0, <3>3 DEF RemoveFind, Slots
    <3> QED
      BY <1>1, <3>1, <3>2, <3>3
  <2> QED
    BY <1>0, <2>1, <2>2, <2>3 DEF QuietAct, SlotArgs, ReadingPcs
<1>2. CASE AnswerUpdate(q)
  <2>1. Moved /\ req[q].pc \in Answers /\ req[q].pc \notin ReadingPcs
    BY <1>0, <1>2, NoChanges DEF AnswerUpdate, Answers, ReadingPcs
  <2>2. CASE Return(q)
    BY <2>1, <2>2, ReturnQuiet
  <2>3. CASE Goto(q, "tellRequester")
    <3>1. req'[q].counts = req[q].counts /\ \A p \in Requests \ {q} : req'[p] = req[p]
      BY <1>0, <2>3 DEF Goto, Slots
    <3> QED
      BY <1>0, <2>1, <3>1 DEF QuietAct, SlotArgs
  <2> QED
    BY <1>2, <2>2, <2>3 DEF AnswerUpdate
<1>3. CASE RemoveDelete(q) \/ Abort(q)
  <2>1. Moved /\ req[q].pc \notin ReadingPcs /\ Return(q)
    BY <1>0, <1>3, NoChanges DEF RemoveDelete, Abort, ReadingPcs
  <2> QED
    BY <2>1, ReturnQuiet
<1> QED
  BY <1>1, <1>2, <1>3, SendInsertQuiet, NotifyQuiet DEF Befriending, Answers

LEMMA MarkingQuiet ==
    ASSUME TypeInv, NEW q \in Requests, Marking(q)
    PROVE  QuietAct(q) /\ Moved
<1>0. NoteInv /\ req \in [Requests -> Slots] /\ SlotArgs(q) /\ SlotNotes(q)
  BY DEF TypeInv, SlotInv
<1>1. req[q].pc \notin ReadingPcs /\ req[q].counts = <<>>
  BY <1>0 DEF Marking, MarkSelect, DeleteFind, MarkUpdate, MarkDone, DeleteRow, ReadingPcs, SlotArgs
<1>2. CASE \/ \E u \in Users, S \in SUBSET NoteIds : MarkSelect(q, u, S)
           \/ \E u \in Users, n \in NoteIds : DeleteFind(q, u, n)
  <2>1. Moved
    BY <1>0, <1>2, NoChanges DEF MarkSelect, DeleteFind
  <2>2. req'[q].counts = req[q].counts /\ \A p \in Requests \ {q} : req'[p] = req[p]
    <3>1. ASSUME NEW u \in Users, NEW S \in SUBSET NoteIds, MarkSelect(q, u, S)
          PROVE  req'[q].counts = req[q].counts /\ \A p \in Requests \ {q} : req'[p] = req[p]
      BY <1>0, <3>1 DEF MarkSelect, Slots
    <3>2. ASSUME NEW u \in Users, NEW n \in NoteIds, DeleteFind(q, u, n)
          PROVE  req'[q].counts = req[q].counts /\ \A p \in Requests \ {q} : req'[p] = req[p]
      BY <1>0, <3>2 DEF DeleteFind, Slots
    <3> QED
      BY <1>2, <3>1, <3>2
  <2> QED
    BY <1>1, <2>1, <2>2 DEF QuietAct
<1>3. ASSUME NEW n \in NoteIds, MarkUpdate(q, n)
      PROVE  QuietAct(q) /\ Moved
  <2>1. CASE SetNotes({n}, "read")
    <3>1. CASE Return(q)
      BY <1>0, <1>1, <2>1, <3>1, SetChanges, ReturnQuiet
    <3>2. CASE ~Return(q)
      <4>1. req' = [req EXCEPT ![q].todo = @ \ {n}]
        BY <1>3, <3>2 DEF MarkUpdate
      <4>2. req'[q].counts = req[q].counts /\ \A p \in Requests \ {q} : req'[p] = req[p]
        BY <1>0, <4>1 DEF Slots
      <4> QED
        BY <1>0, <1>1, <2>1, <4>2, SetChanges DEF QuietAct
    <3> QED
      BY <3>1, <3>2
  <2>2. CASE Return(q) /\ UNCHANGED <<note, churn>>
    BY <1>0, <1>1, <2>2, NoChanges, ReturnQuiet
  <2> QED
    BY <1>3, <2>1, <2>2 DEF MarkUpdate
<1>4. CASE MarkDone(q)
  BY <1>0, <1>1, <1>4, NoChanges, ReturnQuiet DEF MarkDone
<1>5. CASE DeleteRow(q)
  <2>1. Return(q) /\ req[q].row \in NoteIds
    BY <1>0, <1>5 DEF DeleteRow, SlotNotes
  <2>2. CASE UNCHANGED <<note, churn>>
    BY <1>0, <1>1, <2>1, <2>2, NoChanges, ReturnQuiet
  <2>3. CASE SetNotes({req[q].row}, "deleted")
    BY <1>0, <1>1, <2>1, <2>3, SetChanges, ReturnQuiet
  <2> QED
    BY <1>5, <2>2, <2>3 DEF DeleteRow
<1> QED
  BY <1>2, <1>3, <1>4, <1>5 DEF Marking

LEMMA AtOnceMoves ==
    ASSUME NoteInv, AtOnce
    PROVE  Moved /\ UNCHANGED req
<1>1. ASSUME NEW u \in Users, MarkAll(u)
      PROVE  Moved /\ UNCHANGED req
  <2>1. Unread(u) \in SUBSET NoteIds
    BY UserSets
  <2> QED
    BY <1>1, <2>1, SetChanges DEF MarkAll
<1>2. ASSUME NEW u \in Users, ModeratorNotice(u)
      PROVE  Moved /\ UNCHANGED req
  BY <1>2, InsertChanges DEF ModeratorNotice
<1>3. ASSUME NEW u \in Users, NEW type, CreateNotification(u, type)
      PROVE  Moved /\ UNCHANGED req
  BY <1>3, InsertChanges DEF CreateNotification
<1>4. ASSUME NEW S \in SUBSET NoteIds, CleanupNotifications(S)
      PROVE  Moved /\ UNCHANGED req
  BY <1>4, SetChanges DEF CleanupNotifications
<1> QED
  BY <1>1, <1>2, <1>3, <1>4 DEF AtOnce

LEMMA MovedCounts ==
    ASSUME TypeInv, \A p \in Requests : CountInv(p), Moved, UNCHANGED req
    PROVE  \A p \in Requests : CountInv(p)'
<1>1. PICK S \in SUBSET NoteIds : Changes(S)
  BY DEF Moved
<1> QED
  BY <1>1, CountFrame

LEMMA CountsStep ==
    ASSUME TypeInv, \A p \in Requests : CountInv(p), [SocialNext]_socialVars
    PROVE  \A p \in Requests : CountInv(p)'
<1>0. NoteInv /\ req \in [Requests -> Slots] /\ \A q \in Requests : SlotArgs(q)
  BY DEF TypeInv, SlotInv
<1>1. CASE UNCHANGED socialVars
  <2>1. UNCHANGED <<note, churn>> /\ UNCHANGED req
    BY <1>1 DEF socialVars, notesVars
  <2> QED
    BY <1>0, <2>1, NoChanges, MovedCounts
<1>2. CASE AtOnce
  BY <1>0, <1>2, AtOnceMoves, MovedCounts
<1>3. ASSUME NEW q \in Requests, Befriending(q) \/ Marking(q)
      PROVE  \A p \in Requests : CountInv(p)'
  BY <1>3, BefriendingQuiet, MarkingQuiet, QuietCounts
<1>4. ASSUME NEW q \in Requests, NEW u \in Users, NEW what, StartReading(q, u, what)
      PROVE  \A p \in Requests : CountInv(p)'
  <2>1. req[q].counts = <<>> /\ UNCHANGED <<note, churn>>
    BY <1>0, <1>4 DEF StartReading, SlotArgs, ReadingPcs
  <2>2. req'[q].counts = req[q].counts /\ \A p \in Requests \ {q} : req'[p] = req[p]
    BY <1>0, <1>4 DEF StartReading, Slots
  <2>3. QuietAct(q) /\ Moved
    BY <1>0, <2>1, <2>2, NoChanges DEF QuietAct
  <2> QED
    BY <2>3, QuietCounts
<1>5. ASSUME NEW q \in Requests, Count(q)
      PROVE  \A p \in Requests : CountInv(p)'
  <2>1. CountInv(q)'
    BY <1>5, CountStatement
  <2>2. ASSUME NEW p \in Requests, p # q
        PROVE  CountInv(p)'
    <3>1. CountInv(p) /\ req'[p] = req[p] /\ UNCHANGED <<note, churn>>
      BY <1>0, <1>5, <2>2 DEF Count
    <3> QED
      BY <3>1 DEF CountInv, NotesOf, Unread, Rest
  <2> QED
    BY <2>1, <2>2
<1>6. ASSUME NEW q \in Requests, Respond(q)
      PROVE  \A p \in Requests : CountInv(p)'
  BY <1>6, RespondCounts
<1> QED
  BY <1>1, <1>2, <1>3, <1>4, <1>5, <1>6 DEF SocialNext, Reading

-----------------------------------------------------------------------------
(* The life of a row of either table.                                      *)

NoteMove(n) ==
    note'[n].state # note[n].state =>
          \/ note[n].state = "none" /\ note'[n].state = "unread"
          \/ note[n].state = "unread" /\ note'[n].state = "read" /\ n \in marked'
          \/ note[n].state = "read" /\ note'[n].state = "deleted"
          \/ /\ note[n].state = "unread" /\ note'[n].state = "deleted"
             /\ n \notin marked
             /\ \E q \in Requests : /\ req[q].pc = "deleteNote" /\ req[q].row = n
                                    /\ req[q].user = note[n].user

LEMMA InsertMoves ==
    ASSUME NoteInv, NEW u, NEW type, NEW about, InsertNote(u, type, about)
    PROVE  \A n \in NoteIds : NoteMove(n)
<1> DEFINE new == [state |-> "unread", user |-> u, type |-> type, about |-> about]
<1>1. PICK n \in NoteIds : note[n].state = "none" /\ Churn({n}) /\ note' = [note EXCEPT ![n] = new]
  BY InsertEffect
<1>2. new.state = "unread"
  OBVIOUS
<1> HIDE DEF new
<1>3. note'[n] = new /\ \A m \in NoteIds \ {n} : note'[m] = note[m]
  BY <1>1 DEF NoteInv
<1> QED
  BY <1>1, <1>2, <1>3 DEF NoteMove

LEMMA SetStates ==
    ASSUME NoteInv, NEW S \in SUBSET NoteIds, NEW state, SetNotes(S, state)
    PROVE  \A n \in NoteIds : note'[n].state = IF n \in S THEN state ELSE note[n].state
<1>1. \A n \in NoteIds : note'[n] = IF n \in S THEN [note[n] EXCEPT !.state = state] ELSE note[n]
  BY DEF SetNotes
<1> QED
  BY <1>1 DEF NoteInv, Notes

LEMMA MarkingMoves ==
    ASSUME TypeInv, NEW q \in Requests, Marking(q)
    PROVE  \A n \in NoteIds : NoteMove(n)
<1>0. /\ NoteInv /\ SlotNotes(q) /\ req[q].todo \subseteq NoteIds
      /\ \A n \in NoteIds : note[n].state \in NoteStates
  BY DEF TypeInv, SlotInv, Slots, NoteInv, Notes
<1>1. CASE UNCHANGED note
  BY <1>1 DEF NoteMove
<1>2. ASSUME NEW n \in NoteIds, MarkUpdate(q, n), note' # note
      PROVE  \A m \in NoteIds : NoteMove(m)
  <2>1. /\ n \in req[q].todo /\ note[n].state # "deleted" /\ SetNotes({n}, "read")
        /\ n \in marked'
    BY <1>2 DEF MarkUpdate
  <2>2. note[n].state \in {"unread", "read"}
    BY <1>0, <2>1 DEF SlotNotes, NoteStates
  <2>3. \A m \in NoteIds : note'[m].state = IF m \in {n} THEN "read" ELSE note[m].state
    BY <1>0, <2>1, SetStates
  <2> QED
    BY <2>1, <2>2, <2>3 DEF NoteMove
<1>3. ASSUME DeleteRow(q), note' # note
      PROVE  \A m \in NoteIds : NoteMove(m)
  <2>1. PICK n : n = req[q].row
    OBVIOUS
  <2>2. /\ req[q].pc = "deleteNote" /\ SetNotes({n}, "deleted") /\ note[n].state # "deleted"
        /\ n \in NoteIds /\ note[n].state # "none" /\ note[n].user = req[q].user
    BY <1>0, <1>3, <2>1 DEF DeleteRow, SlotNotes
  <2>3. note[n].state \in {"unread", "read"} /\ (note[n].state = "unread" => n \notin marked)
    BY <1>0, <2>2 DEF NoteStates, NoteInv
  <2>4. \A m \in NoteIds : note'[m].state = IF m \in {n} THEN "deleted" ELSE note[m].state
    BY <1>0, <2>2, SetStates
  <2> QED
    BY <2>1, <2>2, <2>3, <2>4 DEF NoteMove
<1> QED
  BY <1>1, <1>2, <1>3 DEF Marking, MarkSelect, DeleteFind, MarkDone

LEMMA AtOnceMoveNotes ==
    ASSUME NoteInv, AtOnce
    PROVE  \A n \in NoteIds : NoteMove(n)
<1>1. ASSUME NEW u \in Users, MarkAll(u)
      PROVE  \A n \in NoteIds : NoteMove(n)
  <2>1. PICK S \in SUBSET NoteIds : S = Unread(u)
    BY UserSets
  <2>2. \A n \in S : note[n].state = "unread" /\ n \in marked'
    BY <1>1, <2>1 DEF MarkAll, Unread
  <2>3. \A m \in NoteIds : note'[m].state = IF m \in S THEN "read" ELSE note[m].state
    BY <1>1, <2>1, SetStates DEF MarkAll
  <2> QED
    BY <2>2, <2>3 DEF NoteMove
<1>2. ASSUME NEW u \in Users, ModeratorNotice(u)
      PROVE  \A n \in NoteIds : NoteMove(n)
  BY <1>2, InsertMoves DEF ModeratorNotice
<1>3. ASSUME NEW u \in Users, NEW type, CreateNotification(u, type)
      PROVE  \A n \in NoteIds : NoteMove(n)
  BY <1>3, InsertMoves DEF CreateNotification
<1>4. ASSUME NEW S \in SUBSET NoteIds, CleanupNotifications(S)
      PROVE  \A n \in NoteIds : NoteMove(n)
  <2>1. \A n \in S : note[n].state = "read"
    BY <1>4 DEF CleanupNotifications
  <2>2. \A m \in NoteIds : note'[m].state = IF m \in S THEN "deleted" ELSE note[m].state
    BY <1>4, SetStates DEF CleanupNotifications
  <2> QED
    BY <2>1, <2>2 DEF NoteMove
<1> QED
  BY <1>1, <1>2, <1>3, <1>4 DEF AtOnce

LEMMA NotesMove ==
    ASSUME TypeInv, [SocialNext]_socialVars
    PROVE  \A n \in NoteIds : NoteMove(n)
<1>0. NoteInv
  BY DEF TypeInv
<1>1. CASE UNCHANGED note
  BY <1>1 DEF NoteMove
<1>2. ASSUME NEW q \in Requests, SendNotify(q) \/ AnswerNotify(q)
      PROVE  \A n \in NoteIds : NoteMove(n)
  <2>1. CASE SendNotify(q)
    BY <1>0, <2>1, InsertMoves DEF SendNotify
  <2>2. CASE AnswerNotify(q)
    <3>1. PICK u, f : InsertNote(u, "FriendRequest", f)
      BY <2>2 DEF AnswerNotify
    <3> QED
      BY <1>0, <3>1, InsertMoves
  <2> QED
    BY <1>2, <2>1, <2>2
<1>3. ASSUME NEW q \in Requests, Reading(q) \/ (Befriending(q) /\ ~SendNotify(q) /\ ~AnswerNotify(q))
      PROVE  UNCHANGED note
  BY <1>3 DEF Reading, StartReading, Count, Respond, Befriending, SendCheck, AnswerFind,
     RemoveFind, SendInsert, AnswerUpdate, RemoveDelete, Abort
<1> QED
  BY <1>0, <1>1, <1>2, <1>3, MarkingMoves, AtOnceMoveNotes
  DEF SocialNext, socialVars, notesVars

FriendMove(f) ==
    LET old == friendship[f].status
        new == friendship'[f].status
        answered == {"Accepted", "Declined"}
    IN new # old =>
          \/ old = "none" /\ new = "Pending"
          \/ old = "Pending" /\ new \in answered
          \/ old \notin {"none", "removed"} /\ new = "removed"
          \/ /\ old \in answered /\ new \in answered
             /\ \E q \in Requests : req[q].pc = new /\ req[q].row = f
                                      /\ f \in late[q]

LEMMA FriendsMove ==
    ASSUME TypeInv, ReadsInv, [SocialNext]_socialVars
    PROVE  \A f \in FriendIds : FriendMove(f)
<1>0. FriendInv /\ \A q \in Requests : SlotInv(q) /\ AnswerRead(q)
  BY DEF TypeInv, ReadsInv
<1>1. CASE UNCHANGED friendship
  BY <1>1 DEF FriendMove
<1>2. ASSUME NEW q \in Requests, SendInsert(q), friendship' # friendship
      PROVE  \A f \in FriendIds : FriendMove(f)
  <2>1. req[q].user \in Users /\ req[q].other \in Users
    BY <1>0, <1>2 DEF SendInsert, SlotInv, SlotArgs
  <2>2. PICK f : Inserted(q, f)
    BY <1>2, InsertCases DEF friendVars
  <2>3. /\ friendship[f].status = "none" /\ friendship'[f].status = "Pending"
        /\ \A g \in FriendIds \ {f} : friendship'[g] = friendship[g]
    BY <1>0, <2>1, <2>2, RowKeeps DEF Inserted, AddRow, FreshRows
  <2> QED
    BY <2>3 DEF FriendMove
<1>3. ASSUME NEW q \in Requests, AnswerUpdate(q), friendship' # friendship
      PROVE  \A f \in FriendIds : FriendMove(f)
  <2>1. PICK f : f = req[q].row
    OBVIOUS
  <2>2. PICK answer : answer = req[q].pc
    OBVIOUS
  <2>3. /\ f \in Live /\ f \in FriendIds /\ answer \in Answers
        /\ friendship' = [friendship EXCEPT ![f].status = answer]
    BY <1>3, <2>1, <2>2 DEF AnswerUpdate, Live, Answers
  <2>4. friendship[f].status = "Pending" \/ f \in late[q]
    BY <1>0, <2>1, <2>2, <2>3 DEF AnswerRead, Live
  <2>5. friendship[f].status \in {"Pending", "Accepted", "Declined"}
    BY <1>0, <2>3 DEF FriendInv, Friendships, FriendStates, Live
  <2>6. /\ friendship'[f].status = answer
        /\ \A g \in FriendIds \ {f} : friendship'[g] = friendship[g]
    BY <1>0, <2>3, <2>5, StatusKeeps DEF Answers
  <2> QED
    BY <2>1, <2>2, <2>3, <2>4, <2>5, <2>6 DEF FriendMove, Answers
<1>4. ASSUME NEW q \in Requests, RemoveDelete(q)
      PROVE  \A f \in FriendIds : FriendMove(f)
  <2>1. PICK f : f = req[q].row
    OBVIOUS
  <2>2. /\ f \in FriendIds /\ friendship[f].status # "none"
        /\ friendship' = [friendship EXCEPT ![f].status = "removed"]
    BY <1>0, <1>4, <2>1 DEF RemoveDelete, SlotInv, SlotFriends
  <2>3. /\ friendship'[f].status = "removed"
        /\ \A g \in FriendIds \ {f} : friendship'[g] = friendship[g]
    BY <1>0, <2>2, StatusKeeps
  <2> QED
    BY <2>2, <2>3 DEF FriendMove
<1>5. ASSUME NEW q \in Requests, Befriending(q), ~SendInsert(q), ~AnswerUpdate(q), ~RemoveDelete(q)
      PROVE  UNCHANGED friendship
  BY <1>5 DEF Befriending, SendCheck, AnswerFind, RemoveFind, SendNotify, AnswerNotify, Abort,
     friendVars
<1> QED
  BY <1>1, <1>2, <1>3, <1>4, <1>5 DEF SocialNext, socialVars, friendVars

-----------------------------------------------------------------------------
(* What the invariant means for the properties.                            *)

LEMMA TypesImply == TypeInv => SocialTypeOK
<1> SUFFICES ASSUME TypeInv
             PROVE  SocialTypeOK
  OBVIOUS
<1>0. NoteInv /\ FriendInv /\ req \in [Requests -> Slots] /\ \A q \in Requests : SlotNotes(q)
  BY DEF TypeInv, SlotInv
<1>1. \A n \in NoteIds :
          /\ note[n].state \in {"none", "unread", "read", "deleted"}
          /\ note[n].state # "none" => note[n].user \in Users /\ note[n].type \in Types
  BY <1>0 DEF NoteInv, Notes, NoteStates
<1>2. NotesTypeOK
  BY <1>0, <1>1 DEF NotesTypeOK, NoteInv, SlotNotes
<1>3. \A f \in FriendIds :
          /\ friendship[f].status \in {"none", "Pending", "Accepted", "Declined", "removed"}
          /\ friendship[f].status # "none" => Pair(f) \subseteq Users
  BY <1>0 DEF FriendInv, Friendships, FriendStates, Pair
<1>4. \A n \in NoteIds : note[n].about # None => note[n].user \in Pair(note[n].about)
  BY <1>0 DEF NoteInv, AboutOK
<1>5. ASSUME NEW u \in Users, NEW v \in Users
      PROVE  Cardinality(Directed(u, v)) <= 1
  <2>1. CASE Directed(u, v) = {}
    BY <2>1, FS_EmptySet
  <2>2. ASSUME NEW f \in Directed(u, v)
        PROVE  Cardinality(Directed(u, v)) <= 1
    <3>1. Directed(u, v) = {f}
      BY <1>0, <2>2 DEF Directed, FriendInv
    <3>2. Cardinality({f}) = 1
      BY FS_Singleton
    <3> QED
      BY <3>1, <3>2
  <2> QED
    BY <2>1, <2>2
<1> QED
  BY <1>2, <1>3, <1>4, <1>5 DEF SocialTypeOK

\* What both lists say of a row.
LEMMA ListedRows ==
    ASSUME NEW u \in Users, NEW x \in FriendsOf(u) \cup PendingFor(u)
    PROVE  x.row \in Live /\ Pair(x.row) = {u, x.friend}
<1>1. CASE x \in FriendsOf(u)
  <2>1. PICK f \in Live :
            /\ u \in Pair(f)
            /\ x = [row |-> f, friend |-> IF friendship[f].from = u THEN friendship[f].to
                                                                  ELSE friendship[f].from]
    BY <1>1 DEF FriendsOf
  <2>2. x.row = f /\ x.friend = IF friendship[f].from = u THEN friendship[f].to
                                                        ELSE friendship[f].from
    BY <2>1
  <2> QED
    BY <2>1, <2>2 DEF Pair
<1>2. CASE x \in PendingFor(u)
  <2>1. PICK f \in Live : friendship[f].to = u /\ x = [row |-> f, friend |-> friendship[f].from]
    BY <1>2 DEF PendingFor
  <2> QED
    BY <2>1 DEF Pair
<1> QED
  BY <1>1, <1>2

LEMMA ExportsFriends ==
    ASSUME FriendInv, NEW u \in Users
    PROVE  FriendExport(u) = {x.friend : x \in FriendsOf(u)}
<1>1. ASSUME NEW v \in FriendExport(u)
      PROVE  \E x \in FriendsOf(u) : v = x.friend
  <2>1. PICK f \in Live : /\ friendship[f].status = "Accepted"
                          /\ \/ friendship[f].from = u /\ friendship[f].to = v
                             \/ friendship[f].from = v /\ friendship[f].to = u
    BY <1>1 DEF FriendExport, Directed
  <2>2. PICK w : w = IF friendship[f].from = u THEN friendship[f].to ELSE friendship[f].from
    OBVIOUS
  <2>3. w = v
    BY <2>1, <2>2
  <2>4. [row |-> f, friend |-> w] \in FriendsOf(u)
    BY <2>1, <2>2 DEF FriendsOf, Pair
  <2> QED
    BY <2>3, <2>4
<1>2. ASSUME NEW x \in FriendsOf(u)
      PROVE  x.friend \in FriendExport(u)
  <2>1. PICK f \in Live :
            /\ friendship[f].status = "Accepted" /\ u \in Pair(f)
            /\ x = [row |-> f, friend |-> IF friendship[f].from = u THEN friendship[f].to
                                                                  ELSE friendship[f].from]
    BY <1>2 DEF FriendsOf
  <2>2. x.friend = IF friendship[f].from = u THEN friendship[f].to ELSE friendship[f].from
    BY <2>1
  <2>3. friendship[f].from \in Users /\ friendship[f].to \in Users
    BY DEF FriendInv, Live
  <2>4. f \in Directed(u, x.friend) \cup Directed(x.friend, u)
    BY <2>1, <2>2 DEF Directed, Pair
  <2> QED
    BY <2>1, <2>2, <2>3, <2>4 DEF FriendExport
<1>3. FriendExport(u) \subseteq {x.friend : x \in FriendsOf(u)}
  BY <1>1
<1>4. {x.friend : x \in FriendsOf(u)} \subseteq FriendExport(u)
  BY <1>2
<1> QED
  BY <1>3, <1>4

LEMMA ListImplies == TypeInv /\ PairsOnce => ListedOnce
<1> SUFFICES ASSUME TypeInv, PairsOnce, NEW u \in Users
             PROVE  /\ \A x, y \in FriendsOf(u) \cup PendingFor(u) :
                          x.friend = y.friend => \/ x.row = y.row
                                                 \/ {x.row, y.row} \cap crossed # {}
                    /\ FriendExport(u) = {x.friend : x \in FriendsOf(u)}
  BY DEF ListedOnce
<1>1. ASSUME NEW x \in FriendsOf(u) \cup PendingFor(u), NEW y \in FriendsOf(u) \cup PendingFor(u),
             x.friend = y.friend
      PROVE  x.row = y.row \/ {x.row, y.row} \cap crossed # {}
  <2>1. /\ x.row \in Live /\ Pair(x.row) = {u, x.friend}
        /\ y.row \in Live /\ Pair(y.row) = {u, y.friend}
    BY ListedRows
  <2> QED
    BY <1>1, <2>1 DEF PairsOnce
<1>2. FriendExport(u) = {x.friend : x \in FriendsOf(u)}
  BY ExportsFriends DEF TypeInv
<1> QED
  BY <1>1, <1>2

LEMMA CountsImply == TypeInv /\ (\A q \in Requests : CountInv(q)) => CountsDrift
<1> SUFFICES ASSUME TypeInv, NEW q \in Requests, CountInv(q), NEW c, c = req[q].counts
             PROVE  /\ req[q].pc = "summary" /\ Len(c) = 4 =>
                       /\ Distance(c[2], c[3] + c[4] + Cardinality(Notices(req[q].user)))
                              <= churn[q]
                       /\ c[2] <= c[1] + churn[q]
                    /\ req[q].pc = "list" /\ Len(c) = 3 =>
                       Distance(c[1], c[3]) <= churn[q] /\ c[2] <= c[1] + churn[q]
                    /\ req[q].pc = "listUnread" /\ Len(c) = 3 =>
                       Distance(c[1], c[3]) <= churn[q] /\ Distance(c[1], c[2]) <= churn[q]
  BY DEF CountsDrift
<1>1. Rest(req[q].user, 4) = Notices(req[q].user)
  BY DEF Rest, Notices
<1>2. CountOK(req[q].pc, c, churn[q], Cardinality(NotesOf(req[q].user)),
              Cardinality(Unread(req[q].user)), Cardinality(Rest(req[q].user, 2)),
              Cardinality(Rest(req[q].user, 3)), Cardinality(Notices(req[q].user)))
  BY <1>1 DEF CountInv
<1> QED
  BY <1>2 DEF CountOK

-----------------------------------------------------------------------------
(* The theorems.                                                           *)

LEMMA InitInvariant == SocialInit => IInv
<1> SUFFICES ASSUME SocialInit
             PROVE  PartnersAreTold /\ ReadsInv /\ PairsOnce /\ \A q \in Requests : CountInv(q)
  BY InitTypes DEF IInv
<1>1. Live = {} /\ late \in [Requests -> SUBSET FriendIds]
  BY DEF SocialInit, Live
<1>2. ASSUME NEW q \in Requests
      PROVE  req[q].pc = "idle" /\ req[q].counts = <<>> /\ churn[q] = 0
  BY <1>2 DEF SocialInit, NotesInit, Request
<1>3. ReadsInv
  BY <1>1, <1>2 DEF ReadsInv, AnswerRead, InsertRead, Answers
<1>4. \A q \in Requests : CountInv(q)
  BY <1>2 DEF CountInv, CountOK
<1> QED
  BY <1>1, <1>3, <1>4 DEF PartnersAreTold, PairsOnce

LEMMA StepInvariant == IInv /\ [SocialNext]_socialVars => IInv'
BY StepTypes, ToldStep, ReadsStep, PairsStep, CountsStep DEF IInv

THEOREM InvariantHolds == SocialSpec => []IInv
BY InitInvariant, StepInvariant, PTL DEF SocialSpec

\* For any users, rows and requests in flight: a notification about a
\* friendship goes to one of its two users, the rows that a request selected
\* stay its user's, and the unique index holds.
THEOREM TypeCorrect == SocialSpec => []SocialTypeOK
<1>1. IInv => SocialTypeOK
  BY TypesImply DEF IInv
<1> QED
  BY <1>1, InvariantHolds, PTL

\* Nobody waits for a notification that will not come unless a request failed
\* between its two statements, whatever answers, removals and cleanups race.
THEOREM PartnersHear == SocialSpec => []PartnersAreTold
<1>1. IInv => PartnersAreTold
  BY DEF IInv
<1> QED
  BY <1>1, InvariantHolds, PTL

\* Only requests that crossed can list a friend twice, for any number of
\* requests in flight; lists and exports name the same friends.
THEOREM FriendsListedOnce == SocialSpec => []ListedOnce
<1>1. IInv => ListedOnce
  BY ListImplies DEF IInv
<1> QED
  BY <1>1, InvariantHolds, PTL

\* The statements of a summary or a list disagree by no more than what was
\* written between them, however many rows there are.
THEOREM CountsDriftBounded == SocialSpec => []CountsDrift
<1>1. IInv => CountsDrift
  BY CountsImply DEF IInv
<1> QED
  BY <1>1, InvariantHolds, PTL

\* An answer overwrites another only if both were under way at once, and a
\* removed friendship stays removed.
THEOREM FriendshipsLive == SocialSpec => FriendshipLifecycle
<1>1. IInv /\ [SocialNext]_socialVars => \A f \in FriendIds : FriendMove(f)
  BY FriendsMove DEF IInv
<1> QED
  BY <1>1, InvariantHolds, PTL DEF SocialSpec, FriendshipLifecycle, FriendMove

\* What was reported as read is never unread again nor deleted unread, and
\* only its user deletes an unread row.
THEOREM NotificationsLive == SocialSpec => NotificationLifecycle
<1>1. IInv /\ [SocialNext]_socialVars => \A n \in NoteIds : NoteMove(n)
  BY NotesMove DEF IInv
<1> QED
  BY <1>1, InvariantHolds, PTL DEF SocialSpec, NotificationLifecycle, NoteMove

=============================================================================
