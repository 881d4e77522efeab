---------------------------- MODULE RoomsProofs ----------------------------
(***************************************************************************)
(* Proofs about Rooms for any number of users, rooms, requests and rows.   *)
(*                                                                         *)
(* The budgets are inductive on top of TypeOK because each counts, next to *)
(* the rows, the requests that have passed the check and not yet written.  *)
(* A check that succeeds has seen the rows as they are; the requests it    *)
(* did not see are at most all of Requests.                                *)
(***************************************************************************)
EXTENDS Rooms, FiniteSetTheorems, TLAPS

-----------------------------------------------------------------------------
(* Type correctness.                                                       *)

LEMMA CapacityIsNat == \A m \in Capacities : m \in Nat /\ m >= 3
BY CapacityAssumption

LEMMA TypeInit == Init => TypeOK
BY DEF Init, TypeOK, RoomStatus, Pc, InvitePc

\* What InsertJoined does to the table: one free id becomes a Joined row.
LEMMA InsertPart ==
    ASSUME NEW r, NEW u, InsertJoined(r, u)
    PROVE  \E p \in Free :
             part' = [part EXCEPT ![p] = [room |-> r, user |-> u,
                                          status |-> "Joined", left_at |-> FALSE]]
BY DEF InsertJoined

\* Every step keeps the types of the tables and of the locals.
LEMMA TypeNext == TypeOK /\ [Next]_vars => TypeOK'
<1> SUFFICES ASSUME TypeOK, [Next]_vars PROVE TypeOK'
  OBVIOUS
<1> USE NoneAssumption DEF TypeOK, table, request
<1>1. ASSUME NEW q \in Requests, NEW u \in Users, NEW r \in Rooms, NEW m \in Capacities,
             CreateRoom(q, u, r, m)
      PROVE  TypeOK'
  BY <1>1, CapacityIsNat DEF CreateRoom, Start, RoomStatus, Pc, InvitePc, LeavePc, JoinPc
<1>2. ASSUME NEW q \in Requests, NEW u \in Users, NEW r \in Rooms, JoinFind(q, u, r)
      PROVE  TypeOK'
  BY <1>2 DEF JoinFind, Start, Pc, InvitePc, LeavePc, JoinPc
<1>3. ASSUME NEW q \in Requests, NEW u \in Users, NEW r \in Rooms, LeaveFind(q, u, r)
      PROVE  TypeOK'
  BY <1>3 DEF LeaveFind, Start, JoinedAs, Joined, Pc, InvitePc, LeavePc, JoinPc
<1>4. ASSUME NEW q \in Requests, NEW u \in Users, NEW r \in Rooms, NEW v \in Invitees,
             InviteAuthorise(q, u, r, v)
      PROVE  TypeOK'
  BY <1>4, InviteeAssumption DEF InviteAuthorise, Start, Pc, InvitePc, LeavePc, JoinPc
<1>5. ASSUME NEW q \in Requests, pc[q] # "idle", InsertJoined(where[q], who[q]), Return(q),
             UNCHANGED <<status, host, maxPlayers, invites, faulted>>
      PROVE  TypeOK'
  <2>1. PICK p \in Free :
           part' = [part EXCEPT ![p] = [room |-> where[q], user |-> who[q],
                                        status |-> "Joined", left_at |-> FALSE]]
    BY <1>5, InsertPart
  <2>2. [room |-> where[q], user |-> who[q], status |-> "Joined", left_at |-> FALSE]
           \in ParticipantRow
    BY <1>5 DEF ParticipantRow
  <2>3. /\ part' \in [PartIds -> ParticipantRow \cup {None}]
        /\ \A x \in PartIds : part[x] # None => part'[x] = part[x]
    BY <2>1, <2>2 DEF Free
  <2>4. \A x \in PartIds : part'[x] # None => status[part'[x].room] # "None"
    BY <1>5, <2>1, <2>2 DEF Free
  <2> QED
    BY <1>5, <2>3, <2>4 DEF Return, Pc, InvitePc
<1>6. ASSUME NEW q \in Requests, LeaveUpdate(q)
      PROVE  TypeOK'
  <2>1. row[q] \in PartIds /\ part[row[q]] \in ParticipantRow
    BY <1>6 DEF LeaveUpdate
  <2>2. [part[row[q]] EXCEPT !.status = "Left", !.left_at = TRUE] \in ParticipantRow
    BY <2>1 DEF ParticipantRow
  <2>3. part' \in [PartIds -> ParticipantRow \cup {None}]
    BY <1>6, <2>1, <2>2 DEF LeaveUpdate
  <2>4. /\ \A x \in PartIds : part[x] # None => part'[x] # None
        /\ \A x \in PartIds : part[x] # None => part'[x].room = part[x].room
    BY <1>6, <2>1, <2>2, RowAssumption DEF LeaveUpdate, ParticipantRow
  <2> QED
    BY <1>6, <2>3, <2>4 DEF LeaveUpdate, Goto, Pc, InvitePc, LeavePc, JoinPc
<1>7. ASSUME NEW q \in Requests,
             \/ JoinCheckMember(q) \/ JoinCount(q)
             \/ LeaveCount(q)
             \/ InviteCheckJoined(q) \/ InviteCheckPending(q)
      PROVE  TypeOK'
  <2>1. CASE Return(q) /\ UNCHANGED <<table, faulted>>
    BY <2>1 DEF Return, Pc, InvitePc
  <2>2. CASE /\ UNCHANGED <<table, faulted>>
             /\ pc[q] \in JoinPc /\ \E next \in JoinPc : Goto(q, next)
    BY <2>2 DEF Goto, Pc, InvitePc, LeavePc, JoinPc
  <2>3. CASE UNCHANGED <<table, faulted>> /\ pc[q] = "countLeft" /\ Goto(q, "markEmpty")
    BY <2>3 DEF Goto, Pc, InvitePc, LeavePc, JoinPc
  <2>4. CASE /\ UNCHANGED <<table, faulted>>
             /\ pc[q] \in InvitePc /\ \E next \in InvitePc : Goto(q, next)
    BY <2>4 DEF Goto, Pc, InvitePc, LeavePc, JoinPc
  <2> QED
    BY <1>7, <2>1, <2>2, <2>3, <2>4
       DEF JoinCheckMember, JoinCount, LeaveCount, InviteCheckJoined, InviteCheckPending,
           JoinPc, InvitePc
<1>8. ASSUME NEW q \in Requests, LeaveMarkEmpty(q)
      PROVE  TypeOK'
  BY <1>8 DEF LeaveMarkEmpty, Return, RoomStatus, Pc, InvitePc
<1>9. ASSUME NEW q \in Requests, InviteInsert(q)
      PROVE  TypeOK'
  BY <1>9 DEF InviteInsert, Return, Pc, InvitePc
<1>10. ASSUME NEW q \in Requests, Abort(q)
       PROVE  TypeOK'
  BY <1>10 DEF Abort, Return, Pc, InvitePc
<1>11. ASSUME ExpiredRooms PROVE TypeOK'
  BY <1>11 DEF ExpiredRooms, RoomStatus
<1>12. ASSUME UNCHANGED vars PROVE TypeOK'
  BY <1>12 DEF vars
<1> QED
  BY <1>1, <1>2, <1>3, <1>4, <1>5, <1>6, <1>7, <1>8, <1>9, <1>10, <1>11, <1>12
     DEF Next, Call, Step, InsertHost, JoinInsert

\* Tables and locals stay within their types, and no room is ever "Open".
THEOREM TypeCorrect == Spec => []TypeOK
<1>1. Init => TypeOK
  BY TypeInit
<1>2. TypeOK /\ [Next]_vars => TypeOK'
  BY TypeNext
<1> QED
  BY <1>1, <1>2, PTL DEF Spec

-----------------------------------------------------------------------------
(* Counting rows and requests.                                             *)

LEMMA RowsFinite ==
    ASSUME NEW S \in SUBSET PartIds
    PROVE  IsFiniteSet(S) /\ Cardinality(S) \in Nat
BY FiniteAssumption, FS_Subset, FS_CardinalityType

LEMMA SlotsFinite ==
    ASSUME NEW S \in SUBSET Requests
    PROVE  IsFiniteSet(S) /\ Cardinality(S) \in Nat /\ Cardinality(S) <= Cardinality(Requests)
BY FiniteAssumption, FS_Subset, FS_CardinalityType

LEMMA RequestsFinite == Cardinality(Requests) \in Nat
BY FiniteAssumption, FS_CardinalityType

\* Rows and slots do not grow: the sum stays within its bound.
LEMMA SumShrinks ==
    ASSUME NEW S \in SUBSET PartIds, NEW T \in SUBSET S,
           NEW A \in SUBSET Requests, NEW B \in SUBSET A
    PROVE  Cardinality(T) + Cardinality(B) <= Cardinality(S) + Cardinality(A)
<1>1. Cardinality(T) <= Cardinality(S) /\ Cardinality(B) <= Cardinality(A)
  BY RowsFinite, SlotsFinite, FS_Subset
<1>2. /\ Cardinality(T) \in Nat /\ Cardinality(S) \in Nat
      /\ Cardinality(A) \in Nat /\ Cardinality(B) \in Nat
  BY RowsFinite, SlotsFinite
<1> QED
  BY <1>1, <1>2

\* A request turns its promise into a row: the sum does not grow.
LEMMA SumMoves ==
    ASSUME NEW S \in SUBSET PartIds, NEW p \in PartIds,
           NEW A \in SUBSET Requests, NEW q \in A
    PROVE  Cardinality(S \cup {p}) + Cardinality(A \ {q}) <= Cardinality(S) + Cardinality(A)
<1>1. /\ Cardinality(S \cup {p}) <= Cardinality(S) + 1
      /\ Cardinality(A \ {q}) = Cardinality(A) - 1
  BY RowsFinite, SlotsFinite, FS_AddElement, FS_RemoveElement
<1>2. /\ Cardinality(S) \in Nat /\ Cardinality(S \cup {p}) \in Nat
      /\ Cardinality(A) \in Nat /\ Cardinality(A \ {q}) \in Nat
  BY RowsFinite, SlotsFinite
<1> QED
  BY <1>1, <1>2

-----------------------------------------------------------------------------
(* What a step does to the rows one query counts.                          *)

\* Steps that do not insert a participant add no Joined row.
LEMMA JoinedShrinks ==
    ASSUME TypeOK, [Next]_vars,
           \A q \in Requests : ~InsertHost(q) /\ ~JoinInsert(q)
    PROVE  /\ \A r \in Rooms : Joined(r)' \subseteq Joined(r)
           /\ \A r \in Rooms, u \in Users : JoinedAs(r, u)' \subseteq JoinedAs(r, u)
<1>1. CASE UNCHANGED part
  BY <1>1 DEF Joined, JoinedAs
<1>2. ASSUME NEW q \in Requests, LeaveUpdate(q)
      PROVE  /\ \A r \in Rooms : Joined(r)' \subseteq Joined(r)
             /\ \A r \in Rooms, u \in Users : JoinedAs(r, u)' \subseteq JoinedAs(r, u)
  <2>1. row[q] \in PartIds /\ part[row[q]] \in ParticipantRow
    BY <1>2 DEF LeaveUpdate, TypeOK
  <2>2. \A x \in PartIds : x # row[q] => part'[x] = part[x]
    BY <1>2, <2>1 DEF LeaveUpdate, TypeOK
  <2>3. part'[row[q]].status = "Left"
    BY <1>2, <2>1 DEF LeaveUpdate, TypeOK, ParticipantRow
  <2> QED
    BY <2>2, <2>3 DEF Joined, JoinedAs
<1> QED
  BY <1>1, <1>2
     DEF Next, Call, Step, CreateRoom, JoinFind, LeaveFind, InviteAuthorise, JoinCheckMember,
         JoinCount, LeaveCount, LeaveMarkEmpty, InviteCheckJoined, InviteCheckPending,
         InviteInsert, Abort, ExpiredRooms, vars, table

\* An insert adds at most one row, and only to the room and user named.
LEMMA JoinedGrows ==
    ASSUME TypeOK, NEW r \in Rooms, NEW u \in Users, InsertJoined(r, u)
    PROVE  \E p \in PartIds :
             /\ p \notin Joined(r)
             /\ Joined(r)' = Joined(r) \cup {p}
             /\ JoinedAs(r, u)' = JoinedAs(r, u) \cup {p}
             /\ \A s \in Rooms : s # r => Joined(s)' = Joined(s)
             /\ \A s \in Rooms, v \in Users :
                  s # r \/ v # u => JoinedAs(s, v)' = JoinedAs(s, v)
<1>1. PICK p \in Free :
        part' = [part EXCEPT ![p] = [room |-> r, user |-> u,
                                     status |-> "Joined", left_at |-> FALSE]]
  BY InsertPart
<1>2. p \in PartIds /\ part[p] = None
  BY DEF Free
<1>3. /\ \A x \in PartIds : x # p => part'[x] = part[x]
      /\ part'[p].room = r /\ part'[p].user = u /\ part'[p].status = "Joined"
      /\ part'[p] \in ParticipantRow
  BY <1>1, <1>2 DEF TypeOK, ParticipantRow
<1>4. part'[p] # None
  BY <1>3, RowAssumption
<1>5. p \notin Joined(r)
  BY <1>2 DEF Joined
<1>6. /\ Joined(r)' = Joined(r) \cup {p}
      /\ \A s \in Rooms : s # r => Joined(s)' = Joined(s)
  BY <1>2, <1>3, <1>4 DEF Joined
<1>7. /\ JoinedAs(r, u)' = JoinedAs(r, u) \cup {p}
      /\ \A s \in Rooms, v \in Users : s # r \/ v # u => JoinedAs(s, v)' = JoinedAs(s, v)
  BY <1>2, <1>3, <1>4 DEF Joined, JoinedAs
<1> QED
  BY <1>2, <1>5, <1>6, <1>7

-----------------------------------------------------------------------------
(* Which requests hold a promise after a step.                             *)

\* A request is admitted to a room by creating it or by the capacity check,
\* and stops being so by writing its row or by aborting.
LEMMA AdmittedStep ==
    ASSUME TypeOK, [Next]_vars, NEW r \in Rooms,
           \A q \in Requests, u \in Users, m \in Capacities : ~CreateRoom(q, u, r, m),
           \A q \in Requests : ~(JoinCount(q) /\ where[q] = r /\ pc'[q] = "insertJoin")
    PROVE  Admitted(r)' \subseteq Admitted(r)
<1>1. CASE UNCHANGED vars
  BY <1>1 DEF vars, request, Admitted
<1>2. ASSUME NEW q \in Requests, NEW u \in Users, NEW s \in Rooms, Call(q, u, s)
      PROVE  Admitted(r)' \subseteq Admitted(r)
  <2>1. \A x \in Requests : x # q => pc'[x] = pc[x] /\ where'[x] = where[x]
    BY <1>2 DEF Call, CreateRoom, JoinFind, LeaveFind, InviteAuthorise, Start, TypeOK
  <2>2. ASSUME NEW m \in Capacities, CreateRoom(q, u, s, m)
        PROVE  q \notin Admitted(r)'
    <3>1. s # r
      BY <2>2
    <3> QED
      BY <2>2, <3>1 DEF CreateRoom, Start, TypeOK, Admitted
  <2>3. ASSUME \A m \in Capacities : ~CreateRoom(q, u, s, m)
        PROVE  q \notin Admitted(r)'
    BY <1>2, <2>3 DEF Call, JoinFind, LeaveFind, InviteAuthorise, Start, TypeOK, Admitted
  <2> QED
    BY <2>1, <2>2, <2>3 DEF Admitted
<1>3. ASSUME NEW q \in Requests, Step(q) \/ Abort(q)
      PROVE  Admitted(r)' \subseteq Admitted(r)
  <2>1. CASE Return(q)
    BY <2>1 DEF Return, TypeOK, Admitted
  <2>2. CASE \E next \in Pc \ {"insertJoin", "insertHost"} : Goto(q, next)
    BY <2>2 DEF Goto, TypeOK, Admitted
  <2>3. CASE JoinCount(q)
    BY <2>3, <2>1 DEF JoinCount, Goto, TypeOK, Admitted
  <2> QED
    BY <1>3, <2>1, <2>2, <2>3
       DEF Step, Abort, InsertHost, JoinCheckMember, JoinInsert, LeaveUpdate, LeaveCount,
           LeaveMarkEmpty, InviteCheckJoined, InviteCheckPending, InviteInsert,
           Pc, JoinPc, LeavePc, InvitePc
<1>4. CASE ExpiredRooms
  BY <1>4 DEF ExpiredRooms, request, Admitted
<1> QED
  BY <1>1, <1>2, <1>3, <1>4 DEF Next

\* The status of a room leaves "None" by creation only, which also is the
\* only step to set max_players.
LEMMA RoomRowStep ==
    ASSUME TypeOK, [Next]_vars, NEW r \in Rooms,
           \A q \in Requests, u \in Users, m \in Capacities : ~CreateRoom(q, u, r, m)
    PROVE  /\ maxPlayers'[r] = maxPlayers[r]
           /\ status'[r] # "None" => status[r] # "None"
<1>1. ASSUME NEW q \in Requests, NEW u \in Users, NEW s \in Rooms, NEW m \in Capacities,
             CreateRoom(q, u, s, m), s # r
      PROVE  maxPlayers'[r] = maxPlayers[r] /\ status'[r] = status[r]
  BY <1>1 DEF CreateRoom, TypeOK
<1>2. CASE UNCHANGED <<status, maxPlayers>>
  BY <1>2
<1>3. ASSUME NEW q \in Requests, LeaveMarkEmpty(q)
      PROVE  maxPlayers'[r] = maxPlayers[r] /\ (status'[r] # "None" => status[r] # "None")
  BY <1>3 DEF LeaveMarkEmpty, TypeOK
<1>4. CASE ExpiredRooms
  BY <1>4 DEF ExpiredRooms
<1> QED
  BY <1>1, <1>2, <1>3, <1>4
     DEF Next, Call, Step, JoinFind, LeaveFind, InviteAuthorise, JoinCheckMember, InsertHost,
         JoinCount, JoinInsert, LeaveUpdate, LeaveCount, InviteCheckJoined, InviteCheckPending,
         InviteInsert, Abort, vars, table

-----------------------------------------------------------------------------
(* The seats of a room.                                                    *)

SeatInv == TypeOK /\ SeatBudget

\* One room's share of SeatBudget.
Seats(r) ==
    status[r] # "None" =>
        Cardinality(Joined(r)) + Cardinality(Admitted(r)) + 1
            <= maxPlayers[r] + Cardinality(Requests)

LEMMA SubsetsOfIds ==
    ASSUME NEW r
    PROVE  /\ Joined(r) \subseteq PartIds /\ Joined(r)' \subseteq PartIds
           /\ Admitted(r) \subseteq Requests /\ Admitted(r)' \subseteq Requests
BY DEF Joined, Admitted

\* Every step keeps the budget of every room.
LEMMA SeatNext ==
    ASSUME TypeOK, [Next]_vars, NEW r \in Rooms, Seats(r)
    PROVE  Seats(r)'
<1> DEFINE K == Cardinality(Requests)
<1> DEFINE J == Joined(r)
<1> DEFINE A == Admitted(r)
<1>1. /\ J \in SUBSET PartIds /\ J' \in SUBSET PartIds
      /\ A \in SUBSET Requests /\ A' \in SUBSET Requests
  BY SubsetsOfIds
<1>2. /\ Cardinality(J) \in Nat /\ Cardinality(J') \in Nat
      /\ Cardinality(A) \in Nat /\ Cardinality(A') \in Nat
      /\ Cardinality(A') <= K /\ K \in Nat /\ maxPlayers[r] \in Nat
  BY <1>1, RowsFinite, SlotsFinite, RequestsFinite DEF TypeOK
<1>3. SUFFICES ASSUME status'[r] # "None"
               PROVE  Cardinality(J') + Cardinality(A') + 1 <= maxPlayers'[r] + K
  BY DEF Seats
<1>4. CASE \E q \in Requests, u \in Users, m \in Capacities : CreateRoom(q, u, r, m)
  <2>1. PICK q \in Requests, u \in Users, m \in Capacities : CreateRoom(q, u, r, m)
    BY <1>4
  <2>2. J' = {}
    BY <2>1 DEF CreateRoom, TypeOK, Joined
  <2>3. maxPlayers'[r] \in Nat /\ maxPlayers'[r] >= 3
    BY <2>1, CapacityIsNat DEF CreateRoom, TypeOK
  <2>4. Cardinality(J') = 0
    BY <2>2, FS_EmptySet
  <2> QED
    BY <1>2, <2>3, <2>4
<1>5. CASE \A q \in Requests, u \in Users, m \in Capacities : ~CreateRoom(q, u, r, m)
  <2>1. maxPlayers'[r] = maxPlayers[r] /\ status[r] # "None"
    BY <1>3, <1>5, RoomRowStep
  <2>2. Cardinality(J) + Cardinality(A) + 1 <= maxPlayers[r] + K
    BY <2>1 DEF Seats
  <2>3. ASSUME NEW q \in Requests, JoinCount(q), where[q] = r, pc'[q] = "insertJoin"
        PROVE  Cardinality(J') + Cardinality(A') + 1 <= maxPlayers'[r] + K
    <3>1. pc[q] = "countJoined" /\ pc' # pc
      BY <2>3 DEF JoinCount, TypeOK
    <3>2. Cardinality(J) < maxPlayers[r] /\ J' = J
      BY <2>3, <3>1 DEF JoinCount, Return, Goto, TypeOK, table, Joined
    <3> QED
      BY <1>2, <2>1, <3>2
  <2>4. CASE \A q \in Requests : ~(JoinCount(q) /\ where[q] = r /\ pc'[q] = "insertJoin")
    <3>1. A' \subseteq A
      BY <1>5, <2>4, AdmittedStep
    <3>2. CASE \A q \in Requests : ~InsertHost(q) /\ ~JoinInsert(q)
      <4>1. J' \subseteq J
        BY <3>2, JoinedShrinks
      <4>2. Cardinality(J') + Cardinality(A') <= Cardinality(J) + Cardinality(A)
        BY <1>1, <3>1, <4>1, SumShrinks
      <4> QED
        BY <1>2, <2>1, <2>2, <4>2
    <3>3. ASSUME NEW q \in Requests, InsertHost(q) \/ JoinInsert(q)
          PROVE  Cardinality(J') + Cardinality(A') + 1 <= maxPlayers'[r] + K
      <4>1. /\ where[q] \in Rooms /\ who[q] \in Users /\ InsertJoined(where[q], who[q])
            /\ where[q] = r => q \in A
            /\ q \notin A'
        BY <3>3 DEF InsertHost, JoinInsert, Return, TypeOK, Admitted
      <4>2. CASE where[q] # r
        <5>1. J' = J
          BY <4>1, <4>2, JoinedGrows
        <5>2. Cardinality(J') + Cardinality(A') <= Cardinality(J) + Cardinality(A)
          BY <1>1, <3>1, <5>1, SumShrinks
        <5> QED
          BY <1>2, <2>1, <2>2, <5>2
      <4>3. CASE where[q] = r
        <5>1. PICK p \in PartIds : J' = J \cup {p}
          BY <4>1, <4>3, JoinedGrows
        <5>2. q \in A /\ A' \in SUBSET (A \ {q})
          BY <3>1, <4>1, <4>3
        <5>3. Cardinality(J \cup {p}) + Cardinality(A \ {q}) <= Cardinality(J) + Cardinality(A)
          BY <1>1, <5>2, SumMoves
        <5>4. Cardinality(J') + Cardinality(A') <= Cardinality(J') + Cardinality(A \ {q})
          BY <1>1, <5>2, SumShrinks
        <5>5. Cardinality(A \ {q}) \in Nat
          BY <1>1, SlotsFinite
        <5> QED
          BY <1>2, <2>1, <2>2, <5>1, <5>3, <5>4, <5>5
      <4> QED
        BY <4>2, <4>3
    <3> QED
      BY <3>2, <3>3
  <2> QED
    BY <2>3, <2>4
<1> QED
  BY <1>4, <1>5

\* join_room may overrun max_players, but seats taken and seats promised
\* never exceed max_players - 1 plus the number of simultaneous requests.
THEOREM SeatBudgetHolds == Spec => []SeatBudget
<1>1. Init => SeatBudget
  BY DEF Init, SeatBudget
<1>2. SeatInv /\ [Next]_vars => SeatInv'
  <2> SUFFICES ASSUME SeatInv, [Next]_vars PROVE SeatInv'
    OBVIOUS
  <2>1. TypeOK'
    BY TypeNext DEF SeatInv
  <2>2. ASSUME NEW r \in Rooms PROVE Seats(r)'
    BY SeatNext DEF SeatInv, SeatBudget, Seats
  <2> QED
    BY <2>1, <2>2 DEF SeatInv, SeatBudget, Seats
<1> QED
  BY <1>1, <1>2, TypeInit, PTL DEF Spec, SeatInv

\* k simultaneous requests put at most k - 1 users too many into a room.
THEOREM CapacityIsBounded == Spec => []CapacityBounded
<1>1. SeatInv => CapacityBounded
  <2> SUFFICES ASSUME SeatInv, NEW r \in Rooms, status[r] # "None"
               PROVE  Cardinality(Joined(r)) + 1 <= maxPlayers[r] + Cardinality(Requests)
    BY DEF CapacityBounded
  <2>1. /\ Cardinality(Joined(r)) \in Nat /\ Cardinality(Admitted(r)) \in Nat
        /\ Cardinality(Requests) \in Nat /\ maxPlayers[r] \in Nat
    BY SubsetsOfIds, RowsFinite, SlotsFinite, RequestsFinite DEF SeatInv, TypeOK
  <2> QED
    BY <2>1 DEF SeatInv, SeatBudget
<1> QED
  BY <1>1, SeatBudgetHolds, TypeCorrect, PTL DEF SeatInv

-----------------------------------------------------------------------------
(* The rows of one user in one room.                                       *)

\* One user's share of MembershipBudget.
Membership(r, u) ==
    Cardinality(JoinedAs(r, u)) + Cardinality(Joining(r, u)) <= Cardinality(Requests)

LEMMA MembershipSubsets ==
    ASSUME NEW r, NEW u
    PROVE  /\ JoinedAs(r, u) \in SUBSET PartIds /\ JoinedAs(r, u)' \in SUBSET PartIds
           /\ Joining(r, u) \in SUBSET Requests /\ Joining(r, u)' \in SUBSET Requests
BY DEF JoinedAs, Joined, Joining

\* A request starts to count for a user by creating the room or by finding no
\* Joined row of that user.
LEMMA JoiningStep ==
    ASSUME TypeOK, [Next]_vars, NEW r \in Rooms, NEW u \in Users,
           \A q \in Requests, m \in Capacities : ~CreateRoom(q, u, r, m),
           \A q \in Requests : ~(/\ JoinCheckMember(q) /\ where[q] = r /\ who[q] = u
                                 /\ pc'[q] = "countJoined")
    PROVE  Joining(r, u)' \subseteq Joining(r, u)
<1>1. CASE UNCHANGED vars
  BY <1>1 DEF vars, request, Joining
<1>2. ASSUME NEW q \in Requests, NEW v \in Users, NEW s \in Rooms, Call(q, v, s)
      PROVE  Joining(r, u)' \subseteq Joining(r, u)
  <2>1. ASSUME NEW m \in Capacities, CreateRoom(q, v, s, m)
        PROVE  Joining(r, u)' \subseteq Joining(r, u)
    <3>1. v # u \/ s # r
      BY <2>1
    <3>2. \A x \in Requests : x # q => /\ pc'[x] = pc[x] /\ who'[x] = who[x]
                                       /\ where'[x] = where[x]
      BY <2>1 DEF CreateRoom, Start, TypeOK
    <3>3. who'[q] = v /\ where'[q] = s
      BY <2>1 DEF CreateRoom, Start, TypeOK
    <3> QED
      BY <3>1, <3>2, <3>3 DEF Joining
  <2>2. CASE JoinFind(q, v, s) \/ LeaveFind(q, v, s)
    BY <2>2 DEF JoinFind, LeaveFind, Start, TypeOK, Joining
  <2>3. CASE \E w \in Invitees : InviteAuthorise(q, v, s, w)
    BY <2>3 DEF InviteAuthorise, Start, TypeOK, Joining
  <2> QED
    BY <1>2, <2>1, <2>2, <2>3 DEF Call
<1>3. ASSUME NEW q \in Requests, Step(q) \/ Abort(q)
      PROVE  Joining(r, u)' \subseteq Joining(r, u)
  <2>1. CASE Return(q)
    BY <2>1 DEF Return, TypeOK, Joining
  <2>2. CASE \E next \in Pc \ {"countJoined", "insertJoin", "insertHost"} : Goto(q, next)
    BY <2>2 DEF Goto, TypeOK, Joining
  <2>3. CASE JoinCheckMember(q)
    BY <2>3, <2>1 DEF JoinCheckMember, Goto, TypeOK, Joining
  <2>4. CASE JoinCount(q)
    BY <2>4, <2>1 DEF JoinCount, Goto, TypeOK, Joining
  <2> QED
    BY <1>3, <2>1, <2>2, <2>3, <2>4
       DEF Step, Abort, InsertHost, JoinInsert, LeaveUpdate, LeaveCount,
           LeaveMarkEmpty, InviteCheckJoined, InviteCheckPending, InviteInsert,
           Pc, JoinPc, LeavePc, InvitePc
<1>4. CASE ExpiredRooms
  BY <1>4 DEF ExpiredRooms, request, Joining
<1> QED
  BY <1>1, <1>2, <1>3, <1>4 DEF Next

\* Every step keeps the budget of every user in every room.
LEMMA MembershipNext ==
    ASSUME TypeOK, [Next]_vars, NEW r \in Rooms, NEW u \in Users, Membership(r, u)
    PROVE  Membership(r, u)'
<1> DEFINE K == Cardinality(Requests)
<1> DEFINE J == JoinedAs(r, u)
<1> DEFINE A == Joining(r, u)
<1>1. /\ J \in SUBSET PartIds /\ J' \in SUBSET PartIds
      /\ A \in SUBSET Requests /\ A' \in SUBSET Requests
  BY MembershipSubsets
<1>2. /\ Cardinality(J) \in Nat /\ Cardinality(J') \in Nat
      /\ Cardinality(A) \in Nat /\ Cardinality(A') \in Nat
      /\ Cardinality(A') <= K /\ K \in Nat
  BY <1>1, RowsFinite, SlotsFinite, RequestsFinite
<1>3. SUFFICES Cardinality(J') + Cardinality(A') <= K
  BY DEF Membership
<1>4. Cardinality(J) + Cardinality(A) <= K
  BY DEF Membership
<1>5. J' = {} => Cardinality(J') + Cardinality(A') <= K
  BY <1>2, FS_EmptySet
<1>6. CASE \E q \in Requests, m \in Capacities : CreateRoom(q, u, r, m)
  <2>1. PICK q \in Requests, m \in Capacities : CreateRoom(q, u, r, m)
    BY <1>6
  <2>2. J' = {}
    BY <2>1 DEF CreateRoom, TypeOK, JoinedAs, Joined
  <2> QED
    BY <1>5, <2>2
<1>7. ASSUME NEW q \in Requests, JoinCheckMember(q), where[q] = r, who[q] = u,
             pc'[q] = "countJoined"
      PROVE  Cardinality(J') + Cardinality(A') <= K
  <2>1. pc[q] = "checkMember" /\ J = {}
    BY <1>7 DEF JoinCheckMember, Return, TypeOK
  <2>2. J' = {}
    BY <1>7, <2>1 DEF JoinCheckMember, table, JoinedAs, Joined
  <2> QED
    BY <1>5, <2>2
<1>8. CASE /\ \A q \in Requests, m \in Capacities : ~CreateRoom(q, u, r, m)
           /\ \A q \in Requests : ~(/\ JoinCheckMember(q) /\ where[q] = r /\ who[q] = u
                                    /\ pc'[q] = "countJoined")
  <2>1. A' \subseteq A
    BY <1>8, JoiningStep
  <2>2. CASE \A q \in Requests : ~InsertHost(q) /\ ~JoinInsert(q)
    <3>1. J' \subseteq J
      BY <2>2, JoinedShrinks
    <3>2. Cardinality(J') + Cardinality(A') <= Cardinality(J) + Cardinality(A)
      BY <1>1, <2>1, <3>1, SumShrinks
    <3> QED
      BY <1>2, <1>4, <3>2
  <2>3. ASSUME NEW q \in Requests, InsertHost(q) \/ JoinInsert(q)
        PROVE  Cardinality(J') + Cardinality(A') <= K
    <3>1. /\ where[q] \in Rooms /\ who[q] \in Users /\ InsertJoined(where[q], who[q])
          /\ where[q] = r /\ who[q] = u => q \in A
          /\ q \notin A'
      BY <2>3 DEF InsertHost, JoinInsert, Return, TypeOK, Joining
    <3>2. CASE where[q] # r \/ who[q] # u
      <4>1. J' = J
        BY <3>1, <3>2, JoinedGrows
      <4>2. Cardinality(J') + Cardinality(A') <= Cardinality(J) + Cardinality(A)
        BY <1>1, <2>1, <4>1, SumShrinks
      <4> QED
        BY <1>2, <1>4, <4>2
    <3>3. CASE where[q] = r /\ who[q] = u
      <4>1. PICK p \in PartIds : J' = J \cup {p}
        BY <3>1, <3>3, JoinedGrows
      <4>2. q \in A /\ A' \in SUBSET (A \ {q})
        BY <2>1, <3>1, <3>3
      <4>3. Cardinality(J \cup {p}) + Cardinality(A \ {q}) <= Cardinality(J) + Cardinality(A)
        BY <1>1, <4>2, SumMoves
      <4>4. Cardinality(J') + Cardinality(A') <= Cardinality(J') + Cardinality(A \ {q})
        BY <1>1, <4>2, SumShrinks
      <4>5. Cardinality(A \ {q}) \in Nat
        BY <1>1, SlotsFinite
      <4> QED
        BY <1>2, <1>4, <4>1, <4>3, <4>4, <4>5
    <3> QED
      BY <3>2, <3>3
  <2> QED
    BY <2>2, <2>3
<1> QED
  BY <1>6, <1>7, <1>8

\* One user has at most as many Joined rows in a room, written or about to
\* be, as there are simultaneous requests.
THEOREM MembershipBudgetHolds == Spec => []MembershipBudget
<1>1. Init => MembershipBudget
  <2> SUFFICES ASSUME Init, NEW r \in Rooms, NEW u \in Users PROVE Membership(r, u)
    BY DEF MembershipBudget, Membership
  <2>1. JoinedAs(r, u) = {} /\ Joining(r, u) = {}
    BY NoneAssumption DEF Init, JoinedAs, Joined, Joining
  <2> QED
    BY <2>1, FS_EmptySet, RequestsFinite DEF Membership
<1>2. TypeOK /\ MembershipBudget /\ [Next]_vars => MembershipBudget'
  BY MembershipNext DEF MembershipBudget, Membership
<1> QED
  BY <1>1, <1>2, TypeCorrect, PTL DEF Spec

-----------------------------------------------------------------------------
(* The invitations of one user to one room.                                *)

\* One user's share of InvitationBudget.
Invitation(r, v) ==
    invites[r][v] + Cardinality(Inviting(r, v)) <= Cardinality(Requests)

\* A promise to invite is made where no invitation is pending, and kept or
\* dropped by the request that made it.
LEMMA InvitingStep ==
    ASSUME TypeOK, [Next]_vars, NEW r \in Rooms, NEW v \in Users
    PROVE  \/ /\ invites'[r][v] = invites[r][v]
              /\ Inviting(r, v)' \subseteq Inviting(r, v) \/ invites[r][v] = 0
           \/ /\ invites'[r][v] = invites[r][v] + 1
              /\ \E q \in Inviting(r, v) : Inviting(r, v)' \subseteq Inviting(r, v) \ {q}
<1> DEFINE Kept == /\ invites'[r][v] = invites[r][v]
                   /\ Inviting(r, v)' \subseteq Inviting(r, v) \/ invites[r][v] = 0
<1>1. CASE UNCHANGED vars
  BY <1>1 DEF vars, table, request, Inviting
<1>2. ASSUME NEW q \in Requests, NEW u \in Users, NEW s \in Rooms, Call(q, u, s)
      PROVE  Kept
  <2>1. ASSUME NEW m \in Capacities, CreateRoom(q, u, s, m) PROVE Kept
    <3>1. /\ pc' = [pc EXCEPT ![q] = "insertHost"]
          /\ \A x \in Requests \ {q} : who'[x] = who[x] /\ where'[x] = where[x]
      BY <2>1 DEF CreateRoom, Start, TypeOK
    <3>2. Inviting(r, v)' \subseteq Inviting(r, v)
      BY <3>1 DEF Inviting, TypeOK
    <3> QED
      BY <2>1, <3>2 DEF CreateRoom
  <2>2. CASE JoinFind(q, u, s) \/ LeaveFind(q, u, s)
    BY <2>2 DEF JoinFind, LeaveFind, Start, table, TypeOK, Inviting
  <2>3. CASE \E w \in Invitees : InviteAuthorise(q, u, s, w)
    BY <2>3 DEF InviteAuthorise, Start, table, TypeOK, Inviting
  <2> QED
    BY <1>2, <2>1, <2>2, <2>3 DEF Call
<1>3. ASSUME NEW q \in Requests, InviteInsert(q)
      PROVE  \/ Kept
             \/ /\ invites'[r][v] = invites[r][v] + 1
                /\ \E x \in Inviting(r, v) : Inviting(r, v)' \subseteq Inviting(r, v) \ {x}
  <2>1. /\ where[q] \in Rooms /\ who[q] \in Users /\ pc[q] = "insertInvite"
        /\ invites' = [invites EXCEPT ![where[q]][who[q]] = @ + 1]
        /\ Inviting(r, v)' \subseteq Inviting(r, v) \ {q}
    BY <1>3 DEF InviteInsert, Return, TypeOK, Inviting
  <2>2. CASE where[q] = r /\ who[q] = v
    <3>1. q \in Inviting(r, v)
      BY <2>1, <2>2 DEF Inviting
    <3>2. invites'[r][v] = invites[r][v] + 1
      BY <2>1, <2>2 DEF TypeOK
    <3> QED
      BY <2>1, <3>1, <3>2
  <2>3. CASE ~(where[q] = r /\ who[q] = v)
    <3>1. invites'[r][v] = invites[r][v]
      BY <2>1, <2>3 DEF TypeOK
    <3> QED
      BY <2>1, <3>1
  <2> QED
    BY <2>2, <2>3
<1>4. ASSUME NEW q \in Requests, InviteCheckPending(q) PROVE Kept
  BY <1>4 DEF InviteCheckPending, Goto, Return, table, TypeOK, Inviting
<1>5. ASSUME NEW q \in Requests, Step(q) \/ Abort(q), ~InviteInsert(q), ~InviteCheckPending(q)
      PROVE  Kept
  <2>1. invites' = invites
    BY <1>5 DEF Step, Abort, InsertHost, JoinCheckMember, JoinCount, JoinInsert, LeaveUpdate,
                LeaveCount, LeaveMarkEmpty, InviteCheckJoined, table
  <2>2. Return(q) \/ \E next \in Pc \ {"insertInvite"} : Goto(q, next)
    BY <1>5 DEF Step, Abort, InsertHost, JoinCheckMember, JoinCount, JoinInsert, LeaveUpdate,
                LeaveCount, LeaveMarkEmpty, InviteCheckJoined, Pc, JoinPc, LeavePc, InvitePc
  <2>3. Inviting(r, v)' \subseteq Inviting(r, v)
    BY <2>2 DEF Return, Goto, TypeOK, Inviting
  <2> QED
    BY <2>1, <2>3
<1>6. CASE ExpiredRooms
  BY <1>6 DEF ExpiredRooms, request, Inviting
<1> QED
  BY <1>1, <1>2, <1>3, <1>4, <1>5, <1>6 DEF Next

\* Every step keeps the budget of every invitee of every room.
LEMMA InvitationNext ==
    ASSUME TypeOK, [Next]_vars, NEW r \in Rooms, NEW v \in Users, Invitation(r, v)
    PROVE  Invitation(r, v)'
<1> DEFINE A == Inviting(r, v)
<1>1. A \in SUBSET Requests /\ A' \in SUBSET Requests
  BY DEF Inviting
<1>2. /\ Cardinality(A) \in Nat /\ Cardinality(A') \in Nat
      /\ Cardinality(A') <= Cardinality(Requests) /\ Cardinality(Requests) \in Nat
      /\ invites[r][v] \in Nat
  BY <1>1, SlotsFinite, RequestsFinite DEF TypeOK
<1>3. CASE invites'[r][v] = invites[r][v] /\ A' \subseteq A
  <2>1. Cardinality(A') <= Cardinality(A)
    BY <1>1, <1>3, SlotsFinite, FS_Subset
  <2> QED
    BY <1>2, <1>3, <2>1 DEF Invitation
<1>4. CASE invites'[r][v] = 0
  BY <1>2, <1>4 DEF Invitation
<1>5. ASSUME invites'[r][v] = invites[r][v] + 1, NEW q \in A, A' \subseteq A \ {q}
      PROVE  Invitation(r, v)'
  <2>1. Cardinality(A') <= Cardinality(A \ {q}) /\ Cardinality(A \ {q}) = Cardinality(A) - 1
    BY <1>1, <1>5, SlotsFinite, FS_Subset, FS_RemoveElement
  <2> QED
    BY <1>2, <1>5, <2>1 DEF Invitation
<1> QED
  BY <1>3, <1>4, <1>5, InvitingStep

\* A user has at most as many pending invitations to a room, written or about
\* to be, as there are simultaneous requests.
THEOREM InvitationBudgetHolds == Spec => []InvitationBudget
<1>1. Init => InvitationBudget
  <2> SUFFICES ASSUME Init, NEW r \in Rooms, NEW v \in Users PROVE Invitation(r, v)
    BY DEF InvitationBudget, Invitation
  <2>1. invites[r][v] = 0 /\ Inviting(r, v) = {}
    BY DEF Init, Inviting
  <2> QED
    BY <2>1, FS_EmptySet, RequestsFinite DEF Invitation
<1>2. TypeOK /\ InvitationBudget /\ [Next]_vars => InvitationBudget'
  BY InvitationNext DEF InvitationBudget, Invitation
<1> QED
  BY <1>1, <1>2, TypeCorrect, PTL DEF Spec

-----------------------------------------------------------------------------
(* Leaving.                                                                *)

\* Somebody is on the way to mark room r.
LeaverOf(r) == \E q \in Requests : where[q] = r /\ pc[q] \in {"countLeft", "markEmpty"}

\* The leaver of a deserted room stays one, finding zero rows at its count,
\* until the room is marked or the leaver dies.
LEMMA LeaverStep ==
    ASSUME TypeOK, [Next]_vars, NEW r \in Rooms, LeaverOf(r), Joined(r) = {},
           status'[r] = "Waiting"
    PROVE  r \in faulted' \/ LeaverOf(r)'
<1> PICK q \in Requests : where[q] = r /\ pc[q] \in {"countLeft", "markEmpty"}
  BY DEF LeaverOf
<1>1. CASE pc'[q] = pc[q] /\ where'[q] = where[q]
  BY <1>1 DEF LeaverOf
<1>2. CASE Abort(q)
  BY <1>2 DEF Abort
<1>3. CASE LeaveCount(q)
  BY <1>3 DEF LeaveCount, Goto, LeaverOf, TypeOK
<1>4. CASE LeaveMarkEmpty(q)
  BY <1>4 DEF LeaveMarkEmpty, TypeOK
<1>5. CASE UNCHANGED vars \/ ExpiredRooms
  BY <1>1, <1>5 DEF vars, request, ExpiredRooms
<1>6. ASSUME NEW x \in Requests, NEW u \in Users, NEW s \in Rooms, Call(x, u, s)
      PROVE  pc'[q] = pc[q] /\ where'[q] = where[q]
  BY <1>6 DEF Call, CreateRoom, JoinFind, LeaveFind, InviteAuthorise, Start, TypeOK
<1>7. ASSUME NEW x \in Requests, x # q, Step(x) \/ Abort(x)
      PROVE  pc'[q] = pc[q] /\ where'[q] = where[q]
  BY <1>7
     DEF Step, Abort, InsertHost, JoinCheckMember, JoinCount, JoinInsert, LeaveUpdate, LeaveCount,
         LeaveMarkEmpty, InviteCheckJoined, InviteCheckPending, InviteInsert, Goto, Return, TypeOK
<1>8. Step(q) => LeaveCount(q) \/ LeaveMarkEmpty(q)
  BY DEF Step, InsertHost, JoinCheckMember, JoinInsert, JoinCount, LeaveUpdate,
         InviteCheckJoined, InviteCheckPending, InviteInsert
<1> QED
  BY <1>1, <1>2, <1>3, <1>4, <1>5, <1>6, <1>7, <1>8 DEF Next

\* A room becomes deserted when its last member leaves, who then is on the
\* way to mark it, or when its creator dies before joining.
LEMMA DesertedStep ==
    ASSUME TypeOK, [Next]_vars, NEW r \in Rooms, ~Deserted(r), Deserted(r)'
    PROVE  r \in faulted' \/ LeaverOf(r)'
<1>1. ASSUME NEW q \in Requests, NEW u \in Users, NEW s \in Rooms, Call(q, u, s)
      PROVE  FALSE
  <2>1. ASSUME NEW m \in Capacities, CreateRoom(q, u, s, m) PROVE FALSE
    <3>1. BeingCreated(s)'
      BY <2>1 DEF CreateRoom, Start, BeingCreated, TypeOK
    <3>2. s # r
      BY <3>1 DEF Deserted
    <3>3. status'[r] = status[r] /\ Joined(r)' = Joined(r)
      BY <2>1, <3>2 DEF CreateRoom, Joined, TypeOK
    <3>4. BeingCreated(r) => BeingCreated(r)'
      BY <2>1 DEF CreateRoom, Start, BeingCreated, TypeOK
    <3> QED
      BY <3>3, <3>4 DEF Deserted
  <2>2. ASSUME UNCHANGED table, \E next \in Pc \ {"idle"}, v \in Users : Start(q, v, s, next)
        PROVE  FALSE
    BY <2>2 DEF Start, table, Deserted, Joined, BeingCreated, TypeOK
  <2> QED
    BY <1>1, <2>1, <2>2, InviteeAssumption
       DEF Call, JoinFind, LeaveFind, InviteAuthorise, Pc, JoinPc, LeavePc, InvitePc
<1>2. ASSUME NEW q \in Requests, InsertHost(q) \/ JoinInsert(q)
      PROVE  FALSE
  <2>1. /\ where[q] \in Rooms /\ who[q] \in Users /\ InsertJoined(where[q], who[q])
        /\ status' = status
    BY <1>2 DEF InsertHost, JoinInsert, TypeOK
  <2>2. where[q] # r /\ Joined(r)' = Joined(r)
    BY <2>1, JoinedGrows DEF Deserted
  <2>3. BeingCreated(r) => BeingCreated(r)'
    BY <1>2, <2>2 DEF InsertHost, JoinInsert, Return, BeingCreated, TypeOK
  <2> QED
    BY <2>1, <2>2, <2>3 DEF Deserted
<1>3. ASSUME NEW q \in Requests, LeaveUpdate(q)
      PROVE  LeaverOf(r)'
  <2>1. row[q] \in PartIds /\ part[row[q]].room = where[q] /\ pc[q] = "markLeft"
    BY <1>3 DEF LeaveUpdate, TypeOK
  <2>2. BeingCreated(r) => BeingCreated(r)'
    BY <1>3 DEF LeaveUpdate, Goto, BeingCreated, TypeOK
  <2>3. where[q] # r => Joined(r)' = Joined(r)
    <3>1. ASSUME where[q] # r, NEW x \in PartIds
          PROVE  x \in Joined(r)' <=> x \in Joined(r)
      <4>1. CASE x # row[q]
        BY <1>3, <4>1, <2>1 DEF LeaveUpdate, Joined, TypeOK
      <4>2. CASE x = row[q]
        BY <1>3, <3>1, <4>2, <2>1 DEF LeaveUpdate, Joined, TypeOK, ParticipantRow
      <4> QED
        BY <4>1, <4>2
    <3> QED
      BY <3>1, SubsetsOfIds
  <2>4. status' = status
    BY <1>3 DEF LeaveUpdate
  <2>5. where[q] = r
    BY <2>2, <2>3, <2>4 DEF Deserted
  <2> QED
    BY <1>3, <2>5 DEF LeaveUpdate, Goto, LeaverOf, TypeOK
<1>4. ASSUME NEW q \in Requests, Abort(q)
      PROVE  r \in faulted'
  <2>1. status' = status /\ Joined(r)' = Joined(r)
    BY <1>4 DEF Abort, table, Joined
  <2>2. BeingCreated(r) /\ ~BeingCreated(r)'
    BY <2>1 DEF Deserted
  <2>3. pc[q] = "insertHost" /\ where[q] = r
    BY <1>4, <2>2 DEF Abort, Return, BeingCreated, TypeOK
  <2> QED
    BY <1>4, <2>3 DEF Abort
<1>5. ASSUME NEW q \in Requests, UNCHANGED <<status, part>>, pc[q] # "insertHost",
             Return(q) \/ \E next \in Pc : Goto(q, next)
      PROVE  FALSE
  BY <1>5 DEF Return, Goto, Deserted, Joined, BeingCreated, TypeOK
<1>6. ASSUME NEW q \in Requests, LeaveMarkEmpty(q)
      PROVE  FALSE
  <2>1. status'[r] = "Waiting" => status[r] = "Waiting"
    BY <1>6 DEF LeaveMarkEmpty, TypeOK
  <2>2. Joined(r)' = Joined(r) /\ (BeingCreated(r) => BeingCreated(r)')
    BY <1>6 DEF LeaveMarkEmpty, Return, Joined, BeingCreated, TypeOK
  <2> QED
    BY <2>1, <2>2 DEF Deserted
<1>7. ASSUME ExpiredRooms \/ UNCHANGED vars
      PROVE  FALSE
  BY <1>7 DEF ExpiredRooms, vars, table, request, Deserted, Joined, BeingCreated, TypeOK
<1>8. ASSUME NEW q \in Requests, Step(q)
      PROVE  r \in faulted' \/ LeaverOf(r)'
  BY <1>8, <1>2, <1>3, <1>5, <1>6
     DEF Step, JoinCheckMember, JoinCount, LeaveCount, InviteCheckJoined, InviteCheckPending,
         InviteInsert, table, Pc, JoinPc, LeavePc, InvitePc
<1> QED
  BY <1>1, <1>4, <1>7, <1>8 DEF Next

\* A room that still accepts players and has nobody in it has a leaver on the
\* way to mark it, unless a handler died between its writes on that room.
THEOREM NoRoomAbandoned == Spec => []NoAbandonedRoom
<1>1. Init => NoAbandonedRoom
  BY DEF Init, NoAbandonedRoom, Deserted
<1>2. TypeOK /\ NoAbandonedRoom /\ [Next]_vars => NoAbandonedRoom'
  <2> SUFFICES ASSUME TypeOK, NoAbandonedRoom, [Next]_vars, NEW r \in Rooms, Deserted(r)'
               PROVE  r \in faulted' \/ LeaverOf(r)'
    BY DEF NoAbandonedRoom, LeaverOf
  <2>1. CASE ~Deserted(r)
    BY <2>1, DesertedStep
  <2>2. CASE Deserted(r) /\ LeaverOf(r)
    BY <2>2, LeaverStep DEF Deserted
  <2>3. CASE Deserted(r) /\ r \in faulted
    BY <2>3 DEF Next, Call, Step, CreateRoom, JoinFind, LeaveFind, InviteAuthorise, InsertHost,
                JoinCheckMember, JoinCount, JoinInsert, LeaveUpdate, LeaveCount, LeaveMarkEmpty,
                InviteCheckJoined, InviteCheckPending, InviteInsert, Abort, ExpiredRooms, vars
  <2> QED
    BY <2>1, <2>2, <2>3 DEF NoAbandonedRoom, LeaverOf
<1> QED
  BY <1>1, <1>2, TypeCorrect, PTL DEF Spec

\* The two ways to a row.
LEMMA InsertIs ==
    ASSUME TypeOK, NEW q \in Requests, InsertHost(q) \/ JoinInsert(q)
    PROVE  /\ where[q] \in Rooms /\ who[q] \in Users /\ InsertJoined(where[q], who[q])
           /\ pc[q] \in {"insertHost", "insertJoin"} /\ Return(q) /\ maxPlayers' = maxPlayers
           /\ invites' = invites
BY DEF InsertHost, JoinInsert, TypeOK

\* Into a room that was marked go only those who were on their way before.
LEMMA EnteringStep ==
    ASSUME TypeOK, [Next]_vars, NEW r \in Rooms, status[r] \in {"Empty", "Closed"}
    PROVE  Entering(r)' \subseteq Entering(r)
<1>1. ASSUME NEW q \in Requests, NEW u \in Users, NEW s \in Rooms, Call(q, u, s)
      PROVE  Entering(r)' \subseteq Entering(r)
  <2>1. /\ pc' = [pc EXCEPT ![q] = pc'[q]] /\ where' = [where EXCEPT ![q] = s]
        /\ pc'[q] \in {"insertHost"} \cup JoinPc => s # r
    BY <1>1 DEF Call, CreateRoom, JoinFind, LeaveFind, InviteAuthorise, Start, TypeOK, JoinPc
  <2> QED
    BY <2>1 DEF Entering, TypeOK
<1>2. ASSUME NEW q \in Requests, Return(q)
      PROVE  Entering(r)' \subseteq Entering(r)
  BY <1>2, NoneAssumption DEF Return, Entering, TypeOK
<1>3. ASSUME NEW q \in Requests, NEW next \in Pc, Goto(q, next),
             next \in {"insertHost"} \cup JoinPc => pc[q] \in JoinPc
      PROVE  Entering(r)' \subseteq Entering(r)
  BY <1>3 DEF Goto, Entering, TypeOK
<1>4. ASSUME NEW q \in Requests, Step(q) \/ Abort(q)
      PROVE  Entering(r)' \subseteq Entering(r)
  BY <1>4, <1>2, <1>3
     DEF Step, Abort, InsertHost, JoinCheckMember, JoinCount, JoinInsert, LeaveUpdate, LeaveCount,
         LeaveMarkEmpty, InviteCheckJoined, InviteCheckPending, InviteInsert, Pc, JoinPc, LeavePc,
         InvitePc
<1>5. CASE ExpiredRooms \/ UNCHANGED vars
  BY <1>5 DEF ExpiredRooms, vars, request, Entering
<1> QED
  BY <1>1, <1>4, <1>5 DEF Next

LEMMA MarkedStays ==
    ASSUME TypeOK, [Next]_vars, NEW r \in Rooms, status[r] \in {"Empty", "Closed"}
    PROVE  status'[r] \in {"Empty", "Closed"}
<1>1. CASE status' = status
  BY <1>1
<1>2. ASSUME NEW q \in Requests, NEW u \in Users, NEW s \in Rooms, NEW m \in Capacities,
             CreateRoom(q, u, s, m)
      PROVE  status'[r] \in {"Empty", "Closed"}
  BY <1>2 DEF CreateRoom, TypeOK
<1>3. ASSUME NEW q \in Requests, LeaveMarkEmpty(q)
      PROVE  status'[r] \in {"Empty", "Closed"}
  BY <1>3 DEF LeaveMarkEmpty, TypeOK
<1>4. CASE ExpiredRooms
  BY <1>4 DEF ExpiredRooms
<1>5. CASE UNCHANGED vars
  BY <1>1, <1>5 DEF vars, table
<1> QED
  BY <1>1, <1>2, <1>3, <1>4, <1>5
     DEF Next, Call, Step, JoinFind, LeaveFind, InviteAuthorise, InsertHost, JoinCheckMember,
         JoinCount, JoinInsert, LeaveUpdate, LeaveCount, InviteCheckJoined, InviteCheckPending,
         InviteInsert, Abort, table

\* A room that was marked only empties: it is never opened again, and members
\* and those on their way in, together, never get more.
THEOREM MarkedRoomsDrain == Spec => EmptyRoomOnlyDrains
<1>1. ASSUME TypeOK, [Next]_vars, NEW r \in Rooms, status[r] \in {"Empty", "Closed"}
      PROVE  /\ status'[r] \in {"Empty", "Closed"}
             /\ Cardinality(Joined(r)') + Cardinality(Entering(r)')
                   <= Cardinality(Joined(r)) + Cardinality(Entering(r))
  <2>1. status'[r] \in {"Empty", "Closed"}
    BY <1>1, MarkedStays
  <2>2. /\ Joined(r) \in SUBSET PartIds /\ Entering(r) \in SUBSET Requests
        /\ Entering(r)' \in SUBSET Entering(r)
    BY <1>1, EnteringStep DEF Joined, Entering
  <2>3. ASSUME NEW q \in Requests, InsertHost(q) \/ JoinInsert(q), where[q] = r
        PROVE  Cardinality(Joined(r)') + Cardinality(Entering(r)')
                  <= Cardinality(Joined(r)) + Cardinality(Entering(r))
    <3>1. /\ who[q] \in Users /\ InsertJoined(r, who[q]) /\ Return(q)
          /\ pc[q] \in {"insertHost", "insertJoin"}
      BY <1>1, <2>3, InsertIs
    <3>2. q \in Entering(r) /\ Entering(r)' \in SUBSET (Entering(r) \ {q})
      BY <1>1, <2>2, <2>3, <3>1 DEF Entering, Return, JoinPc, TypeOK
    <3>3. \E p \in PartIds : Joined(r)' = Joined(r) \cup {p}
      BY <1>1, <3>1, JoinedGrows
    <3>4. PICK p \in PartIds : Joined(r)' = Joined(r) \cup {p}
      BY <3>3
    <3>5. Cardinality(Joined(r) \cup {p}) + Cardinality(Entering(r) \ {q})
             <= Cardinality(Joined(r)) + Cardinality(Entering(r))
      BY <2>2, <3>2, SumMoves
    <3>6. Cardinality(Entering(r)') <= Cardinality(Entering(r) \ {q})
      BY <2>2, <3>2, SlotsFinite, FS_Subset
    <3>7. /\ Cardinality(Entering(r)') \in Nat /\ Cardinality(Entering(r) \ {q}) \in Nat
          /\ Cardinality(Entering(r)) \in Nat /\ Cardinality(Joined(r)) \in Nat
          /\ Cardinality(Joined(r) \cup {p}) \in Nat
      BY <2>2, RowsFinite, SlotsFinite
    <3> QED
      BY <3>4, <3>5, <3>6, <3>7
  <2>4. ASSUME NEW q \in Requests, InsertHost(q) \/ JoinInsert(q), where[q] # r
        PROVE  Joined(r)' \in SUBSET Joined(r)
    BY <1>1, <2>4, InsertIs, JoinedGrows
  <2>5. ASSUME \A q \in Requests : ~InsertHost(q) /\ ~JoinInsert(q)
        PROVE  Joined(r)' \in SUBSET Joined(r)
    BY <1>1, <2>5, JoinedShrinks
  <2>6. ASSUME Joined(r)' \in SUBSET Joined(r)
        PROVE  Cardinality(Joined(r)') + Cardinality(Entering(r)')
                  <= Cardinality(Joined(r)) + Cardinality(Entering(r))
    BY <2>2, <2>6, SumShrinks
  <2> QED
    BY <2>1, <2>3, <2>4, <2>5, <2>6
<1>2. TypeOK /\ [Next]_vars
        => [\A r \in Rooms : status[r] \in {"Empty", "Closed"} =>
              /\ status'[r] \in {"Empty", "Closed"}
              /\ Cardinality(Joined(r)') + Cardinality(Entering(r)')
                    <= Cardinality(Joined(r)) + Cardinality(Entering(r))]_vars
  BY <1>1
<1> QED
  BY <1>2, TypeCorrect, PTL DEF Spec, EmptyRoomOnlyDrains

-----------------------------------------------------------------------------
(* Rooms implement CheckThenInsert.                                        *)

\* What a step may do to the seats of a room: nothing or free some, admit a
\* request that has counted a free one, turn a promise into a row or drop it,
\* or create the room.
SeatsRest(r) == maxPlayers'[r] = maxPlayers[r] /\ Admitted(r)' = Admitted(r) /\ Joined(r)' \subseteq Joined(r)
SeatPromised(r, q) ==
    /\ maxPlayers'[r] = maxPlayers[r] /\ Joined(r)' = Joined(r)
    /\ q \notin Admitted(r) /\ Admitted(r)' = Admitted(r) \cup {q}
    /\ Cardinality(Joined(r)) < maxPlayers[r]
SeatSettled(r, q) ==
    /\ maxPlayers'[r] = maxPlayers[r]
    /\ q \in Admitted(r) /\ Admitted(r)' = Admitted(r) \ {q}
    /\ \/ Joined(r)' = Joined(r)
       \/ \E p \in PartIds : p \notin Joined(r) /\ Joined(r)' = Joined(r) \cup {p}
RoomOpened(r, q) ==
    Admitted(r) = {} /\ Joined(r) = {} /\ Joined(r)' = {} /\ Admitted(r)' = {q}

LEMMA SeatMoves ==
    ASSUME TypeOK, [Next]_vars, NEW r \in Rooms
    PROVE  SeatsRest(r) \/ \E q \in Requests : SeatPromised(r, q) \/ SeatSettled(r, q) \/ RoomOpened(r, q)
<1>1. CASE UNCHANGED vars \/ ExpiredRooms
  BY <1>1 DEF vars, ExpiredRooms, request, table, SeatsRest, Admitted, Joined
<1>2. ASSUME NEW q \in Requests, NEW u \in Users, NEW s \in Rooms, NEW m \in Capacities,
             CreateRoom(q, u, s, m)
      PROVE  SeatsRest(r) \/ RoomOpened(r, q)
  <2>1. /\ pc[q] = "idle" /\ pc' = [pc EXCEPT ![q] = "insertHost"]
        /\ where' = [where EXCEPT ![q] = s] /\ maxPlayers' = [maxPlayers EXCEPT ![s] = m]
        /\ part' = part /\ status[s] = "None"
    BY <1>2 DEF CreateRoom, Start
  <2>2. Joined(r)' = Joined(r)
    BY <2>1 DEF Joined
  <2>3. CASE s = r
    <3>1. Joined(r) = {} /\ Admitted(r) = {}
      BY <2>1, <2>3 DEF TypeOK, Joined, Admitted
    <3>2. Admitted(r)' = {q}
      BY <2>1, <2>3, <3>1 DEF TypeOK, Admitted
    <3> QED
      BY <2>2, <3>1, <3>2 DEF RoomOpened
  <2>4. CASE s # r
    <3>1. Admitted(r)' = Admitted(r)
      BY <2>1, <2>4 DEF TypeOK, Admitted
    <3> QED
      BY <2>1, <2>2, <2>4, <3>1 DEF SeatsRest, TypeOK
  <2> QED
    BY <2>3, <2>4
<1>3. ASSUME NEW q \in Requests, NEW u \in Users, NEW s \in Rooms,
             \/ JoinFind(q, u, s) \/ LeaveFind(q, u, s)
             \/ \E v \in Invitees : InviteAuthorise(q, u, s, v)
      PROVE  SeatsRest(r)
  <2>1. /\ pc[q] = "idle" /\ part' = part /\ maxPlayers' = maxPlayers
        /\ \E next \in Pc \ {"insertHost", "insertJoin"} : pc' = [pc EXCEPT ![q] = next]
        /\ \A x \in Requests \ {q} : where'[x] = where[x]
    BY <1>3 DEF JoinFind, LeaveFind, InviteAuthorise, Start, table, Pc, JoinPc, LeavePc, InvitePc, TypeOK
  <2> QED
    BY <2>1 DEF SeatsRest, Admitted, Joined, TypeOK
<1>4. ASSUME NEW q \in Requests, InsertHost(q) \/ JoinInsert(q)
      PROVE  SeatsRest(r) \/ SeatSettled(r, q)
  <2>1. /\ where[q] \in Rooms /\ who[q] \in Users /\ InsertJoined(where[q], who[q])
        /\ pc[q] \in {"insertHost", "insertJoin"} /\ Return(q) /\ maxPlayers' = maxPlayers
    BY <1>4, InsertIs
  <2>2. CASE where[q] = r
    <3>1. q \in Admitted(r) /\ Admitted(r)' = Admitted(r) \ {q}
      BY <2>1, <2>2 DEF Admitted, Return, TypeOK
    <3> QED
      BY <2>1, <2>2, <3>1, JoinedGrows DEF SeatSettled
  <2>3. CASE where[q] # r
    <3>1. Admitted(r)' = Admitted(r)
      BY <2>1, <2>3, NoneAssumption DEF Admitted, Return, TypeOK
    <3> QED
      BY <2>1, <2>3, <3>1, JoinedGrows DEF SeatsRest
  <2> QED
    BY <2>2, <2>3
<1>5. ASSUME NEW q \in Requests, LeaveUpdate(q)
      PROVE  SeatsRest(r)
  <2>1. Admitted(r)' = Admitted(r) /\ maxPlayers' = maxPlayers
    BY <1>5 DEF LeaveUpdate, Goto, Admitted, TypeOK
  <2>2. \A x \in Requests : ~InsertHost(x) /\ ~JoinInsert(x)
    BY <1>5 DEF LeaveUpdate, Goto, InsertHost, JoinInsert, Return, TypeOK
  <2> QED
    BY <2>1, <2>2, JoinedShrinks DEF SeatsRest
<1>6. ASSUME NEW q \in Requests, JoinCount(q)
      PROVE  SeatsRest(r) \/ SeatPromised(r, q)
  <2>1. pc[q] = "countJoined" /\ maxPlayers' = maxPlayers /\ Joined(r)' = Joined(r)
    BY <1>6 DEF JoinCount, table, Joined
  <2>2. CASE Return(q)
    BY <2>1, <2>2 DEF Return, SeatsRest, Admitted, TypeOK
  <2>3. CASE Goto(q, "insertJoin") /\ Cardinality(Joined(where[q])) < maxPlayers[where[q]]
    <3>1. /\ pc' = [pc EXCEPT ![q] = "insertJoin"] /\ where' = where
      BY <2>3 DEF Goto
    <3>2. CASE where[q] = r
      BY <2>1, <2>3, <3>1, <3>2 DEF SeatPromised, Admitted, TypeOK
    <3>3. CASE where[q] # r
      BY <2>1, <3>1, <3>3 DEF SeatsRest, Admitted, TypeOK
    <3> QED
      BY <3>2, <3>3
  <2> QED
    BY <1>6, <2>2, <2>3 DEF JoinCount
<1>7. ASSUME NEW q \in Requests,
             \/ JoinCheckMember(q) \/ LeaveCount(q) \/ LeaveMarkEmpty(q)
             \/ InviteCheckJoined(q) \/ InviteCheckPending(q) \/ InviteInsert(q)
      PROVE  SeatsRest(r)
  <2>1. /\ pc[q] \notin {"insertHost", "insertJoin"} /\ maxPlayers' = maxPlayers /\ part' = part
        /\ Return(q) \/ \E next \in Pc \ {"insertHost", "insertJoin"} : Goto(q, next)
    BY <1>7 DEF JoinCheckMember, LeaveCount, LeaveMarkEmpty, InviteCheckJoined, InviteCheckPending,
                InviteInsert, table, Pc, JoinPc, LeavePc, InvitePc
  <2> QED
    BY <2>1 DEF Return, Goto, SeatsRest, Admitted, Joined, TypeOK
<1>8. ASSUME NEW q \in Requests, Abort(q)
      PROVE  SeatsRest(r) \/ SeatSettled(r, q)
  <2>1. Return(q) /\ maxPlayers' = maxPlayers /\ Joined(r)' = Joined(r)
    BY <1>8 DEF Abort, table, Joined
  <2>2. Admitted(r)' = Admitted(r) \ {q}
    BY <2>1 DEF Return, Admitted, TypeOK
  <2> QED
    BY <2>1, <2>2 DEF SeatsRest, SeatSettled
<1> QED
  BY <1>1, <1>2, <1>3, <1>4, <1>5, <1>6, <1>7, <1>8 DEF Next, Call, Step

\* The same for the rows of a user in a room.
MemberRest(r, u) == Joining(r, u)' = Joining(r, u) /\ JoinedAs(r, u)' \subseteq JoinedAs(r, u)
MemberPromised(r, u, q) ==
    /\ q \notin Joining(r, u) /\ Joining(r, u)' = Joining(r, u) \cup {q}
    /\ JoinedAs(r, u) = {} /\ JoinedAs(r, u)' = {}
MemberSettled(r, u, q) ==
    /\ q \in Joining(r, u) /\ Joining(r, u)' = Joining(r, u) \ {q}
    /\ \/ JoinedAs(r, u)' = JoinedAs(r, u)
       \/ \E p \in PartIds : p \notin JoinedAs(r, u) /\ JoinedAs(r, u)' = JoinedAs(r, u) \cup {p}

LEMMA MemberMoves ==
    ASSUME TypeOK, [Next]_vars, NEW r \in Rooms, NEW u \in Users
    PROVE  MemberRest(r, u) \/ \E q \in Requests : MemberPromised(r, u, q) \/ MemberSettled(r, u, q)
<1>1. CASE UNCHANGED vars \/ ExpiredRooms
  BY <1>1 DEF vars, ExpiredRooms, request, table, MemberRest, Joining, JoinedAs, Joined
<1>2. ASSUME NEW q \in Requests, NEW v \in Users, NEW s \in Rooms, NEW m \in Capacities,
             CreateRoom(q, v, s, m)
      PROVE  MemberRest(r, u) \/ MemberPromised(r, u, q)
  <2>1. /\ pc[q] = "idle" /\ pc' = [pc EXCEPT ![q] = "insertHost"]
        /\ where' = [where EXCEPT ![q] = s] /\ who' = [who EXCEPT ![q] = v]
        /\ part' = part /\ status[s] = "None"
    BY <1>2 DEF CreateRoom, Start
  <2>2. JoinedAs(r, u)' = JoinedAs(r, u)
    BY <2>1 DEF JoinedAs, Joined
  <2>3. CASE s = r /\ v = u
    <3>1. JoinedAs(r, u) = {}
      BY <2>1, <2>3 DEF TypeOK, JoinedAs, Joined
    <3>2. q \notin Joining(r, u) /\ Joining(r, u)' = Joining(r, u) \cup {q}
      BY <2>1, <2>3 DEF TypeOK, Joining
    <3> QED
      BY <2>2, <3>1, <3>2 DEF MemberPromised
  <2>4. CASE s # r \/ v # u
    <3>1. Joining(r, u)' = Joining(r, u)
      BY <2>1, <2>4 DEF TypeOK, Joining
    <3> QED
      BY <2>2, <3>1 DEF MemberRest
  <2> QED
    BY <2>3, <2>4
<1>3. ASSUME NEW q \in Requests, NEW v \in Users, NEW s \in Rooms,
             \/ JoinFind(q, v, s) \/ LeaveFind(q, v, s)
             \/ \E w \in Invitees : InviteAuthorise(q, v, s, w)
      PROVE  MemberRest(r, u)
  <2>1. /\ pc[q] = "idle" /\ part' = part
        /\ \E next \in Pc \ {"insertHost", "countJoined", "insertJoin"} : pc' = [pc EXCEPT ![q] = next]
        /\ \A x \in Requests \ {q} : where'[x] = where[x] /\ who'[x] = who[x]
    BY <1>3 DEF JoinFind, LeaveFind, InviteAuthorise, Start, table, Pc, JoinPc, LeavePc, InvitePc, TypeOK
  <2> QED
    BY <2>1 DEF MemberRest, Joining, JoinedAs, Joined, TypeOK
<1>4. ASSUME NEW q \in Requests, InsertHost(q) \/ JoinInsert(q)
      PROVE  MemberRest(r, u) \/ MemberSettled(r, u, q)
  <2>1. /\ where[q] \in Rooms /\ who[q] \in Users /\ InsertJoined(where[q], who[q])
        /\ pc[q] \in {"insertHost", "insertJoin"} /\ Return(q)
    BY <1>4, InsertIs
  <2>2. CASE where[q] = r /\ who[q] = u
    <3>1. q \in Joining(r, u) /\ Joining(r, u)' = Joining(r, u) \ {q}
      BY <2>1, <2>2 DEF Joining, Return, TypeOK
    <3>2. PICK p \in PartIds : p \notin Joined(r) /\ JoinedAs(r, u)' = JoinedAs(r, u) \cup {p}
      BY <2>1, <2>2, JoinedGrows
    <3>3. p \notin JoinedAs(r, u)
      BY <3>2 DEF JoinedAs
    <3> QED
      BY <3>1, <3>2, <3>3 DEF MemberSettled
  <2>3. CASE where[q] # r \/ who[q] # u
    <3>1. Joining(r, u)' = Joining(r, u)
      BY <2>1, <2>3, NoneAssumption DEF Joining, Return, TypeOK
    <3> QED
      BY <2>1, <2>3, <3>1, JoinedGrows DEF MemberRest
  <2> QED
    BY <2>2, <2>3
<1>5. ASSUME NEW q \in Requests, LeaveUpdate(q)
      PROVE  MemberRest(r, u)
  <2>1. Joining(r, u)' = Joining(r, u)
    BY <1>5 DEF LeaveUpdate, Goto, Joining, TypeOK
  <2>2. \A x \in Requests : ~InsertHost(x) /\ ~JoinInsert(x)
    BY <1>5 DEF LeaveUpdate, Goto, InsertHost, JoinInsert, Return, TypeOK
  <2> QED
    BY <2>1, <2>2, JoinedShrinks DEF MemberRest
<1>6. ASSUME NEW q \in Requests, JoinCheckMember(q)
      PROVE  MemberRest(r, u) \/ MemberPromised(r, u, q)
  <2>1. pc[q] = "checkMember" /\ JoinedAs(r, u)' = JoinedAs(r, u)
    BY <1>6 DEF JoinCheckMember, table, JoinedAs, Joined
  <2>2. CASE Return(q)
    BY <2>1, <2>2 DEF Return, MemberRest, Joining, TypeOK
  <2>3. CASE Goto(q, "countJoined") /\ JoinedAs(where[q], who[q]) = {}
    <3>1. /\ pc' = [pc EXCEPT ![q] = "countJoined"] /\ where' = where /\ who' = who
      BY <2>3 DEF Goto
    <3>2. CASE where[q] = r /\ who[q] = u
      BY <2>1, <2>3, <3>1, <3>2 DEF MemberPromised, Joining, TypeOK
    <3>3. CASE where[q] # r \/ who[q] # u
      BY <2>1, <3>1, <3>3 DEF MemberRest, Joining, TypeOK
    <3> QED
      BY <3>2, <3>3
  <2> QED
    BY <1>6, <2>2, <2>3 DEF JoinCheckMember
<1>7. ASSUME NEW q \in Requests,
             \/ LeaveCount(q) \/ LeaveMarkEmpty(q)
             \/ InviteCheckJoined(q) \/ InviteCheckPending(q) \/ InviteInsert(q)
      PROVE  MemberRest(r, u)
  <2>1. /\ pc[q] \notin {"insertHost", "countJoined", "insertJoin"} /\ part' = part
        /\ Return(q) \/ \E next \in Pc \ {"insertHost", "countJoined", "insertJoin"} : Goto(q, next)
    BY <1>7 DEF LeaveCount, LeaveMarkEmpty, InviteCheckJoined, InviteCheckPending,
                InviteInsert, table, Pc, JoinPc, LeavePc, InvitePc
  <2> QED
    BY <2>1 DEF Return, Goto, MemberRest, Joining, JoinedAs, Joined, TypeOK
<1>8. ASSUME NEW q \in Requests, Abort(q) \/ JoinCount(q)
      PROVE  MemberRest(r, u) \/ MemberSettled(r, u, q)
  <2>1. JoinedAs(r, u)' = JoinedAs(r, u)
    BY <1>8 DEF Abort, JoinCount, table, Joined, JoinedAs
  <2>2. CASE Return(q)
    <3>1. Joining(r, u)' = Joining(r, u) \ {q}
      BY <2>2 DEF Return, Joining, TypeOK
    <3> QED
      BY <2>1, <3>1 DEF MemberRest, MemberSettled
  <2>3. CASE pc[q] = "countJoined" /\ Goto(q, "insertJoin")
    <3>1. Joining(r, u)' = Joining(r, u)
      BY <2>3 DEF Goto, Joining, TypeOK
    <3> QED
      BY <2>1, <3>1 DEF MemberRest
  <2> QED
    BY <1>8, <2>2, <2>3 DEF Abort, JoinCount
<1> QED
  BY <1>1, <1>2, <1>3, <1>4, <1>5, <1>6, <1>7, <1>8 DEF Next, Call, Step

\* And for the invitations of a user to a room.
InvitationRest(r, v) == Inviting(r, v)' = Inviting(r, v) /\ invites'[r][v] = invites[r][v]
InvitationPromised(r, v, q) ==
    /\ q \notin Inviting(r, v) /\ Inviting(r, v)' = Inviting(r, v) \cup {q}
    /\ invites[r][v] = 0 /\ invites'[r][v] = 0
InvitationSettled(r, v, q) ==
    /\ q \in Inviting(r, v) /\ Inviting(r, v)' = Inviting(r, v) \ {q}
    /\ invites'[r][v] \in {invites[r][v], invites[r][v] + 1}

LEMMA InvitationMoves ==
    ASSUME TypeOK, [Next]_vars, NEW r \in Rooms, NEW v \in Users
    PROVE  \/ InvitationRest(r, v)
           \/ \E q \in Requests : InvitationPromised(r, v, q) \/ InvitationSettled(r, v, q)
<1>1. CASE UNCHANGED vars \/ ExpiredRooms
  BY <1>1 DEF vars, ExpiredRooms, request, table, InvitationRest, Inviting
<1>2. ASSUME NEW q \in Requests, NEW u \in Users, NEW s \in Rooms, Call(q, u, s)
      PROVE  InvitationRest(r, v)
  <2>1. /\ pc[q] = "idle" /\ invites' = invites
        /\ \E next \in Pc \ {"insertInvite"} : pc' = [pc EXCEPT ![q] = next]
        /\ \A x \in Requests \ {q} : where'[x] = where[x] /\ who'[x] = who[x]
    BY <1>2 DEF Call, CreateRoom, JoinFind, LeaveFind, InviteAuthorise, Start, table,
                Pc, JoinPc, LeavePc, InvitePc, TypeOK
  <2> QED
    BY <2>1 DEF InvitationRest, Inviting, TypeOK
<1>3. ASSUME NEW q \in Requests, InviteInsert(q)
      PROVE  InvitationRest(r, v) \/ InvitationSettled(r, v, q)
  <2>1. /\ where[q] \in Rooms /\ who[q] \in Users /\ pc[q] = "insertInvite" /\ Return(q)
        /\ invites' = [invites EXCEPT ![where[q]][who[q]] = @ + 1]
    BY <1>3 DEF InviteInsert, TypeOK
  <2>2. Inviting(r, v)' = Inviting(r, v) \ {q}
    BY <2>1 DEF Return, Inviting, TypeOK
  <2>3. CASE where[q] = r /\ who[q] = v
    <3>1. q \in Inviting(r, v)
      BY <2>1, <2>3 DEF Inviting
    <3>2. invites'[r][v] = invites[r][v] + 1
      BY <2>1, <2>3 DEF TypeOK
    <3> QED
      BY <2>2, <3>1, <3>2 DEF InvitationSettled
  <2>4. CASE ~(where[q] = r /\ who[q] = v)
    <3>1. invites'[r][v] = invites[r][v]
      BY <2>1, <2>4 DEF TypeOK
    <3>2. q \notin Inviting(r, v)
      BY <2>4 DEF Inviting
    <3> QED
      BY <2>2, <3>1, <3>2 DEF InvitationRest
  <2> QED
    BY <2>3, <2>4
<1>4. ASSUME NEW q \in Requests, InviteCheckPending(q)
      PROVE  InvitationRest(r, v) \/ InvitationPromised(r, v, q)
  <2>1. pc[q] = "checkPending" /\ invites' = invites
    BY <1>4 DEF InviteCheckPending, table
  <2>2. CASE Return(q)
    BY <2>1, <2>2 DEF Return, InvitationRest, Inviting, TypeOK
  <2>3. CASE Goto(q, "insertInvite") /\ invites[where[q]][who[q]] = 0
    <3>1. pc' = [pc EXCEPT ![q] = "insertInvite"] /\ where' = where /\ who' = who
      BY <2>3 DEF Goto
    <3>2. CASE where[q] = r /\ who[q] = v
      BY <2>1, <2>3, <3>1, <3>2 DEF InvitationPromised, Inviting, TypeOK
    <3>3. CASE where[q] # r \/ who[q] # v
      BY <2>1, <3>1, <3>3 DEF InvitationRest, Inviting, TypeOK
    <3> QED
      BY <3>2, <3>3
  <2> QED
    BY <1>4, <2>2, <2>3 DEF InviteCheckPending
<1>5. ASSUME NEW q \in Requests, Step(q), ~InviteInsert(q), ~InviteCheckPending(q)
      PROVE  InvitationRest(r, v)
  <2>1. /\ invites' = invites /\ pc[q] # "insertInvite"
        /\ Return(q) \/ \E next \in Pc \ {"insertInvite"} : Goto(q, next)
    BY <1>5 DEF Step, InsertHost, JoinCheckMember, JoinCount, JoinInsert, LeaveUpdate,
                LeaveCount, LeaveMarkEmpty, InviteCheckJoined, table, Pc, JoinPc, LeavePc, InvitePc
  <2> QED
    BY <2>1 DEF Return, Goto, InvitationRest, Inviting, TypeOK
<1>6. ASSUME NEW q \in Requests, Abort(q)
      PROVE  InvitationRest(r, v) \/ InvitationSettled(r, v, q)
  <2>1. Return(q) /\ invites' = invites
    BY <1>6 DEF Abort, table
  <2>2. Inviting(r, v)' = Inviting(r, v) \ {q}
    BY <2>1 DEF Return, Inviting, TypeOK
  <2> QED
    BY <2>1, <2>2 DEF InvitationRest, InvitationSettled
<1> QED
  BY <1>1, <1>2, <1>3, <1>4, <1>5, <1>6 DEF Next

\* The keys.
LEMMA CheckedIs ==
    /\ \A r \in Rooms, m \in Capacities :
          /\ <<"seat", r, m>> \in CheckedKeys /\ LimitOf(<<"seat", r, m>>) = m
          /\ RowsOf(<<"seat", r, m>>) = IF maxPlayers[r] = m THEN Cardinality(Joined(r)) ELSE 0
          /\ RowsOf(<<"seat", r, m>>)' = IF maxPlayers'[r] = m THEN Cardinality(Joined(r)') ELSE 0
          /\ HoldersOf(<<"seat", r, m>>) = IF maxPlayers[r] = m THEN Admitted(r) ELSE {}
          /\ HoldersOf(<<"seat", r, m>>)' = IF maxPlayers'[r] = m THEN Admitted(r)' ELSE {}
    /\ \A r \in Rooms, u \in Users :
          /\ <<"member", r, u>> \in CheckedKeys /\ LimitOf(<<"member", r, u>>) = 1
          /\ RowsOf(<<"member", r, u>>) = Cardinality(JoinedAs(r, u))
          /\ RowsOf(<<"member", r, u>>)' = Cardinality(JoinedAs(r, u)')
          /\ HoldersOf(<<"member", r, u>>) = Joining(r, u)
          /\ HoldersOf(<<"member", r, u>>)' = Joining(r, u)'
          /\ <<"invitation", r, u>> \in CheckedKeys /\ LimitOf(<<"invitation", r, u>>) = 1
          /\ RowsOf(<<"invitation", r, u>>) = invites[r][u]
          /\ RowsOf(<<"invitation", r, u>>)' = invites'[r][u]
          /\ HoldersOf(<<"invitation", r, u>>) = Inviting(r, u)
          /\ HoldersOf(<<"invitation", r, u>>)' = Inviting(r, u)'
<1>1. ASSUME NEW r \in Rooms, NEW m \in Capacities
      PROVE  /\ <<"seat", r, m>> \in CheckedKeys /\ LimitOf(<<"seat", r, m>>) = m
             /\ RowsOf(<<"seat", r, m>>) = IF maxPlayers[r] = m THEN Cardinality(Joined(r)) ELSE 0
             /\ RowsOf(<<"seat", r, m>>)' = IF maxPlayers'[r] = m THEN Cardinality(Joined(r)') ELSE 0
             /\ HoldersOf(<<"seat", r, m>>) = IF maxPlayers[r] = m THEN Admitted(r) ELSE {}
             /\ HoldersOf(<<"seat", r, m>>)' = IF maxPlayers'[r] = m THEN Admitted(r)' ELSE {}
  BY DEF CheckedKeys, LimitOf, RowsOf, HoldersOf
<1>2. ASSUME NEW r \in Rooms, NEW u \in Users
      PROVE  /\ <<"member", r, u>> \in CheckedKeys /\ LimitOf(<<"member", r, u>>) = 1
             /\ RowsOf(<<"member", r, u>>) = Cardinality(JoinedAs(r, u))
             /\ RowsOf(<<"member", r, u>>)' = Cardinality(JoinedAs(r, u)')
             /\ HoldersOf(<<"member", r, u>>) = Joining(r, u)
             /\ HoldersOf(<<"member", r, u>>)' = Joining(r, u)'
  BY DEF CheckedKeys, LimitOf, RowsOf, HoldersOf
<1>3. ASSUME NEW r \in Rooms, NEW u \in Users
      PROVE  /\ <<"invitation", r, u>> \in CheckedKeys /\ LimitOf(<<"invitation", r, u>>) = 1
             /\ RowsOf(<<"invitation", r, u>>) = invites[r][u]
             /\ RowsOf(<<"invitation", r, u>>)' = invites'[r][u]
             /\ HoldersOf(<<"invitation", r, u>>) = Inviting(r, u)
             /\ HoldersOf(<<"invitation", r, u>>)' = Inviting(r, u)'
  BY DEF CheckedKeys, LimitOf, RowsOf, HoldersOf
<1> QED
  BY <1>1, <1>2, <1>3

LEMMA CheckedKinds ==
    ASSUME NEW k \in CheckedKeys
    PROVE  \/ \E r \in Rooms, m \in Capacities : k = <<"seat", r, m>>
           \/ \E r \in Rooms, u \in Users : k = <<"member", r, u>> \/ k = <<"invitation", r, u>>
BY DEF CheckedKeys

\* A step of one key, as CheckThenInsert has it.
LEMMA CheckPass ==
    ASSUME NEW k \in CheckedKeys, NEW q \in Requests,
           q \notin HoldersOf(k), HoldersOf(k)' = HoldersOf(k) \cup {q},
           RowsOf(k)' \in Nat, RowsOf(k)' <= RowsOf(k), RowsOf(k)' < LimitOf(k), LimitOf(k) \in Nat
    PROVE  Checks!KeyStep(k)
<1>1. RowsOf(k)' \in 0 .. LimitOf(k) - 1
  OBVIOUS
<1>2. Checks!Pass(k, q)
  BY <1>1 DEF Checks!Pass
<1> QED
  BY <1>2 DEF Checks!KeyStep

LEMMA CheckLeave ==
    ASSUME NEW k \in CheckedKeys, NEW q \in Requests,
           q \in HoldersOf(k), HoldersOf(k)' = HoldersOf(k) \ {q},
           RowsOf(k)' \in {RowsOf(k), RowsOf(k) + 1}
    PROVE  Checks!KeyStep(k)
<1>1. Checks!Leave(k, q)
  BY DEF Checks!Leave
<1> QED
  BY <1>1 DEF Checks!KeyStep

LEMMA CheckRemove ==
    ASSUME NEW k \in CheckedKeys, HoldersOf(k)' = HoldersOf(k),
           RowsOf(k)' \in Nat, RowsOf(k) \in Nat, RowsOf(k)' <= RowsOf(k)
    PROVE  Checks!KeyStep(k)
<1>1. RowsOf(k)' \in 0 .. RowsOf(k)
  OBVIOUS
<1>2. Checks!Remove(k)
  BY <1>1 DEF Checks!Remove
<1> QED
  BY <1>2 DEF Checks!KeyStep

\* What may happen to the seats of a room.
LEMMA SeatKeys ==
    ASSUME TypeOK, TypeOK', [Next]_vars, NEW r \in Rooms, NEW m \in Capacities
    PROVE  Checks!KeyStep(<<"seat", r, m>>)
<1> DEFINE k == <<"seat", r, m>>
<1>1. /\ k \in CheckedKeys /\ LimitOf(k) = m
      /\ RowsOf(k) = IF maxPlayers[r] = m THEN Cardinality(Joined(r)) ELSE 0
      /\ RowsOf(k)' = IF maxPlayers'[r] = m THEN Cardinality(Joined(r)') ELSE 0
      /\ HoldersOf(k) = IF maxPlayers[r] = m THEN Admitted(r) ELSE {}
      /\ HoldersOf(k)' = IF maxPlayers'[r] = m THEN Admitted(r)' ELSE {}
  BY CheckedIs
<1> HIDE DEF k
<1>2. m \in Nat /\ m >= 3
  BY CapacityIsNat
<1>3. IsFiniteSet(Joined(r)) /\ Cardinality(Joined(r)) \in Nat
  <2>1. Joined(r) \in SUBSET PartIds
    BY DEF Joined
  <2> QED
    BY <2>1, RowsFinite
<1>4. ASSUME SeatsRest(r) PROVE Checks!KeyStep(k)
  <2>1. Cardinality(Joined(r)') \in Nat /\ Cardinality(Joined(r)') <= Cardinality(Joined(r))
    BY <1>3, <1>4, FS_Subset, FS_CardinalityType DEF SeatsRest
  <2>2. RowsOf(k) \in Nat /\ RowsOf(k)' \in Nat /\ RowsOf(k)' <= RowsOf(k)
    BY <1>1, <1>3, <1>4, <2>1 DEF SeatsRest
  <2>3. HoldersOf(k)' = HoldersOf(k)
    BY <1>1, <1>4 DEF SeatsRest
  <2> QED
    BY <1>1, <2>2, <2>3, CheckRemove
<1>5. ASSUME NEW q \in Requests, SeatPromised(r, q)
      PROVE  Checks!KeyStep(k)
  <2>1. CASE maxPlayers[r] = m
    <3>1. q \notin HoldersOf(k) /\ HoldersOf(k)' = HoldersOf(k) \cup {q}
      BY <1>1, <1>5, <2>1 DEF SeatPromised
    <3>2. RowsOf(k)' \in Nat /\ RowsOf(k)' <= RowsOf(k) /\ RowsOf(k)' < LimitOf(k) /\ LimitOf(k) \in Nat
      BY <1>1, <1>2, <1>3, <1>5, <2>1 DEF SeatPromised
    <3> QED
      BY <1>1, <3>1, <3>2, CheckPass
  <2>2. CASE maxPlayers[r] # m
    <3>1. HoldersOf(k)' = HoldersOf(k) /\ RowsOf(k) = 0 /\ RowsOf(k)' = 0
      BY <1>1, <1>5, <2>2 DEF SeatPromised
    <3> QED
      BY <1>1, <3>1, CheckRemove
  <2> QED
    BY <2>1, <2>2
<1>6. ASSUME NEW q \in Requests, SeatSettled(r, q)
      PROVE  Checks!KeyStep(k)
  <2>1. CASE maxPlayers[r] = m
    <3>1. q \in HoldersOf(k) /\ HoldersOf(k)' = HoldersOf(k) \ {q}
      BY <1>1, <1>6, <2>1 DEF SeatSettled
    <3>2. Cardinality(Joined(r)') \in {Cardinality(Joined(r)), Cardinality(Joined(r)) + 1}
      BY <1>3, <1>6, FS_AddElement DEF SeatSettled
    <3>3. RowsOf(k)' \in {RowsOf(k), RowsOf(k) + 1}
      BY <1>1, <1>6, <2>1, <3>2 DEF SeatSettled
    <3> QED
      BY <1>1, <3>1, <3>3, CheckLeave
  <2>2. CASE maxPlayers[r] # m
    <3>1. HoldersOf(k)' = HoldersOf(k) /\ RowsOf(k) = 0 /\ RowsOf(k)' = 0
      BY <1>1, <1>6, <2>2 DEF SeatSettled
    <3> QED
      BY <1>1, <3>1, CheckRemove
  <2> QED
    BY <2>1, <2>2
<1>7. ASSUME NEW q \in Requests, RoomOpened(r, q)
      PROVE  Checks!KeyStep(k)
  <2>1. RowsOf(k) = 0 /\ RowsOf(k)' = 0 /\ HoldersOf(k) = {}
    BY <1>1, <1>7, FS_EmptySet DEF RoomOpened
  <2>2. CASE maxPlayers'[r] = m
    <3>1. HoldersOf(k)' = HoldersOf(k) \cup {q}
      BY <1>1, <1>7, <2>1, <2>2 DEF RoomOpened
    <3>2. RowsOf(k)' \in Nat /\ RowsOf(k)' <= RowsOf(k) /\ RowsOf(k)' < LimitOf(k) /\ LimitOf(k) \in Nat
      BY <1>1, <1>2, <2>1
    <3> QED
      BY <1>1, <2>1, <3>1, <3>2, CheckPass
  <2>3. CASE maxPlayers'[r] # m
    BY <1>1, <2>1, <2>3, CheckRemove
  <2> QED
    BY <2>2, <2>3
<1> QED
  BY <1>4, <1>5, <1>6, <1>7, SeatMoves DEF k

\* To the rows of a user in a room.
LEMMA MemberKeys ==
    ASSUME TypeOK, TypeOK', [Next]_vars, NEW r \in Rooms, NEW u \in Users
    PROVE  Checks!KeyStep(<<"member", r, u>>)
<1> DEFINE k == <<"member", r, u>>
<1>1. /\ k \in CheckedKeys /\ LimitOf(k) = 1
      /\ RowsOf(k) = Cardinality(JoinedAs(r, u)) /\ RowsOf(k)' = Cardinality(JoinedAs(r, u)')
      /\ HoldersOf(k) = Joining(r, u) /\ HoldersOf(k)' = Joining(r, u)'
  BY CheckedIs
<1> HIDE DEF k
<1>2. IsFiniteSet(JoinedAs(r, u)) /\ Cardinality(JoinedAs(r, u)) \in Nat
  <2>1. JoinedAs(r, u) \in SUBSET PartIds
    BY DEF JoinedAs, Joined
  <2> QED
    BY <2>1, RowsFinite
<1>3. ASSUME MemberRest(r, u) PROVE Checks!KeyStep(k)
  <2>1. Cardinality(JoinedAs(r, u)') \in Nat /\ Cardinality(JoinedAs(r, u)') <= Cardinality(JoinedAs(r, u))
    BY <1>2, <1>3, FS_Subset, FS_CardinalityType DEF MemberRest
  <2> QED
    BY <1>1, <1>2, <1>3, <2>1, CheckRemove DEF MemberRest
<1>4. ASSUME NEW q \in Requests, MemberPromised(r, u, q)
      PROVE  Checks!KeyStep(k)
  <2>1. RowsOf(k) = 0 /\ RowsOf(k)' = 0
    BY <1>1, <1>4, FS_EmptySet DEF MemberPromised
  <2>2. q \notin HoldersOf(k) /\ HoldersOf(k)' = HoldersOf(k) \cup {q}
    BY <1>1, <1>4 DEF MemberPromised
  <2> QED
    BY <1>1, <2>1, <2>2, CheckPass
<1>5. ASSUME NEW q \in Requests, MemberSettled(r, u, q)
      PROVE  Checks!KeyStep(k)
  <2>1. RowsOf(k)' \in {RowsOf(k), RowsOf(k) + 1}
    BY <1>1, <1>2, <1>5, FS_AddElement DEF MemberSettled
  <2>2. q \in HoldersOf(k) /\ HoldersOf(k)' = HoldersOf(k) \ {q}
    BY <1>1, <1>5 DEF MemberSettled
  <2> QED
    BY <1>1, <2>1, <2>2, CheckLeave
<1> QED
  BY <1>3, <1>4, <1>5, MemberMoves DEF k

\* And to the invitations.
LEMMA InvitationKeys ==
    ASSUME TypeOK, TypeOK', [Next]_vars, NEW r \in Rooms, NEW v \in Users
    PROVE  Checks!KeyStep(<<"invitation", r, v>>)
<1> DEFINE k == <<"invitation", r, v>>
<1>1. /\ k \in CheckedKeys /\ LimitOf(k) = 1
      /\ RowsOf(k) = invites[r][v] /\ RowsOf(k)' = invites'[r][v]
      /\ HoldersOf(k) = Inviting(r, v) /\ HoldersOf(k)' = Inviting(r, v)'
  BY CheckedIs
<1> HIDE DEF k
<1>2. invites[r][v] \in Nat /\ invites'[r][v] \in Nat
  BY DEF TypeOK
<1>3. ASSUME InvitationRest(r, v) PROVE Checks!KeyStep(k)
  BY <1>1, <1>2, <1>3, CheckRemove DEF InvitationRest
<1>4. ASSUME NEW q \in Requests, InvitationPromised(r, v, q)
      PROVE  Checks!KeyStep(k)
  BY <1>1, <1>4, CheckPass DEF InvitationPromised
<1>5. ASSUME NEW q \in Requests, InvitationSettled(r, v, q)
      PROVE  Checks!KeyStep(k)
  BY <1>1, <1>5, CheckLeave DEF InvitationSettled
<1> QED
  BY <1>3, <1>4, <1>5, InvitationMoves DEF k

LEMMA ChecksInit == Init => Checks!Init
<1> SUFFICES ASSUME Init PROVE Checks!Init
  OBVIOUS
<1>1. ASSUME NEW k \in CheckedKeys
      PROVE  RowsOf(k) = 0 /\ HoldersOf(k) = {} /\ LimitOf(k) \in Nat /\ 0 <= LimitOf(k)
  <2>1. ASSUME NEW r \in Rooms, NEW u \in Users
        PROVE  Joined(r) = {} /\ JoinedAs(r, u) = {} /\ Admitted(r) = {} /\ Joining(r, u) = {}
               /\ Inviting(r, u) = {} /\ invites[r][u] = 0
    BY DEF Init, Joined, JoinedAs, Admitted, Joining, Inviting
  <2>2. ASSUME NEW r \in Rooms PROVE Joined(r) = {} /\ Admitted(r) = {}
    BY DEF Init, Joined, Admitted
  <2>3. ASSUME NEW r \in Rooms, NEW m \in Capacities, k = <<"seat", r, m>>
        PROVE  RowsOf(k) = 0 /\ HoldersOf(k) = {} /\ LimitOf(k) \in Nat /\ 0 <= LimitOf(k)
    BY <2>2, <2>3, CheckedIs, CapacityIsNat, FS_EmptySet
  <2>4. ASSUME NEW r \in Rooms, NEW u \in Users, k = <<"member", r, u>> \/ k = <<"invitation", r, u>>
        PROVE  RowsOf(k) = 0 /\ HoldersOf(k) = {} /\ LimitOf(k) \in Nat /\ 0 <= LimitOf(k)
    <3>1. CASE k = <<"member", r, u>>
      <4>1. RowsOf(<<"member", r, u>>) = Cardinality(JoinedAs(r, u))
            /\ HoldersOf(<<"member", r, u>>) = Joining(r, u) /\ LimitOf(<<"member", r, u>>) = 1
        BY CheckedIs
      <4> QED
        BY <2>1, <3>1, <4>1, FS_EmptySet
    <3>2. CASE k = <<"invitation", r, u>>
      <4>1. RowsOf(<<"invitation", r, u>>) = invites[r][u]
            /\ HoldersOf(<<"invitation", r, u>>) = Inviting(r, u) /\ LimitOf(<<"invitation", r, u>>) = 1
        BY CheckedIs
      <4> QED
        BY <2>1, <3>2, <4>1
    <3> QED
      BY <2>4, <3>1, <3>2
  <2> QED
    BY <2>3, <2>4, CheckedKinds
<1> QED
  BY <1>1 DEF Checks!Init

LEMMA ChecksNext == TypeOK /\ TypeOK' /\ [Next]_vars => Checks!Next
<1> SUFFICES ASSUME TypeOK, TypeOK', [Next]_vars, NEW k \in CheckedKeys
             PROVE  Checks!KeyStep(k)
  BY DEF Checks!Next
<1> QED
  BY CheckedKinds, SeatKeys, MemberKeys, InvitationKeys

\* Seats, members and invitations are handed out as CheckThenInsert says,
\* whatever runs next to a request of rooms.rs.
THEOREM RoomsKeepChecks == Spec => ChecksAreKept
<1>1. TypeOK /\ TypeOK' /\ [Next]_vars => Checks!Next
  BY ChecksNext
<1> QED
  BY <1>1, ChecksInit, TypeCorrect, PTL DEF Spec, ChecksAreKept, Checks!Spec

=============================================================================
