------------------------ MODULE LobbiesExportsProofs -------------------------
(***************************************************************************)
(* Lobbies and data exports, each on its own, for any numbers of users,    *)
(* lobbies, names, exports and requests: the handlers keep to the          *)
(* specification CheckThenInsert and so to its budget, on lobby names and  *)
(* on the pending exports of a user, the tables keep their types, and a    *)
(* completed export is lost in a race only.                                *)
(*                                                                         *)
(* A cancel and the job delete exports by id that they selected before.    *)
(* What makes that safe but for the race is that whoever is about to       *)
(* delete a row has found it not completed, or stale, and is entered in    *)
(* overtaken if that has changed (Watched).                                *)
(***************************************************************************)
EXTENDS Lobbies, Exports, FiniteSetTheorems, TLAPS

-----------------------------------------------------------------------------
(* Lobbies.                                                                *)

NameChecks == INSTANCE CheckThenInsertProofs WITH
    Keys    <- Names,
    Limit   <- [n \in Names |-> 1],
    rows    <- [n \in Names |-> Cardinality(LobbyRows(n))],
    holders <- [n \in Names |-> LobbyNamers(n)]

LobbyPcs == {"idle", "insertLobby", "checkLobby", "writeLobby"}

\* An insert is about no row, a write about a row that exists.
LobbySlotOK(q) ==
    /\ req[q].pc = "insertLobby" => req[q].name \in Names /\ req[q].row = None
    /\ req[q].pc = "checkLobby" => req[q].name \in Names /\ req[q].row \in Lobbies
    /\ req[q].pc = "writeLobby" => req[q].row \in Lobbies

\* The inductive invariant.
LobbyInv ==
    /\ req \in [Requests -> [pc : LobbyPcs, user : {None}, row : LobbyIds \cup {None},
                             name : Names \cup {None}, flag : Flags]]
    /\ lobby \in [LobbyIds -> [name : Names \cup {None}, active : BOOLEAN]]
    /\ \A q \in Requests : LobbySlotOK(q)

LEMMA LobbyInitInv == HandlersInit(0) /\ LobbiesInit => LobbyInv
BY DEF HandlersInit, LobbiesInit, LobbyInv, LobbySlotOK, Request, LobbyPcs, Flags

\* A request slot after each of the ways in which an action changes it.
LEMMA LobbyReturnSlot ==
    ASSUME LobbyInv, NEW q \in Requests, Return(q)
    PROVE  /\ req' \in [Requests -> [pc : LobbyPcs, user : {None}, row : LobbyIds \cup {None},
                                     name : Names \cup {None}, flag : Flags]]
           /\ req'[q] = Request
           /\ \A p \in Requests \ {q} : req'[p] = req[p]
BY DEF LobbyInv, Return, Request, LobbyPcs, Flags

LEMMA LobbyGotoSlot ==
    ASSUME LobbyInv, NEW q \in Requests, NEW next \in LobbyPcs, Goto(q, next)
    PROVE  /\ req' \in [Requests -> [pc : LobbyPcs, user : {None}, row : LobbyIds \cup {None},
                                     name : Names \cup {None}, flag : Flags]]
           /\ req'[q].pc = next /\ req'[q].row = req[q].row /\ req'[q].name = req[q].name
           /\ \A p \in Requests \ {q} : req'[p] = req[p]
BY DEF LobbyInv, Goto, LobbyPcs

LEMMA LobbyStartSlot ==
    ASSUME LobbyInv, NEW q \in Requests, NEW next \in LobbyPcs, NEW r \in LobbyIds \cup {None},
           NEW n \in Names \cup {None}, NEW f \in Flags, Start(q, next, None, r, n, f)
    PROVE  /\ req' \in [Requests -> [pc : LobbyPcs, user : {None}, row : LobbyIds \cup {None},
                                     name : Names \cup {None}, flag : Flags]]
           /\ req'[q].pc = next /\ req'[q].row = r /\ req'[q].name = n
           /\ \A p \in Requests \ {q} : req'[p] = req[p]
           /\ req[q].pc = "idle"
BY DEF LobbyInv, Start, LobbyPcs

\* Names are not None, so a lobby once made is there for good.
LEMMA LobbyWriteTable ==
    ASSUME LobbyInv, NEW q \in Requests, LobbyWrite(q)
    PROVE  /\ lobby' \in [LobbyIds -> [name : Names \cup {None}, active : BOOLEAN]]
           /\ Lobbies' = Lobbies
           /\ \A l \in LobbyIds \ {req[q].row} : lobby'[l] = lobby[l]
           /\ req[q].row \in Lobbies
           /\ lobby'[req[q].row].name =
                 IF req[q].name = None THEN lobby[req[q].row].name ELSE req[q].name
<1>1. req[q].row \in Lobbies /\ req[q].row \in LobbyIds
  BY DEF LobbyInv, LobbySlotOK, LobbyWrite, Lobbies
<1>2. req[q].name \in Names \cup {None} /\ req[q].flag \in Flags
  BY DEF LobbyInv
<1>3. lobby'[req[q].row] =
         [name |-> IF req[q].name = None THEN lobby[req[q].row].name ELSE req[q].name,
          active |-> IF req[q].flag = None THEN lobby[req[q].row].active ELSE req[q].flag]
  BY <1>1 DEF LobbyInv, LobbyWrite
<1>4. /\ lobby' = [lobby EXCEPT ![req[q].row] = lobby'[req[q].row]]
      /\ lobby'[req[q].row] \in [name : Names \cup {None}, active : BOOLEAN]
  <2>1. lobby[req[q].row] \in [name : Names \cup {None}, active : BOOLEAN]
    BY <1>1 DEF LobbyInv
  <2>2. (IF req[q].flag = None THEN lobby[req[q].row].active ELSE req[q].flag) \in BOOLEAN
    BY <1>2, <2>1 DEF Flags
  <2>3. (IF req[q].name = None THEN lobby[req[q].row].name ELSE req[q].name) \in Names \cup {None}
    BY <1>2, <2>1
  <2>4. lobby'[req[q].row] \in [name : Names \cup {None}, active : BOOLEAN]
    BY <1>3, <2>2, <2>3
  <2>5. lobby' = [lobby EXCEPT ![req[q].row] = lobby'[req[q].row]]
    BY <1>1, <1>3 DEF LobbyInv, LobbyWrite
  <2> QED
    BY <2>4, <2>5
<1>5. lobby' \in [LobbyIds -> [name : Names \cup {None}, active : BOOLEAN]]
  BY <1>4, <1>1 DEF LobbyInv
<1>6. \A l \in LobbyIds \ {req[q].row} : lobby'[l] = lobby[l]
  BY <1>4 DEF LobbyInv
<1>7. lobby'[req[q].row].name =
         IF req[q].name = None THEN lobby[req[q].row].name ELSE req[q].name
  BY <1>3
<1>8. Lobbies' = Lobbies
  <2>1. lobby'[req[q].row].name # None
    BY <1>1, <1>7 DEF Lobbies
  <2> QED
    BY <2>1, <1>1, <1>6 DEF Lobbies
<1> QED
  BY <1>1, <1>5, <1>6, <1>7, <1>8

LEMMA LobbyInsertTable ==
    ASSUME LobbyInv, NEW q \in Requests, LobbyInsert(q)
    PROVE  \E l \in LobbyIds \ Lobbies :
              /\ lobby' \in [LobbyIds -> [name : Names \cup {None}, active : BOOLEAN]]
              /\ Lobbies' = Lobbies \cup {l}
              /\ lobby'[l].name = req[q].name
              /\ \A k \in LobbyIds \ {l} : lobby'[k] = lobby[k]
<1>1. req[q].name \in Names
  BY DEF LobbyInv, LobbySlotOK, LobbyInsert
<1>2. PICK l \in LobbyIds \ Lobbies :
         lobby' = [lobby EXCEPT ![l] = [name |-> req[q].name, active |-> TRUE]]
  BY DEF LobbyInsert
<1>3. lobby' \in [LobbyIds -> [name : Names \cup {None}, active : BOOLEAN]]
  BY <1>1, <1>2 DEF LobbyInv
<1>4. lobby'[l].name = req[q].name /\ \A k \in LobbyIds \ {l} : lobby'[k] = lobby[k]
  BY <1>2 DEF LobbyInv
<1>5. Lobbies' = Lobbies \cup {l}
  BY <1>1, <1>2, <1>4, NamesAssumption DEF Lobbies
<1> QED
  BY <1>2, <1>3, <1>4, <1>5

-----------------------------------------------------------------------------
(* The invariant.                                                          *)

\* A step that changes one slot, and makes no lobby disappear.
LEMMA LobbySlotInv ==
    ASSUME LobbyInv, NEW q \in Requests, LobbySlotOK(q)',
           req' \in [Requests -> [pc : LobbyPcs, user : {None}, row : LobbyIds \cup {None},
                                  name : Names \cup {None}, flag : Flags]],
           lobby' \in [LobbyIds -> [name : Names \cup {None}, active : BOOLEAN]],
           \A p \in Requests \ {q} : req'[p] = req[p],
           Lobbies \subseteq Lobbies'
    PROVE  LobbyInv'
<1>1. ASSUME NEW p \in Requests \ {q} PROVE LobbySlotOK(p)'
  BY <1>1 DEF LobbyInv, LobbySlotOK
<1> QED
  BY <1>1 DEF LobbyInv

LEMMA LobbyReturnInv ==
    ASSUME LobbyInv, NEW q \in Requests, Return(q), Lobbies \subseteq Lobbies',
           lobby' \in [LobbyIds -> [name : Names \cup {None}, active : BOOLEAN]]
    PROVE  LobbyInv'
<1>1. req'[q] = Request
  BY LobbyReturnSlot
<1>2. LobbySlotOK(q)'
  BY <1>1 DEF LobbySlotOK, Request
<1> QED
  BY <1>2, LobbyReturnSlot, LobbySlotInv

LEMMA LobbyUnchanged ==
    ASSUME LobbyInv, lobby' = lobby
    PROVE  /\ lobby' \in [LobbyIds -> [name : Names \cup {None}, active : BOOLEAN]]
           /\ Lobbies' = Lobbies
BY DEF LobbyInv, Lobbies

LEMMA LobbyFindInv ==
    ASSUME LobbyInv, NEW q \in Requests, NEW l \in LobbyIds, NEW n \in Names \cup {None},
           NEW a \in Flags, LobbyFind(q, l, n, a)
    PROVE  LobbyInv'
<1>1. /\ Start(q, IF n = None THEN "writeLobby" ELSE "checkLobby", None, l, n, a)
      /\ lobby' = lobby /\ l \in Lobbies
  BY DEF LobbyFind
<1>2. CASE n = None
  <2>1. Start(q, "writeLobby", None, l, n, a)
    BY <1>1, <1>2
  <2>2. /\ req' \in [Requests -> [pc : LobbyPcs, user : {None}, row : LobbyIds \cup {None},
                                  name : Names \cup {None}, flag : Flags]]
        /\ req'[q].pc = "writeLobby" /\ req'[q].row = l
        /\ \A p \in Requests \ {q} : req'[p] = req[p]
    BY <2>1, LobbyStartSlot DEF LobbyPcs
  <2>3. LobbySlotOK(q)'
    BY <2>2, <1>1, LobbyUnchanged DEF LobbySlotOK
  <2> QED
    BY <2>2, <2>3, <1>1, LobbyUnchanged, LobbySlotInv
<1>3. CASE n # None
  <2>1. Start(q, "checkLobby", None, l, n, a)
    BY <1>1, <1>3
  <2>2. /\ req' \in [Requests -> [pc : LobbyPcs, user : {None}, row : LobbyIds \cup {None},
                                  name : Names \cup {None}, flag : Flags]]
        /\ req'[q].pc = "checkLobby" /\ req'[q].row = l /\ req'[q].name = n
        /\ \A p \in Requests \ {q} : req'[p] = req[p]
    BY <2>1, LobbyStartSlot DEF LobbyPcs
  <2>3. LobbySlotOK(q)'
    BY <2>2, <1>1, <1>3, LobbyUnchanged DEF LobbySlotOK
  <2> QED
    BY <2>2, <2>3, <1>1, LobbyUnchanged, LobbySlotInv
<1> QED
  BY <1>2, <1>3

LEMMA LobbyStepInv == LobbyInv /\ [LobbiesNext]_lobbyVars => LobbyInv'
<1> SUFFICES ASSUME LobbyInv, [LobbiesNext]_lobbyVars PROVE LobbyInv'
  OBVIOUS
<1>1. ASSUME NEW q \in Requests, NEW n \in Names, LobbyCheck(q, n)
      PROVE  LobbyInv'
  <2>1. Start(q, "insertLobby", None, None, n, None) /\ lobby' = lobby
    BY <1>1 DEF LobbyCheck
  <2>2. /\ req' \in [Requests -> [pc : LobbyPcs, user : {None}, row : LobbyIds \cup {None},
                                  name : Names \cup {None}, flag : Flags]]
        /\ req'[q].pc = "insertLobby" /\ req'[q].row = None /\ req'[q].name = n
        /\ \A p \in Requests \ {q} : req'[p] = req[p]
    BY <2>1, LobbyStartSlot DEF LobbyPcs, Flags
  <2>3. LobbySlotOK(q)'
    BY <2>2 DEF LobbySlotOK
  <2> QED
    BY <2>1, <2>2, <2>3, LobbyUnchanged, LobbySlotInv
<1>2. ASSUME NEW q \in Requests, LobbyInsert(q)
      PROVE  LobbyInv'
  <2>1. Return(q)
    BY <1>2 DEF LobbyInsert
  <2>2. /\ Lobbies \subseteq Lobbies'
        /\ lobby' \in [LobbyIds -> [name : Names \cup {None}, active : BOOLEAN]]
    BY <1>2, LobbyInsertTable
  <2> QED
    BY <2>1, <2>2, LobbyReturnInv
<1>3. ASSUME NEW q \in Requests, NEW l \in LobbyIds, NEW n \in Names \cup {None},
             NEW a \in Flags, LobbyFind(q, l, n, a)
      PROVE  LobbyInv'
  BY <1>3, LobbyFindInv
<1>4. ASSUME NEW q \in Requests, LobbyRenameCheck(q)
      PROVE  LobbyInv'
  <2>1. /\ lobby' = lobby /\ req[q].pc = "checkLobby"
        /\ Goto(q, "writeLobby") \/ Return(q)
    BY <1>4 DEF LobbyRenameCheck
  <2>2. CASE Return(q)
    BY <2>1, <2>2, LobbyUnchanged, LobbyReturnInv
  <2>3. CASE Goto(q, "writeLobby")
    <3>1. /\ req' \in [Requests -> [pc : LobbyPcs, user : {None}, row : LobbyIds \cup {None},
                                    name : Names \cup {None}, flag : Flags]]
          /\ req'[q].pc = "writeLobby" /\ req'[q].row = req[q].row
          /\ \A p \in Requests \ {q} : req'[p] = req[p]
      BY <2>3, LobbyGotoSlot DEF LobbyPcs
    <3>2. LobbySlotOK(q)'
      BY <2>1, <3>1, LobbyUnchanged DEF LobbyInv, LobbySlotOK
    <3> QED
      BY <2>1, <3>1, <3>2, LobbyUnchanged, LobbySlotInv
  <2> QED
    BY <2>1, <2>2, <2>3
<1>5. ASSUME NEW q \in Requests, NEW l \in LobbyIds, LobbyDeactivate(q, l)
      PROVE  LobbyInv'
  BY <1>5, LobbyFindInv DEF LobbyDeactivate, Flags
<1>6. ASSUME NEW q \in Requests, LobbyWrite(q)
      PROVE  LobbyInv'
  <2>1. Return(q)
    BY <1>6 DEF LobbyWrite
  <2>2. /\ Lobbies \subseteq Lobbies'
        /\ lobby' \in [LobbyIds -> [name : Names \cup {None}, active : BOOLEAN]]
    BY <1>6, LobbyWriteTable
  <2> QED
    BY <2>1, <2>2, LobbyReturnInv
<1>7. ASSUME NEW q \in Requests, LobbyAbort(q)
      PROVE  LobbyInv'
  BY <1>7, LobbyUnchanged, LobbyReturnInv DEF LobbyAbort
<1>8. CASE UNCHANGED lobbyVars
  BY <1>8 DEF lobbyVars, requests, LobbyInv, LobbySlotOK, Lobbies
<1> QED
  BY <1>1, <1>2, <1>3, <1>4, <1>5, <1>6, <1>7, <1>8 DEF LobbiesNext

\* Every row that a request holds exists, and the table is one of lobbies.
THEOREM LobbyTypeCorrect == LobbiesSpec => []LobbyTypeOK
<1>1. LobbyInv => LobbyTypeOK
  BY DEF LobbyInv, LobbySlotOK, LobbyTypeOK, At
<1> QED
  BY <1>1, LobbyInitInv, LobbyStepInv, PTL DEF LobbiesSpec

-----------------------------------------------------------------------------
(* The refinement, one key at a time.                                      *)

LEMMA LobbyFinite ==
    ASSUME LobbyInv, NEW n \in Names
    PROVE  /\ IsFiniteSet(LobbyRows(n)) /\ Cardinality(LobbyRows(n)) \in Nat
           /\ LobbyNamers(n) \subseteq Requests
<1>1. LobbyRows(n) \in SUBSET LobbyIds
  BY DEF LobbyRows, LobbiesNamed, Lobbies
<1>2. IsFiniteSet(LobbyRows(n))
  BY <1>1, LobbyIdsAssumption, FS_Subset
<1> QED
  BY <1>2, FS_CardinalityType DEF LobbyNamers, At

LEMMA LobbyPassKey ==
    ASSUME NEW n \in Names, NEW q \in Requests, LobbyInv, q \notin LobbyNamers(n),
           LobbyNamers(n)' = LobbyNamers(n) \cup {q}, LobbyRows(n)' = {}
    PROVE  NameChecks!KeyStep(n)
<1>1. Cardinality(LobbyRows(n)') = 0
  BY FS_EmptySet
<1>2. Cardinality(LobbyRows(n)) \in Nat
  BY LobbyFinite
<1>3. NameChecks!Pass(n, q)
  BY <1>1, <1>2 DEF NameChecks!Pass
<1> QED
  BY <1>3 DEF NameChecks!KeyStep

LEMMA LobbyLeaveKey ==
    ASSUME NEW n \in Names, NEW q \in Requests, NEW l, LobbyInv, q \in LobbyNamers(n),
           LobbyNamers(n)' = LobbyNamers(n) \ {q},
           LobbyRows(n) \subseteq LobbyRows(n)', LobbyRows(n)' \subseteq LobbyRows(n) \cup {l}
    PROVE  NameChecks!KeyStep(n)
<1>1. LobbyRows(n)' \in {LobbyRows(n), LobbyRows(n) \cup {l}}
  OBVIOUS
<1>2. Cardinality(LobbyRows(n)') \in {Cardinality(LobbyRows(n)), Cardinality(LobbyRows(n)) + 1}
  BY <1>1, LobbyFinite, FS_AddElement
<1>3. NameChecks!Leave(n, q)
  BY <1>2 DEF NameChecks!Leave
<1> QED
  BY <1>3 DEF NameChecks!KeyStep

LEMMA LobbyRemoveKey ==
    ASSUME NEW n \in Names, LobbyInv, LobbyNamers(n)' = LobbyNamers(n),
           LobbyRows(n)' \subseteq LobbyRows(n)
    PROVE  NameChecks!KeyStep(n)
<1>1. /\ IsFiniteSet(LobbyRows(n)')
      /\ Cardinality(LobbyRows(n)') <= Cardinality(LobbyRows(n))
  BY LobbyFinite, FS_Subset
<1>2. Cardinality(LobbyRows(n)') \in Nat /\ Cardinality(LobbyRows(n)) \in Nat
  BY <1>1, LobbyFinite, FS_CardinalityType
<1>3. NameChecks!Remove(n)
  BY <1>1, <1>2 DEF NameChecks!Remove
<1> QED
  BY <1>3 DEF NameChecks!KeyStep

\* A request that ends and writes nothing gives up the name it holds, if any.
LEMMA LobbyReturnKey ==
    ASSUME NEW n \in Names, NEW q \in Requests, LobbyInv, Return(q), UNCHANGED lobby
    PROVE  NameChecks!KeyStep(n)
<1>1. req'[q].pc = "idle" /\ \A p \in Requests \ {q} : req'[p] = req[p]
  BY LobbyReturnSlot DEF Request
<1>2. LobbyNamers(n)' = LobbyNamers(n) \ {q}
  BY <1>1 DEF LobbyNamers, At
<1>3. LobbiesNamed(n)' = LobbiesNamed(n)
  BY DEF LobbiesNamed, Lobbies
<1>4. /\ LobbyRows(n) \subseteq LobbyRows(n)'
      /\ LobbyRows(n)' \subseteq LobbyRows(n) \cup {req[q].row}
  <2>1. \A p \in LobbyNamers(n)' : p \in LobbyNamers(n) /\ req'[p].row = req[p].row
    BY <1>1, <1>2 DEF LobbyNamers, At
  <2>2. \A p \in LobbyNamers(n) : p = q \/ (p \in LobbyNamers(n)' /\ req'[p].row = req[p].row)
    BY <1>1, <1>2 DEF LobbyNamers, At
  <2> QED
    BY <1>3, <2>1, <2>2 DEF LobbyRows
<1>5. CASE q \in LobbyNamers(n)
  BY <1>2, <1>4, <1>5, LobbyLeaveKey
<1>6. CASE q \notin LobbyNamers(n)
  <2>1. LobbyNamers(n)' = LobbyNamers(n)
    BY <1>2, <1>6
  <2>2. \A p \in LobbyNamers(n) : req'[p].row = req[p].row
    BY <1>1, <1>6 DEF LobbyNamers, At
  <2>3. LobbyRows(n)' \subseteq LobbyRows(n)
    BY <1>3, <2>1, <2>2 DEF LobbyRows
  <2> QED
    BY <2>1, <2>3, LobbyRemoveKey
<1> QED
  BY <1>5, <1>6

\* A request that begins holds no name yet.
LEMMA LobbyStartKey ==
    ASSUME NEW n \in Names, NEW q \in Requests, LobbyInv, req[q].pc \in {"idle", "checkLobby"},
           \A p \in Requests \ {q} : req'[p] = req[p], UNCHANGED lobby,
           req'[q].pc \in {"idle", "checkLobby"} \/ req'[q].name # n
    PROVE  NameChecks!KeyStep(n)
<1>1. LobbyNamers(n)' = LobbyNamers(n) /\ q \notin LobbyNamers(n)
  BY DEF LobbyNamers, At
<1>2. \A p \in LobbyNamers(n) : req'[p].row = req[p].row
  BY <1>1 DEF LobbyNamers, At
<1>3. LobbiesNamed(n)' = LobbiesNamed(n)
  BY DEF LobbiesNamed, Lobbies
<1>4. LobbyRows(n)' \subseteq LobbyRows(n)
  BY <1>1, <1>2, <1>3 DEF LobbyRows
<1> QED
  BY <1>1, <1>4, LobbyRemoveKey

\* A request that has found no lobby of the name, or only the one it renames,
\* passes.
LEMMA LobbyCheckKey ==
    ASSUME NEW n \in Names, NEW q \in Requests, LobbyInv, req[q].pc \in {"idle", "checkLobby"},
           \A p \in Requests \ {q} : req'[p] = req[p], UNCHANGED lobby,
           req'[q].pc \in {"insertLobby", "writeLobby"}, req'[q].name = n,
           LobbiesNamed(n) \subseteq {req'[q].row}
    PROVE  NameChecks!KeyStep(n)
<1>1. LobbyNamers(n)' = LobbyNamers(n) \cup {q} /\ q \notin LobbyNamers(n)
  BY DEF LobbyNamers, At
<1>2. LobbiesNamed(n)' = LobbiesNamed(n)
  BY DEF LobbiesNamed, Lobbies
<1>3. LobbyRows(n)' = {}
  BY <1>1, <1>2 DEF LobbyRows
<1> QED
  BY <1>1, <1>3, LobbyPassKey

LEMMA LobbyInsertKey ==
    ASSUME NEW n \in Names, NEW q \in Requests, LobbyInv, LobbyInsert(q)
    PROVE  NameChecks!KeyStep(n)
<1>1. /\ req[q].pc = "insertLobby" /\ req[q].row = None
      /\ Return(q)
  BY DEF LobbyInsert, LobbyInv, LobbySlotOK
<1>2. req'[q].pc = "idle" /\ \A p \in Requests \ {q} : req'[p] = req[p]
  BY <1>1, LobbyReturnSlot DEF Request
<1>3. PICK l \in LobbyIds \ Lobbies :
         /\ Lobbies' = Lobbies \cup {l}
         /\ lobby'[l].name = req[q].name
         /\ \A k \in LobbyIds \ {l} : lobby'[k] = lobby[k]
  BY LobbyInsertTable
<1>4. LobbyNamers(n)' = LobbyNamers(n) \ {q}
  BY <1>2 DEF LobbyNamers, At
<1>5. \A p \in LobbyNamers(n)' : p \in LobbyNamers(n) /\ req'[p].row = req[p].row
  BY <1>2, <1>4 DEF LobbyNamers, At
<1>6. CASE req[q].name = n
  <2>1. LobbiesNamed(n)' = LobbiesNamed(n) \cup {l}
    BY <1>3, <1>6 DEF LobbiesNamed, Lobbies
  <2>2. q \in LobbyNamers(n)
    BY <1>1, <1>6 DEF LobbyNamers, At
  <2>3. None \notin LobbiesNamed(n)
    BY LobbyIdsAssumption DEF LobbiesNamed, Lobbies
  <2>4. LobbyRows(n) \subseteq LobbyRows(n)'
    BY <1>5, <2>1 DEF LobbyRows
  <2>5. \A p \in LobbyNamers(n) : p = q \/ (p \in LobbyNamers(n)' /\ req'[p].row = req[p].row)
    BY <1>2, <1>4 DEF LobbyNamers, At
  <2>6. LobbyRows(n)' \subseteq LobbyRows(n) \cup {l}
    BY <1>1, <2>1, <2>3, <2>5 DEF LobbyRows
  <2> QED
    BY <1>4, <2>2, <2>4, <2>6, LobbyLeaveKey
<1>7. CASE req[q].name # n
  <2>1. LobbiesNamed(n)' = LobbiesNamed(n)
    BY <1>3, <1>7 DEF LobbiesNamed, Lobbies
  <2>2. LobbyNamers(n)' = LobbyNamers(n)
    BY <1>4, <1>7 DEF LobbyNamers
  <2>3. LobbyRows(n)' \subseteq LobbyRows(n)
    BY <1>5, <2>1, <2>2 DEF LobbyRows
  <2> QED
    BY <2>2, <2>3, LobbyRemoveKey
<1> QED
  BY <1>6, <1>7

LEMMA LobbyWriteKey ==
    ASSUME NEW n \in Names, NEW q \in Requests, LobbyInv, LobbyWrite(q)
    PROVE  NameChecks!KeyStep(n)
<1> DEFINE l == req[q].row
<1>1. req[q].pc = "writeLobby" /\ Return(q)
  BY DEF LobbyWrite
<1>2. req'[q].pc = "idle" /\ \A p \in Requests \ {q} : req'[p] = req[p]
  BY <1>1, LobbyReturnSlot DEF Request
<1>3. /\ Lobbies' = Lobbies /\ l \in Lobbies
      /\ \A k \in LobbyIds \ {l} : lobby'[k] = lobby[k]
      /\ lobby'[l].name = IF req[q].name = None THEN lobby[l].name ELSE req[q].name
  BY LobbyWriteTable
<1>4. LobbyNamers(n)' = LobbyNamers(n) \ {q}
  BY <1>2 DEF LobbyNamers, At
<1>5. \A p \in LobbyNamers(n)' : p \in LobbyNamers(n) /\ req'[p].row = req[p].row
  BY <1>2, <1>4 DEF LobbyNamers, At
<1>6. CASE req[q].name = n
  <2>1. LobbiesNamed(n)' = LobbiesNamed(n) \cup {l}
    BY <1>3, <1>6, NamesAssumption DEF LobbiesNamed, Lobbies
  <2>2. q \in LobbyNamers(n)
    BY <1>1, <1>6 DEF LobbyNamers, At
  <2>3. LobbyRows(n) \subseteq LobbyRows(n)'
    BY <1>5, <2>1 DEF LobbyRows
  <2>4. \A p \in LobbyNamers(n) : p = q \/ (p \in LobbyNamers(n)' /\ req'[p].row = req[p].row)
    BY <1>2, <1>4 DEF LobbyNamers, At
  <2>5. LobbyRows(n)' \subseteq LobbyRows(n) \cup {l}
    BY <2>1, <2>4 DEF LobbyRows
  <2> QED
    BY <1>4, <2>2, <2>3, <2>5, LobbyLeaveKey
<1>7. CASE req[q].name # n
  <2>1. LobbiesNamed(n)' \subseteq LobbiesNamed(n)
    BY <1>3, <1>7 DEF LobbiesNamed, Lobbies
  <2>2. LobbyNamers(n)' = LobbyNamers(n)
    BY <1>4, <1>7 DEF LobbyNamers
  <2>3. LobbyRows(n)' \subseteq LobbyRows(n)
    BY <1>5, <2>1, <2>2 DEF LobbyRows
  <2> QED
    BY <2>2, <2>3, LobbyRemoveKey
<1> QED
  BY <1>6, <1>7

LEMMA LobbyFindKey ==
    ASSUME NEW k \in Names, LobbyInv, NEW q \in Requests, NEW l \in LobbyIds,
           NEW n \in Names \cup {None}, NEW a \in Flags, LobbyFind(q, l, n, a)
    PROVE  NameChecks!KeyStep(k)
<1>1. /\ Start(q, IF n = None THEN "writeLobby" ELSE "checkLobby", None, l, n, a)
      /\ lobby' = lobby
  BY DEF LobbyFind
<1>2. (IF n = None THEN "writeLobby" ELSE "checkLobby") \in LobbyPcs
  BY DEF LobbyPcs
<1>3. /\ req[q].pc = "idle" /\ \A p \in Requests \ {q} : req'[p] = req[p]
      /\ req'[q].pc = (IF n = None THEN "writeLobby" ELSE "checkLobby") /\ req'[q].name = n
  BY <1>1, <1>2, LobbyStartSlot
<1>4. req'[q].pc = "checkLobby" \/ req'[q].name # k
  BY <1>3, NamesAssumption
<1> QED
  BY <1>1, <1>3, <1>4, LobbyStartKey

LEMMA LobbyStepKey ==
    ASSUME LobbyInv, [LobbiesNext]_lobbyVars, NEW k \in Names
    PROVE  NameChecks!KeyStep(k)
<1>1. ASSUME NEW q \in Requests, NEW n \in Names, LobbyCheck(q, n)
      PROVE  NameChecks!KeyStep(k)
  <2>1. /\ Start(q, "insertLobby", None, None, n, None) /\ lobby' = lobby
        /\ LobbiesNamed(n) = {}
    BY <1>1 DEF LobbyCheck
  <2>2. /\ req[q].pc = "idle" /\ \A p \in Requests \ {q} : req'[p] = req[p]
        /\ req'[q].pc = "insertLobby" /\ req'[q].name = n
    BY <2>1, LobbyStartSlot DEF LobbyPcs, Flags
  <2>3. CASE k = n
    BY <2>1, <2>2, <2>3, LobbyCheckKey
  <2>4. CASE k # n
    BY <2>1, <2>2, <2>4, LobbyStartKey
  <2> QED
    BY <2>3, <2>4
<1>2. ASSUME NEW q \in Requests, LobbyRenameCheck(q)
      PROVE  NameChecks!KeyStep(k)
  <2>1. /\ lobby' = lobby /\ req[q].pc = "checkLobby"
        /\ \/ Goto(q, "writeLobby") /\ LobbiesNamed(req[q].name) \subseteq {req[q].row}
           \/ Return(q)
    BY <1>2 DEF LobbyRenameCheck
  <2>2. CASE Return(q)
    BY <2>1, <2>2, LobbyReturnKey
  <2>3. CASE Goto(q, "writeLobby") /\ LobbiesNamed(req[q].name) \subseteq {req[q].row}
    <3>1. /\ \A p \in Requests \ {q} : req'[p] = req[p]
          /\ req'[q].pc = "writeLobby" /\ req'[q].row = req[q].row
          /\ req'[q].name = req[q].name
      BY <2>3, LobbyGotoSlot DEF LobbyPcs
    <3>2. CASE k = req[q].name
      BY <2>1, <2>3, <3>1, <3>2, LobbyCheckKey
    <3>3. CASE k # req[q].name
      BY <2>1, <3>1, <3>3, LobbyStartKey
    <3> QED
      BY <3>2, <3>3
  <2> QED
    BY <2>1, <2>2, <2>3
<1>3. ASSUME NEW q \in Requests, LobbyAbort(q)
      PROVE  NameChecks!KeyStep(k)
  BY <1>3, LobbyReturnKey DEF LobbyAbort
<1>4. CASE UNCHANGED lobbyVars
  <2>1. req' = req /\ lobby' = lobby
    BY <1>4 DEF lobbyVars, requests
  <2>2. LobbyNamers(k)' = LobbyNamers(k)
    BY <2>1 DEF LobbyNamers, At
  <2>3. LobbyRows(k)' \subseteq LobbyRows(k)
    BY <2>1, <2>2 DEF LobbyRows, LobbiesNamed, Lobbies
  <2> QED
    BY <2>2, <2>3, LobbyRemoveKey
<1>5. ASSUME NEW q \in Requests, NEW l \in LobbyIds, LobbyDeactivate(q, l)
      PROVE  NameChecks!KeyStep(k)
  BY <1>5, LobbyFindKey DEF LobbyDeactivate, Flags
<1> QED
  BY <1>1, <1>2, <1>3, <1>4, <1>5, LobbyInsertKey, LobbyWriteKey, LobbyFindKey DEF LobbiesNext

LEMMA LobbyInitKey == HandlersInit(0) /\ LobbiesInit => NameChecks!Init
<1> SUFFICES ASSUME HandlersInit(0), LobbiesInit PROVE NameChecks!Init
  OBVIOUS
<1>1. ASSUME NEW n \in Names
      PROVE  Cardinality(LobbyRows(n)) = 0 /\ LobbyNamers(n) = {}
  <2>1. LobbyRows(n) = {}
    BY DEF LobbiesInit, LobbyRows, LobbiesNamed, Lobbies
  <2>2. LobbyNamers(n) = {}
    BY DEF HandlersInit, Request, LobbyNamers, At
  <2> QED
    BY <2>1, <2>2, FS_EmptySet
<1> QED
  BY <1>1 DEF NameChecks!Init

\* The handlers of lobbies implement the check before the insert.
THEOREM LobbiesImplementChecks == LobbiesSpec => NameChecks!Spec
<1>1. LobbyInv /\ [LobbiesNext]_lobbyVars => NameChecks!Next
  BY LobbyStepKey DEF NameChecks!Next
<1> QED
  BY <1>1, LobbyInitInv, LobbyStepInv, LobbyInitKey, PTL DEF LobbiesSpec, NameChecks!Spec

LEMMA LobbyChecksConstants == NameChecks!ConstantsOK
BY RequestsAssumption DEF NameChecks!ConstantsOK, NameChecks!IsFiniteSet, IsFiniteSet

\* So two lobbies share a name only if requests overlapped, and no more of them
\* than there were requests at once.
THEOREM NameBudget == LobbiesSpec => []NameChecks!Budget
<1>1. NameChecks!Spec => []NameChecks!Budget
  BY LobbyChecksConstants, NameChecks!BudgetHolds
<1> QED
  BY <1>1, LobbiesImplementChecks, PTL

LobbyCaused(l) ==
    lobby'[l].active # lobby[l].active =>
       \E q \in At({"writeLobby"}) : req[q].row = l /\ req[q].flag = lobby'[l].active

LEMMA LobbyStepCaused ==
    ASSUME LobbyInv, LobbiesNext, NEW l \in AllLobbies(TRUE)
    PROVE  LobbyCaused(l)
<1>1. ASSUME NEW q \in Requests, LobbyInsert(q) PROVE LobbyCaused(l)
  BY <1>1, LobbyInsertTable DEF Lobbies, AllLobbies, LobbyCaused
<1>2. ASSUME NEW q \in Requests, LobbyWrite(q) PROVE LobbyCaused(l)
  <2>1. \A k \in LobbyIds \ {req[q].row} : lobby'[k] = lobby[k]
    BY <1>2, LobbyWriteTable
  <2>2. q \in At({"writeLobby"}) /\ req[q].row \in LobbyIds
    BY <1>2, LobbyWriteTable DEF LobbyWrite, At, Lobbies
  <2>3. lobby'[req[q].row].active =
           IF req[q].flag = None THEN lobby[req[q].row].active ELSE req[q].flag
    BY <1>2, <2>2 DEF LobbyWrite, LobbyInv
  <2> QED
    BY <2>1, <2>2, <2>3 DEF Lobbies, AllLobbies, LobbyCaused
<1>3. CASE UNCHANGED lobby
  BY <1>3 DEF LobbyCaused
<1> QED
  BY <1>1, <1>2, <1>3 DEF LobbiesNext, LobbyCheck, LobbyFind, LobbyRenameCheck,
                          LobbyDeactivate, LobbyAbort

\* A lobby goes on or off only by a request that says so.
THEOREM ActiveHasCause == LobbiesSpec => ActiveFollowsRequest
<1>1. LobbyInv /\ [LobbiesNext]_lobbyVars =>
         [\A l \in AllLobbies(TRUE) : LobbyCaused(l)]_lobbyVars
  BY LobbyStepCaused
<1> QED
  BY <1>1, LobbyInitInv, LobbyStepInv, PTL DEF LobbiesSpec, ActiveFollowsRequest, LobbyCaused

-----------------------------------------------------------------------------
(* Exports.                                                                *)

ExportChecks == INSTANCE CheckThenInsertProofs WITH
    Keys    <- Users,
    Limit   <- [u \in Users |-> 1],
    rows    <- [u \in Users |-> Cardinality(PendingOf(u))],
    holders <- [u \in Users |-> ExportHolders(u)]

ExportSlots == [pc : {"idle", "insertExport", "deleteExport", "complete"},
          user : Users \cup {None}, row : ExportIds \cup {None}, name : {None}, flag : {None}]

ExportTypes ==
    /\ req \in [Requests -> ExportSlots]
    /\ export \in [ExportIds -> [state : {"none", "Pending", "Completed", "gone"},
                                 owner : Users \cup {None},
                                 expires : {None, "valid", "expired", "stale"}]]
    /\ cleanup \in [on : BOOLEAN, todo : SUBSET ExportIds]

\* What a request remembers is about users and rows there are.
ExportSlotOK(q) ==
    /\ req[q].pc = "insertExport" => req[q].user \in Users
    /\ req[q].pc \in {"deleteExport", "complete"} =>
          req[q].row \in ExportIds /\ export[req[q].row].state # "none"
    /\ req[q].pc = "deleteExport" /\ req[q].row \in Stored =>
          export[req[q].row].owner = req[q].user

\* A row that somebody is about to delete is not completed, or it is stale, or
\* the reader has been overtaken.
WatchedByCancel(q) ==
    req[q].pc = "deleteExport" /\ export[req[q].row].state = "Completed" =>
        <<q, req[q].row>> \in overtaken

WatchedByJob(e) ==
    e \in cleanup.todo /\ export[e].state = "Completed" =>
        export[e].expires = "stale" \/ <<None, e>> \in overtaken

\* The inductive invariant.
ExportInv ==
    /\ ExportTypes
    /\ \A e \in Stored : export[e].expires # None <=> export[e].state = "Completed"
    /\ ~cleanup.on => cleanup.todo = {}
    /\ \A q \in Requests : ExportSlotOK(q) /\ WatchedByCancel(q)
    /\ \A e \in ExportIds : WatchedByJob(e)

LEMMA ExportInitInv == HandlersInit(0) /\ ExportsInit => ExportInv
BY DEF HandlersInit, ExportsInit, ExportInv, ExportTypes, ExportSlots, ExportSlotOK,
       WatchedByCancel, WatchedByJob, Request, NoExport, IdleCleanup, Stored

-----------------------------------------------------------------------------
(* Steps that leave the table alone.                                       *)

\* A request begins.
LEMMA ExportStartInv ==
    ASSUME ExportInv, NEW q \in Requests, NEW u \in Users, NEW e \in ExportIds \cup {None},
           NEW next \in {"insertExport", "deleteExport", "complete"},
           Start(q, next, u, e, None, None), UNCHANGED exportTables,
           next # "insertExport" => e \in Stored,
           next = "deleteExport" => export[e].owner = u /\ export[e].state # "Completed"
    PROVE  ExportInv'
<1>1. /\ req' \in [Requests -> ExportSlots]
      /\ req'[q].pc = next /\ req'[q].row = e /\ req'[q].user = u
      /\ \A p \in Requests \ {q} : req'[p] = req[p]
  BY DEF Start, ExportInv, ExportTypes, ExportSlots
<1>2. export' = export /\ cleanup' = cleanup /\ overtaken' = overtaken
  BY DEF exportTables
<1>3. ExportSlotOK(q)' /\ WatchedByCancel(q)'
  BY <1>1, <1>2 DEF ExportSlotOK, WatchedByCancel, Stored
<1>4. \A p \in Requests \ {q} : ExportSlotOK(p)' /\ WatchedByCancel(p)'
  BY <1>1, <1>2 DEF ExportSlotOK, WatchedByCancel, Stored, ExportInv
<1> QED
  BY <1>1, <1>2, <1>3, <1>4 DEF ExportInv, ExportTypes, WatchedByJob, Stored

\* A request ends.
LEMMA ExportReturnSlot ==
    ASSUME ExportInv, NEW q \in Requests, Return(q)
    PROVE  /\ req' \in [Requests -> ExportSlots]
           /\ req'[q].pc = "idle"
           /\ \A p \in Requests \ {q} : req'[p] = req[p]
BY DEF ExportInv, ExportTypes, ExportSlots, Return, Request

LEMMA ExportAbortInv == ASSUME ExportInv, NEW q \in Requests, ExportAbort(q) PROVE ExportInv'
<1>1. /\ Return(q) /\ export' = export /\ cleanup' = cleanup
      /\ overtaken' = overtaken \ {<<q, req[q].row>>}
  BY DEF ExportAbort
<1>2. /\ req' \in [Requests -> ExportSlots] /\ req'[q].pc = "idle"
      /\ \A p \in Requests \ {q} : req'[p] = req[p]
  BY <1>1, ExportReturnSlot
<1>3. \A p \in Requests : ExportSlotOK(p)' /\ WatchedByCancel(p)'
  BY <1>1, <1>2 DEF ExportInv, ExportSlotOK, WatchedByCancel, Stored
<1>4. \A e \in ExportIds : WatchedByJob(e)'
  BY <1>1, ExportIdsAssumption DEF ExportInv, WatchedByJob
<1> QED
  BY <1>1, <1>2, <1>3, <1>4 DEF ExportInv, ExportTypes, Stored

-----------------------------------------------------------------------------
(* Steps that change a row.                                                *)

\* What a change of one row leaves to be shown.
LEMMA ExportRowInv ==
    ASSUME ExportInv, NEW e \in ExportIds, ExportTypes',
           \A d \in ExportIds \ {e} : export'[d] = export[d],
           \A q \in Requests : req'[q] = req[q] \/ req'[q].pc = "idle",
           export'[e].state # "none",
           e \in Stored' => export[e].state = "none" \/ (e \in Stored /\ export'[e].owner = export[e].owner),
           e \in Stored' => (export'[e].expires # None <=> export'[e].state = "Completed"),
           ~cleanup'.on => cleanup'.todo = {},
           \A q \in Requests, d \in ExportIds \ {e} :
               <<q, d>> \in overtaken /\ req'[q].pc = "deleteExport" => <<q, d>> \in overtaken',
           \A q \in Requests :
               req'[q].pc = "deleteExport" /\ req'[q].row = e => WatchedByCancel(q)',
           \A d \in ExportIds : WatchedByJob(d)'
    PROVE  ExportInv'
<1>1. \A d \in Stored' : export'[d].expires # None <=> export'[d].state = "Completed"
  BY DEF ExportInv, Stored
<1>2. ASSUME NEW q \in Requests PROVE ExportSlotOK(q)' /\ WatchedByCancel(q)'
  <2>1. CASE req'[q].pc = "idle"
    BY <2>1 DEF ExportSlotOK, WatchedByCancel
  <2>2. CASE req'[q] = req[q]
    <3>1. ExportSlotOK(q) /\ WatchedByCancel(q)
      BY DEF ExportInv
    <3>2. ExportSlotOK(q)'
      BY <2>2, <3>1 DEF ExportSlotOK, Stored
    <3>3. WatchedByCancel(q)'
      BY <2>2, <3>1 DEF ExportSlotOK, WatchedByCancel
    <3> QED
      BY <3>2, <3>3
  <2> QED
    BY <2>1, <2>2
<1> QED
  BY <1>1, <1>2 DEF ExportInv

LEMMA ExportInsertInv == ASSUME ExportInv, NEW q \in Requests, ExportInsert(q) PROVE ExportInv'
<1>1. PICK e \in ExportIds :
        /\ export[e].state = "none"
        /\ export' = [export EXCEPT ![e] = [state |-> "Pending", owner |-> req[q].user,
                                            expires |-> None]]
  BY DEF ExportInsert
<1>2. /\ Return(q) /\ cleanup' = cleanup /\ overtaken' = overtaken
      /\ req[q].pc = "insertExport"
  BY DEF ExportInsert
<1>3. /\ req' \in [Requests -> ExportSlots] /\ req'[q].pc = "idle"
      /\ \A p \in Requests \ {q} : req'[p] = req[p]
  BY <1>2, ExportReturnSlot
<1>4. req[q].user \in Users
  BY <1>2 DEF ExportInv, ExportSlotOK
<1>5. /\ ExportTypes'
      /\ export'[e] = [state |-> "Pending", owner |-> req[q].user, expires |-> None]
      /\ \A d \in ExportIds \ {e} : export'[d] = export[d]
  BY <1>1, <1>2, <1>3, <1>4 DEF ExportInv, ExportTypes
<1>6. \A d \in ExportIds : WatchedByJob(d)'
  BY <1>2, <1>5 DEF ExportInv, WatchedByJob
<1>7. \A p \in Requests : req'[p].row = e => WatchedByCancel(p)'
  BY <1>5 DEF WatchedByCancel
<1>8. /\ export'[e].state # "none"
      /\ e \in Stored' => export[e].state = "none" \/ (e \in Stored /\ export'[e].owner = export[e].owner)
      /\ e \in Stored' => (export'[e].expires # None <=> export'[e].state = "Completed")
      /\ ~cleanup'.on => cleanup'.todo = {}
  BY <1>1, <1>2, <1>5 DEF ExportInv
<1>9. /\ \A p \in Requests : req'[p] = req[p] \/ req'[p].pc = "idle"
      /\ \A p \in Requests, d \in ExportIds \ {e} :
            <<p, d>> \in overtaken /\ req'[p].pc = "deleteExport" => <<p, d>> \in overtaken'
      /\ \A p \in Requests :
            req'[p].pc = "deleteExport" /\ req'[p].row = e => WatchedByCancel(p)'
  BY <1>2, <1>3, <1>7
<1> QED
  BY <1>5, <1>6, <1>8, <1>9, ExportRowInv

LEMMA CancelInv == ASSUME ExportInv, NEW q \in Requests, CancelDelete(q) PROVE ExportInv'
<1> DEFINE e == req[q].row
<1>1. /\ req[q].pc = "deleteExport" /\ Return(q) /\ cleanup' = cleanup
      /\ export' = [export EXCEPT ![e] = NoExport("gone")]
      /\ overtaken' = overtaken \ {<<q, e>>}
  BY DEF CancelDelete
<1>2. /\ req' \in [Requests -> ExportSlots] /\ req'[q].pc = "idle"
      /\ \A p \in Requests \ {q} : req'[p] = req[p]
  BY <1>1, ExportReturnSlot
<1>3. e \in ExportIds
  BY <1>1 DEF ExportInv, ExportSlotOK
<1>4. /\ ExportTypes' /\ export'[e].state = "gone"
      /\ \A d \in ExportIds \ {e} : export'[d] = export[d]
  BY <1>1, <1>2, <1>3 DEF ExportInv, ExportTypes, NoExport
<1>5. \A d \in ExportIds : WatchedByJob(d)'
  BY <1>1, <1>4, ExportIdsAssumption DEF ExportInv, WatchedByJob
<1>6. \A p \in Requests : req'[p].row = e => WatchedByCancel(p)'
  BY <1>4 DEF WatchedByCancel
<1>7. e \notin Stored'
  BY <1>4 DEF Stored
<1> HIDE DEF e
<1>8. /\ export'[e].state # "none"
      /\ e \in Stored' => export[e].state = "none" \/ (e \in Stored /\ export'[e].owner = export[e].owner)
      /\ e \in Stored' => (export'[e].expires # None <=> export'[e].state = "Completed")
      /\ ~cleanup'.on => cleanup'.todo = {}
  BY <1>1, <1>4, <1>7 DEF ExportInv
<1>9. /\ \A p \in Requests : req'[p] = req[p] \/ req'[p].pc = "idle"
      /\ \A p \in Requests, d \in ExportIds \ {e} :
            <<p, d>> \in overtaken /\ req'[p].pc = "deleteExport" => <<p, d>> \in overtaken'
      /\ \A p \in Requests :
            req'[p].pc = "deleteExport" /\ req'[p].row = e => WatchedByCancel(p)'
  BY <1>1, <1>2, <1>6
<1> QED
  BY <1>3, <1>4, <1>5, <1>8, <1>9, ExportRowInv

LEMMA ExportCompleteInv == ASSUME ExportInv, NEW q \in Requests, CompleteWrite(q) PROVE ExportInv'
<1> DEFINE e == req[q].row
<1>1. req[q].pc = "complete" /\ Return(q) /\ cleanup' = cleanup
  BY DEF CompleteWrite
<1>2. /\ req' \in [Requests -> ExportSlots] /\ req'[q].pc = "idle"
      /\ \A p \in Requests \ {q} : req'[p] = req[p]
  BY <1>1, ExportReturnSlot
<1>3. CASE e \notin Stored /\ UNCHANGED <<export, overtaken>>
  BY <1>1, <1>2, <1>3 DEF ExportInv, ExportTypes, ExportSlotOK, WatchedByCancel, WatchedByJob, Stored
<1>4. CASE /\ e \in Stored
           /\ export' = [export EXCEPT ![e] = [@ EXCEPT !.state = "Completed",
                                                        !.expires = "valid"]]
           /\ overtaken' = overtaken \cup (Readers(e) \X {e})
  <2>1. e \in ExportIds
    BY <1>4 DEF Stored
  <2> DEFINE new == [export[e] EXCEPT !.state = "Completed", !.expires = "valid"]
  <2>6. export[e] \in [state : {"none", "Pending", "Completed", "gone"},
                       owner : Users \cup {None}, expires : {None, "valid", "expired", "stale"}]
    BY <2>1 DEF ExportInv, ExportTypes
  <2>7. /\ new \in [state : {"none", "Pending", "Completed", "gone"},
                     owner : Users \cup {None}, expires : {None, "valid", "expired", "stale"}]
        /\ new.state = "Completed" /\ new.expires = "valid" /\ new.owner = export[e].owner
    BY <2>6
  <2>8. export' = [export EXCEPT ![e] = new]
    BY <1>4
  <2> HIDE DEF new
  <2>2. /\ ExportTypes'
        /\ export'[e].state = "Completed" /\ export'[e].expires = "valid"
        /\ export'[e].owner = export[e].owner
        /\ \A d \in ExportIds \ {e} : export'[d] = export[d]
    BY <1>1, <1>2, <2>1, <2>7, <2>8 DEF ExportInv, ExportTypes
  <2>3. \A d \in ExportIds : WatchedByJob(d)'
    BY <1>1, <1>4, <2>2 DEF ExportInv, WatchedByJob, Readers
  <2>4. ASSUME NEW p \in Requests, req'[p].pc = "deleteExport", req'[p].row = e
        PROVE  WatchedByCancel(p)'
    <3>1. p \in Readers(e)
      BY <1>2, <2>4 DEF Readers, At
    <3> QED
      BY <1>4, <2>4, <3>1 DEF WatchedByCancel
  <2>5. /\ export'[e].state # "none"
        /\ e \in Stored' => export[e].state = "none" \/ (e \in Stored /\ export'[e].owner = export[e].owner)
        /\ e \in Stored' => (export'[e].expires # None <=> export'[e].state = "Completed")
        /\ ~cleanup'.on => cleanup'.todo = {}
    BY <1>1, <1>4, <2>2, ExportIdsAssumption DEF ExportInv
  <2>9. /\ \A p \in Requests : req'[p] = req[p] \/ req'[p].pc = "idle"
        /\ \A p \in Requests, d \in ExportIds \ {e} :
              <<p, d>> \in overtaken /\ req'[p].pc = "deleteExport" => <<p, d>> \in overtaken'
    BY <1>2, <1>4
  <2> HIDE DEF e
  <2> QED
    BY <2>1, <2>2, <2>3, <2>4, <2>5, <2>9, ExportRowInv
<1> QED
  BY <1>3, <1>4 DEF CompleteWrite

-----------------------------------------------------------------------------
(* The job.                                                                *)

LEMMA ExportAgesInv == ASSUME ExportInv, NEW e \in ExportIds, ExportAges(e) PROVE ExportInv'
<1>1. /\ e \in Stored /\ export[e].expires \in {"valid", "expired"}
      /\ export' = [export EXCEPT ![e].expires = IF @ = "valid" THEN "expired" ELSE "stale"]
      /\ req' = req /\ cleanup' = cleanup /\ overtaken' = overtaken
  BY DEF ExportAges, requests
<1> DEFINE age == IF export[e].expires = "valid" THEN "expired" ELSE "stale"
<1>2. /\ export'[e].state = export[e].state /\ export'[e].owner = export[e].owner
      /\ export'[e].expires = age
      /\ export'[e] \in [state : {"none", "Pending", "Completed", "gone"},
                         owner : Users \cup {None}, expires : {None, "valid", "expired", "stale"}]
      /\ \A d \in ExportIds \ {e} : export'[d] = export[d]
  BY <1>1 DEF ExportInv, ExportTypes
<1>3. ExportTypes'
  BY <1>1, <1>2 DEF ExportInv, ExportTypes
<1>4. \A d \in ExportIds : WatchedByJob(d)'
  BY <1>1, <1>2 DEF ExportInv, WatchedByJob
<1>5. \A q \in Requests : WatchedByCancel(q)'
  BY <1>1, <1>2 DEF ExportInv, WatchedByCancel, ExportTypes, ExportSlotOK
<1>6. /\ export'[e].state # "none"
      /\ e \in Stored' => export[e].state = "none" \/ (e \in Stored /\ export'[e].owner = export[e].owner)
      /\ e \in Stored' => (export'[e].expires # None <=> export'[e].state = "Completed")
      /\ ~cleanup'.on => cleanup'.todo = {}
  <2>1. export[e].state # "none" /\ export[e].state = "Completed"
    BY <1>1, ExportIdsAssumption DEF ExportInv, Stored
  <2> QED
    BY <1>1, <1>2, <2>1, ExportIdsAssumption DEF ExportInv
<1>7. /\ \A q \in Requests : req'[q] = req[q] \/ req'[q].pc = "idle"
      /\ \A q \in Requests, d \in ExportIds \ {e} :
            <<q, d>> \in overtaken /\ req'[q].pc = "deleteExport" => <<q, d>> \in overtaken'
  BY <1>1
<1> QED
  BY <1>2, <1>3, <1>4, <1>5, <1>6, <1>7, ExportRowInv

LEMMA CleanupDeleteInv == ASSUME ExportInv, NEW e \in ExportIds, CleanupDelete(e) PROVE ExportInv'
<1>1. /\ e \in cleanup.todo
      /\ export' = [export EXCEPT ![e] = NoExport("gone")]
      /\ cleanup' = [cleanup EXCEPT !.todo = @ \ {e}]
      /\ overtaken' = overtaken \ {<<None, e>>}
      /\ req' = req
  BY DEF CleanupDelete, requests
<1>2. /\ ExportTypes' /\ export'[e].state = "gone"
      /\ \A d \in ExportIds \ {e} : export'[d] = export[d]
      /\ cleanup'.on = cleanup.on /\ cleanup'.todo = cleanup.todo \ {e}
  BY <1>1 DEF ExportInv, ExportTypes, NoExport
<1>3. \A d \in ExportIds : WatchedByJob(d)'
  BY <1>1, <1>2 DEF ExportInv, WatchedByJob
<1>4. \A q \in Requests, d \in ExportIds : <<q, d>> \in overtaken => <<q, d>> \in overtaken'
  BY <1>1, ExportIdsAssumption
<1>5. e \notin Stored' /\ \A q \in Requests : req'[q].row = e => WatchedByCancel(q)'
  BY <1>2 DEF Stored, WatchedByCancel
<1>6. ~cleanup'.on => cleanup'.todo = {}
  BY <1>2 DEF ExportInv
<1> QED
  BY <1>1, <1>2, <1>3, <1>4, <1>5, <1>6, ExportRowInv

LEMMA CleanupInv == ASSUME ExportInv, CleanupSelect \/ CleanupDone PROVE ExportInv'
<1>1. /\ export' = export /\ req' = req /\ overtaken' = overtaken
      /\ cleanup' \in [on : BOOLEAN, todo : SUBSET ExportIds]
      /\ ~cleanup'.on => cleanup'.todo = {}
      /\ \A e \in cleanup'.todo : export[e].expires = "stale"
  <2>1. CASE CleanupSelect
    <3> DEFINE found == {e \in ExportIds : export[e].state = "Completed" /\ export[e].expires = "stale"}
    <3>1. cleanup' = [on |-> TRUE, todo |-> found]
      BY <2>1 DEF CleanupSelect
    <3>2. found \in SUBSET ExportIds /\ \A e \in found : export[e].expires = "stale"
      OBVIOUS
    <3>3. export' = export /\ req' = req /\ overtaken' = overtaken
      BY <2>1 DEF CleanupSelect, requests
    <3> HIDE DEF found
    <3> QED
      BY <3>1, <3>2, <3>3
  <2>2. CASE CleanupDone
    BY <2>2 DEF CleanupDone, IdleCleanup, requests
  <2> QED
    BY <2>1, <2>2
<1> QED
  BY <1>1 DEF ExportInv, ExportTypes, ExportSlotOK, WatchedByCancel, WatchedByJob, Stored

-----------------------------------------------------------------------------
(* The theorems.                                                           *)

LEMMA ExportStepInv == ExportInv /\ [ExportsNext]_exportVars => ExportInv'
<1> SUFFICES ASSUME ExportInv, [ExportsNext]_exportVars PROVE ExportInv'
  OBVIOUS
<1>1. ASSUME NEW q \in Requests, NEW u \in Users, ExportCheck(q, u) PROVE ExportInv'
  BY <1>1, ExportStartInv DEF ExportCheck
<1>2. ASSUME NEW q \in Requests, NEW u \in Users, NEW e \in ExportIds, CancelFind(q, u, e)
      PROVE  ExportInv'
  BY <1>2, ExportStartInv DEF CancelFind
<1>3. ASSUME NEW q \in Requests, NEW u \in Users, NEW e \in ExportIds, CompleteFind(q, u, e)
      PROVE  ExportInv'
  BY <1>3, ExportStartInv DEF CompleteFind
<1>4. ASSUME req' = req, UNCHANGED exportTables PROVE ExportInv'
  BY <1>4 DEF exportTables, ExportInv, ExportTypes, ExportSlotOK, WatchedByCancel,
              WatchedByJob, Stored
<1>5. ASSUME \/ UNCHANGED exportVars
             \/ \E u \in Users : ChangeRole(u) /\ UNCHANGED exportTables
      PROVE  ExportInv'
  BY <1>4, <1>5 DEF exportVars, exportTables, requests, ChangeRole
<1> QED
  BY <1>1, <1>2, <1>3, <1>5, ExportInsertInv, CancelInv, ExportCompleteInv, ExportAbortInv, ExportAgesInv,
     CleanupDeleteInv, CleanupInv DEF ExportsNext, CleanupExports

\* The table keeps its types, an expiry means a completion, and what a request
\* remembers exists or has been deleted.
THEOREM ExportTypeCorrect == ExportsSpec => []ExportTypeOK
<1>1. ExportInv => ExportTypeOK
  BY DEF ExportInv, ExportTypes, ExportSlotOK, ExportTypeOK, At
<1> QED
  BY <1>1, ExportInitInv, ExportStepInv, PTL DEF ExportsSpec

\* One step keeps what is completed, but for a race.
ExportKept(u, e) ==
    \/ e \in ExportsOf(u, "Completed")'
          /\ (e \in Downloadable(u) => e \in Downloadable(u)' \/ export'[e].expires = "expired")
    \/ export[e].expires = "stale"
    \/ \E p \in Readers(e) : <<p, e>> \in overtaken

LEMMA ExportStepKeeps ==
    ASSUME ExportInv, ExportsNext, NEW u \in Users, NEW e \in ExportsOf(u, "Completed")
    PROVE  ExportKept(u, e)
<1>1. e \in ExportIds /\ export[e].state = "Completed" /\ export[e].owner = u
  BY DEF ExportsOf, Stored
<1>2. ASSUME export'[e] = export[e] PROVE ExportKept(u, e)
  BY <1>1, <1>2 DEF ExportKept, ExportsOf, Downloadable, Stored
<1>3. ASSUME NEW q \in Requests, ExportInsert(q) PROVE ExportKept(u, e)
  <2>1. export'[e] = export[e]
    BY <1>1, <1>3 DEF ExportInsert, ExportInv, ExportTypes
  <2> QED
    BY <2>1, <1>2
<1>4. ASSUME NEW q \in Requests, CancelDelete(q) PROVE ExportKept(u, e)
  <2>1. CASE req[q].row = e
    <3>1. q \in Readers(e) /\ <<q, e>> \in overtaken
      BY <1>1, <1>4, <2>1 DEF CancelDelete, Readers, At, ExportInv, WatchedByCancel
    <3> QED
      BY <3>1 DEF ExportKept
  <2>2. CASE req[q].row # e
    <3>1. export'[e] = export[e]
      BY <1>1, <1>4, <2>2 DEF CancelDelete, ExportInv, ExportTypes
    <3> QED
      BY <3>1, <1>2
  <2> QED
    BY <2>1, <2>2
<1>5. ASSUME NEW q \in Requests, CompleteWrite(q) PROVE ExportKept(u, e)
  <2>1. export[e] \in [state : {"none", "Pending", "Completed", "gone"},
                       owner : Users \cup {None}, expires : {None, "valid", "expired", "stale"}]
    BY <1>1 DEF ExportInv, ExportTypes
  <2>2. export'[e] = export[e] \/ export'[e] = [export[e] EXCEPT !.state = "Completed",
                                                               !.expires = "valid"]
    <3> DEFINE d == req[q].row
               new == [export[d] EXCEPT !.state = "Completed", !.expires = "valid"]
    <3>1. export' = [export EXCEPT ![d] = new] \/ export' = export
      BY <1>5 DEF CompleteWrite
    <3>2. CASE d = e
      BY <1>1, <3>1, <3>2 DEF ExportInv, ExportTypes
    <3>3. CASE d # e
      <4> HIDE DEF new
      <4> QED
        BY <1>1, <3>1, <3>3 DEF ExportInv, ExportTypes
    <3> QED
      BY <3>2, <3>3
  <2>3. CASE export'[e] = [export[e] EXCEPT !.state = "Completed", !.expires = "valid"]
    <3>1. export'[e].state = "Completed" /\ export'[e].expires = "valid" /\ export'[e].owner = u
      BY <1>1, <2>1, <2>3
    <3> QED
      BY <1>1, <3>1 DEF ExportKept, ExportsOf, Downloadable, Stored
  <2> QED
    BY <2>2, <2>3, <1>2
<1>6. ASSUME NEW d \in ExportIds, ExportAges(d) PROVE ExportKept(u, e)
  <2>1. CASE d = e
    <3>1. /\ export'[e].state = "Completed" /\ export'[e].owner = u
          /\ export[e].expires = "valid" => export'[e].expires = "expired"
      BY <1>1, <1>6, <2>1 DEF ExportAges, ExportInv, ExportTypes
    <3> QED
      BY <1>1, <3>1 DEF ExportKept, ExportsOf, Downloadable, Stored
  <2>2. CASE d # e
    <3>1. export'[e] = export[e]
      BY <1>1, <1>6, <2>2 DEF ExportAges, ExportInv, ExportTypes
    <3> QED
      BY <3>1, <1>2
  <2> QED
    BY <2>1, <2>2
<1>7. ASSUME NEW d \in ExportIds, CleanupDelete(d) PROVE ExportKept(u, e)
  <2>1. CASE d = e
    <3>1. None \in Readers(e) /\ (export[e].expires = "stale" \/ <<None, e>> \in overtaken)
      BY <1>1, <1>7, <2>1 DEF CleanupDelete, Readers, ExportInv, WatchedByJob
    <3> QED
      BY <3>1 DEF ExportKept
  <2>2. CASE d # e
    <3>1. export'[e] = export[e]
      BY <1>1, <1>7, <2>2 DEF CleanupDelete, ExportInv, ExportTypes
    <3> QED
      BY <3>1, <1>2
  <2> QED
    BY <2>1, <2>2
<1>8. CASE UNCHANGED export
  BY <1>8, <1>2
<1> QED
  BY <1>3, <1>4, <1>5, <1>6, <1>7, <1>8
  DEF ExportsNext, ExportCheck, CancelFind, CompleteFind, ExportAbort, CleanupExports,
      CleanupSelect, CleanupDone, exportTables

\* A completed export is lost only when it is stale, or when a cancel or the
\* job read it before it was completed.
THEOREM CompletedIsKept == ExportsSpec => ExportIsKept
<1>1. ExportInv /\ [ExportsNext]_exportVars =>
         [\A u \in Users : \A e \in ExportsOf(u, "Completed") : ExportKept(u, e)]_exportVars
  BY ExportStepKeeps
<1> QED
  BY <1>1, ExportInitInv, ExportStepInv, PTL DEF ExportsSpec, ExportIsKept, ExportKept

-----------------------------------------------------------------------------
(* The refinement, one user at a time.                                     *)

LEMMA ExportFinite ==
    ASSUME ExportInv, NEW u \in Users
    PROVE  /\ IsFiniteSet(PendingOf(u)) /\ Cardinality(PendingOf(u)) \in Nat
           /\ ExportHolders(u) \subseteq Requests
<1>1. PendingOf(u) \in SUBSET ExportIds
  BY DEF PendingOf
<1>2. IsFiniteSet(PendingOf(u))
  BY <1>1, ExportIdsAssumption, FS_Subset
<1> QED
  BY <1>2, FS_CardinalityType DEF ExportHolders, At

LEMMA ExportRemoveKey ==
    ASSUME NEW u \in Users, ExportInv, ExportHolders(u)' = ExportHolders(u),
           PendingOf(u)' \subseteq PendingOf(u)
    PROVE  ExportChecks!KeyStep(u)
<1>1. /\ IsFiniteSet(PendingOf(u)')
      /\ Cardinality(PendingOf(u)') <= Cardinality(PendingOf(u))
  BY ExportFinite, FS_Subset
<1>2. Cardinality(PendingOf(u)') \in Nat /\ Cardinality(PendingOf(u)) \in Nat
  BY <1>1, ExportFinite, FS_CardinalityType
<1>3. ExportChecks!Remove(u)
  BY <1>1, <1>2 DEF ExportChecks!Remove
<1> QED
  BY <1>3 DEF ExportChecks!KeyStep

LEMMA ExportLeaveKey ==
    ASSUME NEW u \in Users, NEW q \in Requests, NEW e, ExportInv, q \in ExportHolders(u),
           ExportHolders(u)' = ExportHolders(u) \ {q},
           PendingOf(u)' \in {PendingOf(u), PendingOf(u) \cup {e}}
    PROVE  ExportChecks!KeyStep(u)
<1>1. Cardinality(PendingOf(u)') \in {Cardinality(PendingOf(u)), Cardinality(PendingOf(u)) + 1}
  BY ExportFinite, FS_AddElement
<1>2. ExportChecks!Leave(u, q)
  BY <1>1 DEF ExportChecks!Leave
<1> QED
  BY <1>2 DEF ExportChecks!KeyStep

\* A request that has found no pending export passes; other users' are as
\* they were.
LEMMA ExportCheckKey ==
    ASSUME NEW k \in Users, NEW q \in Requests, NEW u \in Users, ExportInv, ExportCheck(q, u)
    PROVE  ExportChecks!KeyStep(k)
<1>1. /\ PendingOf(u) = {} /\ export' = export
      /\ Start(q, "insertExport", u, None, None, None)
  BY DEF ExportCheck, exportTables
<1>2. /\ req[q].pc = "idle" /\ req'[q].pc = "insertExport" /\ req'[q].user = u
      /\ \A p \in Requests \ {q} : req'[p] = req[p]
  BY <1>1 DEF Start, ExportInv, ExportTypes
<1>3. PendingOf(k)' = PendingOf(k)
  BY <1>1 DEF PendingOf
<1>4. CASE k = u
  <2>1. ExportHolders(k)' = ExportHolders(k) \cup {q} /\ q \notin ExportHolders(k)
    BY <1>2, <1>4 DEF ExportHolders, At
  <2>2. Cardinality(PendingOf(k)) = 0 /\ Cardinality(PendingOf(k)') = 0
    BY <1>1, <1>3, <1>4, FS_EmptySet
  <2>3. ExportChecks!Pass(k, q)
    BY <2>1, <2>2 DEF ExportChecks!Pass
  <2> QED
    BY <2>3 DEF ExportChecks!KeyStep
<1>5. CASE k # u
  <2>1. ExportHolders(k)' = ExportHolders(k)
    BY <1>2, <1>5 DEF ExportHolders, At
  <2> QED
    BY <1>3, <2>1, ExportRemoveKey
<1> QED
  BY <1>4, <1>5

LEMMA ExportInsertKey ==
    ASSUME NEW k \in Users, NEW q \in Requests, ExportInv, ExportInsert(q)
    PROVE  ExportChecks!KeyStep(k)
<1>1. req[q].pc = "insertExport" /\ Return(q)
  BY DEF ExportInsert
<1>2. req'[q].pc = "idle" /\ \A p \in Requests \ {q} : req'[p] = req[p]
  BY <1>1, ExportReturnSlot
<1>3. PICK e \in ExportIds :
        /\ export[e].state = "none"
        /\ export' = [export EXCEPT ![e] = [state |-> "Pending", owner |-> req[q].user,
                                            expires |-> None]]
  BY DEF ExportInsert
<1>4. /\ export'[e].state = "Pending" /\ export'[e].owner = req[q].user
      /\ \A d \in ExportIds \ {e} : export'[d] = export[d]
  BY <1>3 DEF ExportInv, ExportTypes
<1>5. CASE k = req[q].user
  <2>1. q \in ExportHolders(k) /\ ExportHolders(k)' = ExportHolders(k) \ {q}
    BY <1>1, <1>2, <1>5 DEF ExportHolders, At
  <2>2. PendingOf(k)' = PendingOf(k) \cup {e}
    BY <1>4, <1>5 DEF PendingOf
  <2> QED
    BY <2>1, <2>2, ExportLeaveKey
<1>6. CASE k # req[q].user
  <2>1. ExportHolders(k)' = ExportHolders(k)
    BY <1>2, <1>6 DEF ExportHolders, At
  <2>2. PendingOf(k)' \subseteq PendingOf(k)
    BY <1>4, <1>6 DEF PendingOf
  <2> QED
    BY <2>1, <2>2, ExportRemoveKey
<1> QED
  BY <1>5, <1>6

LEMMA ExportAbortKey ==
    ASSUME NEW k \in Users, NEW q \in Requests, ExportInv, ExportAbort(q)
    PROVE  ExportChecks!KeyStep(k)
<1>1. Return(q) /\ export' = export
  BY DEF ExportAbort
<1>2. req'[q].pc = "idle" /\ \A p \in Requests \ {q} : req'[p] = req[p]
  BY <1>1, ExportReturnSlot
<1>3. ExportHolders(k)' = ExportHolders(k) \ {q} /\ PendingOf(k)' = PendingOf(k)
  BY <1>1, <1>2 DEF ExportHolders, At, PendingOf
<1> QED
  BY <1>3, ExportLeaveKey, ExportRemoveKey

\* A step that makes no export pending, and neither begins nor ends a request
\* that is about to.
LEMMA ExportOtherKey ==
    ASSUME NEW k \in Users, ExportInv,
           \A p \in Requests : req'[p] = req[p] \/ {req[p].pc, req'[p].pc} \cap {"insertExport"} = {},
           \A e \in ExportIds : export'[e].state = "Pending" =>
               export[e].state = "Pending" /\ export'[e].owner = export[e].owner
    PROVE  ExportChecks!KeyStep(k)
<1>1. ExportHolders(k)' = ExportHolders(k)
  BY DEF ExportHolders, At
<1>2. PendingOf(k)' \subseteq PendingOf(k)
  BY DEF PendingOf
<1> QED
  BY <1>1, <1>2, ExportRemoveKey

LEMMA ExportStepKey ==
    ASSUME ExportInv, [ExportsNext]_exportVars, NEW k \in Users
    PROVE  ExportChecks!KeyStep(k)
<1>1. ASSUME NEW q \in Requests, NEW u \in Users, NEW e \in ExportIds,
             CancelFind(q, u, e) \/ CompleteFind(q, u, e)
      PROVE  ExportChecks!KeyStep(k)
  <2>1. export' = export
    BY <1>1 DEF CancelFind, CompleteFind, exportTables
  <2>2. PICK next \in {"deleteExport", "complete"} : Start(q, next, u, e, None, None)
    BY <1>1 DEF CancelFind, CompleteFind
  <2>3. /\ req[q].pc = "idle" /\ req'[q].pc \in {"deleteExport", "complete"}
        /\ \A p \in Requests \ {q} : req'[p] = req[p]
    BY <2>2 DEF Start, ExportInv, ExportTypes
  <2>4. \A p \in Requests : req'[p] = req[p] \/ {req[p].pc, req'[p].pc} \cap {"insertExport"} = {}
    BY <2>3
  <2> QED
    BY <2>1, <2>4, ExportOtherKey
<1>2. ASSUME NEW q \in Requests, CancelDelete(q) \/ CompleteWrite(q)
      PROVE  ExportChecks!KeyStep(k)
  <2>1. Return(q) /\ req[q].pc \in {"deleteExport", "complete"}
    BY <1>2 DEF CancelDelete, CompleteWrite
  <2>2. req'[q].pc = "idle" /\ \A p \in Requests \ {q} : req'[p] = req[p]
    BY <2>1, ExportReturnSlot
  <2>3. \A p \in Requests : req'[p] = req[p] \/ {req[p].pc, req'[p].pc} \cap {"insertExport"} = {}
    BY <2>1, <2>2
  <2>4. \A e \in ExportIds : export'[e] = export[e] \/ export'[e].state # "Pending"
    <3>1. CASE CancelDelete(q)
      BY <3>1 DEF CancelDelete, NoExport, ExportInv, ExportTypes
    <3>2. CASE CompleteWrite(q)
      <4> DEFINE d == req[q].row
                 new == [export[d] EXCEPT !.state = "Completed", !.expires = "valid"]
      <4>1. (d \in ExportIds /\ export' = [export EXCEPT ![d] = new]) \/ export' = export
        BY <3>2 DEF CompleteWrite, Stored
      <4>2. d \in ExportIds => new.state = "Completed"
        BY DEF ExportInv, ExportTypes
      <4> HIDE DEF new
      <4> QED
        BY <4>1, <4>2 DEF ExportInv, ExportTypes
    <3> QED
      BY <1>2, <3>1, <3>2
  <2> QED
    BY <2>3, <2>4, ExportOtherKey
<1>3. ASSUME NEW e \in ExportIds, ExportAges(e) PROVE ExportChecks!KeyStep(k)
  <2>1. req' = req
    BY <1>3 DEF ExportAges, requests
  <2>2. \A d \in ExportIds : export'[d].state = export[d].state /\ export'[d].owner = export[d].owner
    BY <1>3 DEF ExportAges, ExportInv, ExportTypes
  <2> QED
    BY <2>1, <2>2, ExportOtherKey
<1>4. ASSUME NEW e \in ExportIds, CleanupDelete(e) PROVE ExportChecks!KeyStep(k)
  <2>1. req' = req
    BY <1>4 DEF CleanupDelete, requests
  <2>2. \A d \in ExportIds : export'[d] = export[d] \/ export'[d].state # "Pending"
    BY <1>4 DEF CleanupDelete, NoExport, ExportInv, ExportTypes
  <2> QED
    BY <2>1, <2>2, ExportOtherKey
<1>5. ASSUME \/ CleanupSelect \/ CleanupDone \/ UNCHANGED exportVars
             \/ \E u \in Users : ChangeRole(u) /\ UNCHANGED exportTables
      PROVE  ExportChecks!KeyStep(k)
  <2>1. req' = req /\ export' = export
    BY <1>5 DEF CleanupSelect, CleanupDone, ChangeRole, exportVars, exportTables, requests
  <2> QED
    BY <2>1, ExportOtherKey
<1> QED
  BY <1>1, <1>2, <1>3, <1>4, <1>5, ExportCheckKey, ExportInsertKey, ExportAbortKey
     DEF ExportsNext, CleanupExports

LEMMA ExportInitKey == HandlersInit(0) /\ ExportsInit => ExportChecks!Init
<1> SUFFICES ASSUME HandlersInit(0), ExportsInit PROVE ExportChecks!Init
  OBVIOUS
<1>1. ASSUME NEW u \in Users
      PROVE  Cardinality(PendingOf(u)) = 0 /\ ExportHolders(u) = {}
  <2>1. PendingOf(u) = {}
    BY DEF ExportsInit, PendingOf, NoExport
  <2>2. ExportHolders(u) = {}
    BY DEF HandlersInit, Request, ExportHolders, At
  <2> QED
    BY <2>1, <2>2, FS_EmptySet
<1> QED
  BY <1>1 DEF ExportChecks!Init

\* The handlers of exports implement the check before the insert: at most one
\* pending export of a user, but for requests that overlap.
THEOREM ExportsImplementChecks == ExportsSpec => ExportChecks!Spec
<1>1. ExportInv /\ [ExportsNext]_exportVars => ExportChecks!Next
  BY ExportStepKey DEF ExportChecks!Next
<1> QED
  BY <1>1, ExportInitInv, ExportStepInv, ExportInitKey, PTL DEF ExportsSpec, ExportChecks!Spec

LEMMA ExportChecksConstants == ExportChecks!ConstantsOK
BY RequestsAssumption DEF ExportChecks!ConstantsOK, ExportChecks!IsFiniteSet, IsFiniteSet

\* So a user has no more pending exports than there were requests at once.
THEOREM PendingBudget == ExportsSpec => []ExportChecks!Budget
<1>1. ExportChecks!Spec => []ExportChecks!Budget
  BY ExportChecksConstants, ExportChecks!BudgetHolds
<1> QED
  BY <1>1, ExportsImplementChecks, PTL

=============================================================================
