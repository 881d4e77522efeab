---------------------------- MODULE ServiceProofs ----------------------------
(***************************************************************************)
(* Accounts, bots and the whole service, for any numbers of users, names,  *)
(* rows and requests: the audit log explains what it is about, offices are *)
(* used by those who held them, bots go on and off line for a cause, and   *)
(* every handler that checks before it inserts keeps to CheckThenInsert.   *)
(*                                                                         *)
(* Lobbies and exports have proofs of their own.  The parts share nothing  *)
(* but the request slots, so each part has an inductive invariant and the  *)
(* service has the one of the part that runs (ServiceInv).                 *)
(***************************************************************************)
EXTENDS Service, LobbiesExportsProofs

\* Checks of Service, with what has been proved of CheckThenInsert.
Kept == INSTANCE CheckThenInsertProofs WITH
    Keys    <- CheckedKeys,
    Limit   <- [k \in CheckedKeys |-> 1],
    rows    <- [k \in CheckedKeys |-> Cardinality(RowsOf(k))],
    holders <- [k \in CheckedKeys |-> HoldersOf(k)]

-----------------------------------------------------------------------------
(* Accounts: the invariant.                                                *)

Changeable == Subjects \cup ({"profile"} \X Users)

AccountPcs == {"idle", "insertUser", "writeProfile", "deleteUser", "writeUser", "writeReport",
               "insertConfig", "writeConfig", "audit"}
ChangePcs == {"writeUser", "writeReport", "insertConfig", "writeConfig", "writeProfile"}
AccountRows == Changeable \cup Users \cup {None}
AccountFlags == Statuses \cup ReportStatuses \cup Roles \cup Users \cup {None}

AccountSlots == [pc : AccountPcs, user : Users \cup {None}, row : AccountRows,
                 name : Names \cup {None}, flag : AccountFlags]
AccountRecords == [state : {"none", "exists", "deleted"}, name : Names \cup {None},
                   status : Statuses, role : Roles, profile : Users \cup {None}]
ReportRecords == [status : ReportStatuses \cup {None}, handler : Users \cup {None}]

AccountTables ==
    /\ account \in [Users -> AccountRecords]
    /\ session \subseteq Users
    /\ report \in [ReportIds -> ReportRecords]
    /\ config \in [ConfigKeys -> Users \cup {None}]
    /\ log \in [Subjects -> AccountFlags]

\* What a request remembers fits the statement it is about to make.
AccountSlotOK(q) ==
    LET r == req[q] IN
    /\ r.pc \in {"idle", "insertUser"} <=> r.user = None
    /\ r.pc = "insertUser" => r.name \in Names
    /\ r.pc = "writeProfile" => r.row \in {"profile"} \X Users /\ r.flag = r.user
    /\ r.pc = "deleteUser" => r.row \in Users
    /\ r.pc = "writeUser" =>
          \/ r.row \in {"status"} \X Users /\ r.flag \in Statuses
          \/ r.row \in {"role"} \X Users /\ r.flag \in Roles
    /\ r.pc = "writeUser" => account[r.row[2]].state # "none"
    /\ r.pc = "writeReport" => r.row \in {"report"} \X ReportIds /\ r.flag \in ReportStatuses
    /\ r.pc \in {"insertConfig", "writeConfig"} =>
          r.row \in {"config"} \X ConfigKeys /\ r.flag = r.user
    /\ r.pc = "writeConfig" => config[r.row[2]] # None
    /\ r.pc = "audit" => r.row \in Subjects /\ r.flag # None
    /\ r.pc = "audit" /\ r.row[1] = "config" => config[r.row[2]] # None

\* Whoever is about to change something may, or has lost his office meanwhile.
Entitled(q) ==
    \/ q \in fallen
    \/ /\ req[q].user \in Accounts
       /\ \/ account[req[q].user].role = "Admin"
          \/ /\ account[req[q].user].role = "Moderator"
             /\ req[q].row[1] \in {"report", "profile"}
          \/ req[q].row = <<"profile", req[q].user>>

\* A subject that is not blurred has at most one change under way, which is what
\* the subject is; without one, the newest entry says what it is.  What has
\* become None is gone for good.
LogOK(s) ==
    /\ s \notin blurred /\ Value(s) # None =>
          IF Writers(s) = {} THEN log[s] \in {None, Value(s)}
                             ELSE \E q \in Writers(s) : Writers(s) = {q} /\ req[q].flag = Value(s)
    /\ s[1] = "config" /\ log[s] # None => config[s[2]] # None

AccountOK(u) ==
    /\ account[u].name # None <=> u \in Accounts
    /\ account[u].state = "none" => account[u].status = "Active" /\ account[u].role = "Active"
    /\ \A v \in Accounts : u \in Accounts /\ account[v].name = account[u].name => v = u

\* The inductive invariant.
AccountsInv ==
    /\ req \in [Requests -> AccountSlots]
    /\ AccountTables
    /\ fallen \subseteq {q \in Requests : req[q].user # None}
    /\ \A u \in Users : AccountOK(u)
    /\ \A r \in ReportIds : report[r].status = "Dismissed" => report[r].handler # None
    /\ \A q \in Requests : AccountSlotOK(q)
    /\ \A q \in At(ChangePcs) : Entitled(q)
    /\ \A s \in Subjects : LogOK(s)

-----------------------------------------------------------------------------
(* Bots: the invariant.                                                    *)

BotPcs == {"idle", "insertBot", "checkBot", "writeBot", "deleteBot"}
BotSlots == [pc : BotPcs, user : Users \cup {None}, row : BotIds \cup {None},
             name : Names \cup {None}, flag : Flags]
BotRecords == [state : {"none", "exists", "deleted"}, name : Names \cup {None},
               owner : Users \cup {None}, live : BOOLEAN, beat : {"never", "old", "fresh"}]
Beats == [row : BotIds, live : BOOLEAN, beat : {"fresh", "old"}]

\* A bot that a request has found may be gone.
BotSlotOK(q) ==
    /\ req[q].pc = "insertBot" =>
          req[q].user \in Users /\ req[q].name \in Names /\ req[q].row = None
    /\ req[q].pc = "checkBot" => req[q].name \in Names
    /\ req[q].pc \in {"checkBot", "writeBot", "deleteBot"} =>
          /\ req[q].user \in Users
          /\ req[q].row \in BotIds /\ bot[req[q].row].state # "none"

\* A bot the job is about to take off line is silent or was given a heartbeat
\* since it was selected.
Due(b) == Silent(b) \/ b \in beaten

BotTables ==
    /\ bot \in [BotIds -> BotRecords]
    /\ message = None \/ message \in Beats
    /\ job \in [on : BOOLEAN, todo : SUBSET BotIds]
    /\ \A b \in Existing : bot[b].name \in Names /\ bot[b].owner \in Users
    /\ ~job.on => job.todo = {}
    /\ beaten \subseteq job.todo /\ foreign \subseteq Existing
    /\ \A b \in job.todo : Due(b)

\* The inductive invariant.
BotsInv ==
    /\ req \in [Requests -> BotSlots]
    /\ BotTables
    /\ \A q \in Requests : BotSlotOK(q)

-----------------------------------------------------------------------------
(* The service: the invariant.                                             *)

\* The part that runs keeps its invariant, the others are as they began.
ServiceInv ==
    /\ part \in {"lobbies", "bots", "exports", "accounts"}
    /\ IF part = "lobbies" THEN LobbyInv ELSE LobbiesInit
    /\ IF part = "bots" THEN BotsInv ELSE BotsInit({})
    /\ IF part = "exports" THEN ExportInv ELSE ExportsInit
    /\ IF part = "accounts" THEN AccountsInv ELSE AccountsInit

-----------------------------------------------------------------------------
(* Accounts: request slots, values and what a step leaves alone.           *)

\* A request slot after each of the ways in which an action changes it.
LEMMA AccountReturn ==
    ASSUME req \in [Requests -> AccountSlots], NEW q \in Requests, Return(q)
    PROVE  /\ req' \in [Requests -> AccountSlots]
           /\ req'[q].pc = "idle" /\ req'[q].user = None
           /\ \A p \in Requests \ {q} : req'[p] = req[p]
<1>1. Request \in AccountSlots
  BY DEF Request, AccountSlots, AccountPcs, AccountRows, AccountFlags
<1>2. Request.pc = "idle" /\ Request.user = None
  BY DEF Request
<1> QED
  BY <1>1, <1>2 DEF Return

LEMMA AccountGoto ==
    ASSUME req \in [Requests -> AccountSlots], NEW q \in Requests, Goto(q, "audit")
    PROVE  /\ req' \in [Requests -> AccountSlots]
           /\ req'[q].pc = "audit" /\ req'[q].user = req[q].user
           /\ req'[q].row = req[q].row /\ req'[q].flag = req[q].flag
           /\ \A p \in Requests \ {q} : req'[p] = req[p]
BY DEF Goto, AccountSlots, AccountPcs

LEMMA AccountStart ==
    ASSUME req \in [Requests -> AccountSlots], NEW q \in Requests, NEW next \in AccountPcs,
           NEW u \in Users \cup {None}, NEW r \in AccountRows, NEW n \in Names \cup {None},
           NEW f \in AccountFlags, Start(q, next, u, r, n, f)
    PROVE  /\ req' \in [Requests -> AccountSlots]
           /\ req[q].pc = "idle"
           /\ req'[q].pc = next /\ req'[q].user = u /\ req'[q].row = r
           /\ req'[q].name = n /\ req'[q].flag = f
           /\ \A p \in Requests \ {q} : req'[p] = req[p]
BY DEF Start, AccountSlots

LEMMA ChangeableKinds ==
    ASSUME NEW s \in Changeable
    PROVE  \/ \E u \in Users : s = <<"status", u>> \/ s = <<"role", u>> \/ s = <<"profile", u>>
           \/ \E r \in ReportIds : s = <<"report", r>>
           \/ \E k \in ConfigKeys : s = <<"config", k>>
BY DEF Changeable, Subjects

LEMMA ValueIs ==
    /\ \A u \in Users : /\ Value(<<"status", u>>) = account[u].status
                        /\ Value(<<"status", u>>)' = account'[u].status
                        /\ Value(<<"role", u>>) = account[u].role
                        /\ Value(<<"role", u>>)' = account'[u].role
                        /\ Value(<<"profile", u>>) = account[u].profile
                        /\ Value(<<"profile", u>>)' = account'[u].profile
    /\ \A r \in ReportIds : /\ Value(<<"report", r>>) = report[r].status
                            /\ Value(<<"report", r>>)' = report'[r].status
    /\ \A k \in ConfigKeys : /\ Value(<<"config", k>>) = config[k]
                             /\ Value(<<"config", k>>)' = config'[k]
BY DEF Value

\* What a statement that concerns accounts does to the values.
LEMMA ValueSame ==
    ASSUME NEW s \in Changeable,
           \A u \in Users :
              /\ s = <<"status", u>> => account'[u].status = account[u].status
              /\ s = <<"role", u>> => account'[u].role = account[u].role
              /\ s = <<"profile", u>> => account'[u].profile = account[u].profile,
           \A r \in ReportIds : s = <<"report", r>> => report'[r].status = report[r].status,
           \A k \in ConfigKeys : s = <<"config", k>> => config'[k] = config[k]
    PROVE  Value(s)' = Value(s)
<1>1. ASSUME NEW u \in Users, s = <<"status", u>> PROVE Value(s)' = Value(s)
  BY <1>1, ValueIs
<1>2. ASSUME NEW u \in Users, s = <<"role", u>> PROVE Value(s)' = Value(s)
  BY <1>2, ValueIs
<1>3. ASSUME NEW u \in Users, s = <<"profile", u>> PROVE Value(s)' = Value(s)
  BY <1>3, ValueIs
<1>4. ASSUME NEW r \in ReportIds, s = <<"report", r>> PROVE Value(s)' = Value(s)
  BY <1>4, ValueIs
<1>5. ASSUME NEW k \in ConfigKeys, s = <<"config", k>> PROVE Value(s)' = Value(s)
  BY <1>5, ValueIs
<1> QED
  BY <1>1, <1>2, <1>3, <1>4, <1>5, ChangeableKinds

LEMMA SubjectsChange == Subjects \subseteq Changeable
BY DEF Changeable

\* What no step undoes: accounts stay made, keys stay set.
Lasting ==
    /\ \A u \in Users : account[u].state # "none" => account'[u].state # "none"
    /\ \A k \in ConfigKeys : config[k] # None => config'[k] # None

LEMMA SlotKept ==
    ASSUME NEW p \in Requests, AccountSlotOK(p), req'[p] = req[p], Lasting
    PROVE  AccountSlotOK(p)'
<1>1. req[p].pc = "writeUser" => req[p].row[2] \in Users
  BY DEF AccountSlotOK
<1>2. req[p].pc = "writeConfig" => req[p].row[2] \in ConfigKeys
  BY DEF AccountSlotOK
<1>3. req[p].pc = "audit" /\ req[p].row[1] = "config" => req[p].row[2] \in ConfigKeys
  <2> SUFFICES ASSUME req[p].pc = "audit", req[p].row[1] = "config"
               PROVE  req[p].row[2] \in ConfigKeys
    OBVIOUS
  <2>1. req[p].row \in Subjects
    BY DEF AccountSlotOK
  <2> QED
    BY <2>1 DEF Subjects
<1> QED
  BY <1>1, <1>2, <1>3 DEF AccountSlotOK, Lasting

LEMMA EntitledKept ==
    ASSUME NEW p \in Requests, Entitled(p), req'[p] = req[p], req[p].user \in Users,
           p \in fallen => p \in fallen',
           p \in fallen' \/ (/\ account'[req[p].user].state = account[req[p].user].state
                             /\ account'[req[p].user].role \in {account[req[p].user].role, "Admin"})
    PROVE  Entitled(p)'
BY DEF Entitled, Accounts

LEMMA LogKept ==
    ASSUME AccountsInv, NEW s \in Subjects, Lasting, Writers(s)' = Writers(s),
           \A q \in Writers(s) : req'[q].flag = req[q].flag,
           Value(s)' \in {Value(s), None}, s \in blurred => s \in blurred',
           log'[s] \in {log[s], None}
    PROVE  LogOK(s)'
<1>1. LogOK(s)
  BY DEF AccountsInv
<1>2. s[1] = "config" => s[2] \in ConfigKeys
  BY DEF Subjects
<1>3. s \notin blurred' /\ Value(s)' # None =>
         IF Writers(s)' = {} THEN log'[s] \in {None, Value(s)'}
                             ELSE \E q \in Writers(s)' : Writers(s)' = {q} /\ req'[q].flag = Value(s)'
  BY <1>1 DEF LogOK
<1>4. s[1] = "config" /\ log'[s] # None => config'[s[2]] # None
  BY <1>1, <1>2 DEF LogOK, Lasting
<1> QED
  BY <1>3, <1>4 DEF LogOK

\* A step of a request that neither makes nor ends a wait for an audit entry.
LEMMA WritersKept ==
    ASSUME NEW q \in Requests, \A p \in Requests \ {q} : req'[p] = req[p],
           req[q].pc # "audit", req'[q].pc # "audit", NEW s
    PROVE  Writers(s)' = Writers(s) /\ \A p \in Writers(s) : req'[p] = req[p]
<1>1. \A p \in Requests : req[p].pc = "audit" \/ req'[p].pc = "audit" => p # q /\ req'[p] = req[p]
  OBVIOUS
<1> QED
  BY <1>1 DEF Writers, At

\* What has to be shown of a step of one request.
LEMMA AccountsStep ==
    ASSUME AccountsInv, NEW q \in Requests, \A p \in Requests \ {q} : req'[p] = req[p], Lasting,
           req' \in [Requests -> AccountSlots], AccountTables',
           fallen' \subseteq {p \in Requests : req'[p].user # None},
           \A u \in Users : AccountOK(u)',
           \A r \in ReportIds : report'[r].status = "Dismissed" => report'[r].handler # None,
           AccountSlotOK(q)', req'[q].pc \in ChangePcs => Entitled(q)',
           \A p \in Requests \ {q} : Entitled(p) /\ req[p].pc \in ChangePcs => Entitled(p)',
           \A s \in Subjects : LogOK(s)'
    PROVE  AccountsInv'
<1>1. \A p \in Requests : AccountSlotOK(p)'
  BY SlotKept DEF AccountsInv
<1>2. \A p \in Requests : req'[p].pc \in ChangePcs => Entitled(p)'
  BY DEF AccountsInv, At
<1> QED
  BY <1>1, <1>2 DEF AccountsInv, At

LEMMA AccountsKept ==
    ASSUME AccountsInv, UNCHANGED <<account, session, report, config, log>>
    PROVE  /\ AccountTables' /\ Lasting
           /\ \A u \in Users : AccountOK(u)'
           /\ \A r \in ReportIds : report'[r].status = "Dismissed" => report'[r].handler # None
BY DEF AccountsInv, AccountTables, Lasting, AccountOK, Accounts

LEMMA SameValues ==
    ASSUME UNCHANGED <<account, report, config>>, NEW s \in Changeable
    PROVE  Value(s)' = Value(s)
BY ValueSame

-----------------------------------------------------------------------------
(* Accounts: requests that begin.                                          *)

LEMMA BeginInv ==
    ASSUME AccountsInv, NEW q \in Requests, UNCHANGED accountTables,
           req' \in [Requests -> AccountSlots], req[q].pc = "idle", req'[q].pc # "audit",
           \A p \in Requests \ {q} : req'[p] = req[p],
           AccountSlotOK(q)', req'[q].pc \in ChangePcs => Entitled(q)'
    PROVE  AccountsInv'
<1>1. /\ UNCHANGED <<account, session, report, config, log>>
      /\ blurred' = blurred /\ fallen' = fallen
  BY DEF accountTables
<1>2. q \notin fallen
  BY DEF AccountsInv, AccountSlotOK
<1>3. fallen' \subseteq {p \in Requests : req'[p].user # None}
  BY <1>1, <1>2 DEF AccountsInv
<1>4. \A p \in Requests \ {q} : Entitled(p) /\ req[p].pc \in ChangePcs => Entitled(p)'
  BY <1>1 DEF Entitled, Accounts
<1>5. ASSUME NEW s \in Subjects PROVE LogOK(s)'
  <2>1. Writers(s)' = Writers(s) /\ \A p \in Writers(s) : req'[p] = req[p]
    BY WritersKept
  <2>2. Value(s)' = Value(s)
    BY <1>1, SameValues, SubjectsChange
  <2> QED
    BY <1>1, <2>1, <2>2, AccountsKept, LogKept
<1> QED
  BY <1>1, <1>3, <1>4, <1>5, AccountsKept, AccountsStep

LEMMA UserCheckInv ==
    ASSUME AccountsInv, NEW q \in Requests, NEW n \in Names, UserCheck(q, n) PROVE AccountsInv'
<1>1. Start(q, "insertUser", None, None, n, None) /\ UNCHANGED accountTables
  BY DEF UserCheck
<1>2. /\ req' \in [Requests -> AccountSlots] /\ req[q].pc = "idle"
      /\ req'[q].pc = "insertUser" /\ req'[q].user = None /\ req'[q].name = n
      /\ \A p \in Requests \ {q} : req'[p] = req[p]
  BY <1>1, AccountStart DEF AccountsInv, AccountPcs, AccountRows, AccountFlags
<1>3. AccountSlotOK(q)' /\ req'[q].pc \notin ChangePcs
  BY <1>2 DEF AccountSlotOK, ChangePcs
<1> QED
  BY <1>1, <1>2, <1>3, BeginInv

LEMMA ProfileFindInv ==
    ASSUME AccountsInv, NEW q \in Requests, NEW m \in Users, NEW u \in Users, ProfileFind(q, m, u)
    PROVE  AccountsInv'
<1>1. /\ Start(q, "writeProfile", m, <<"profile", u>>, None, m) /\ UNCHANGED accountTables
      /\ u \in MaySee(m)
  BY DEF ProfileFind
<1>2. <<"profile", u>> \in AccountRows /\ m \in AccountFlags /\ "writeProfile" \in AccountPcs
  BY DEF AccountRows, Changeable, AccountFlags, AccountPcs
<1>3. /\ req' \in [Requests -> AccountSlots] /\ req[q].pc = "idle"
      /\ req'[q].pc = "writeProfile" /\ req'[q].user = m /\ req'[q].row = <<"profile", u>>
      /\ req'[q].flag = m
      /\ \A p \in Requests \ {q} : req'[p] = req[p]
  BY <1>1, <1>2, AccountStart DEF AccountsInv
<1>4. AccountSlotOK(q)'
  BY <1>3, UsersAssumption DEF AccountSlotOK
<1>5. /\ m \in Accounts
      /\ account[m].role = "Admin" \/ account[m].role = "Moderator" \/ u = m
  BY <1>1 DEF MaySee, HasRole, LoggedIn
<1>6. Entitled(q)'
  BY <1>1, <1>3, <1>5 DEF Entitled, Accounts, accountTables
<1> QED
  BY <1>1, <1>3, <1>4, <1>6, BeginInv

LEMMA UserDeleteFindInv ==
    ASSUME AccountsInv, NEW q \in Requests, NEW m \in Users, NEW u \in Users,
           UserDeleteFind(q, m, u)
    PROVE  AccountsInv'
<1>1. Start(q, "deleteUser", m, u, None, None) /\ UNCHANGED accountTables
  BY DEF UserDeleteFind
<1>2. /\ req' \in [Requests -> AccountSlots] /\ req[q].pc = "idle"
      /\ req'[q].pc = "deleteUser" /\ req'[q].user = m /\ req'[q].row = u
      /\ \A p \in Requests \ {q} : req'[p] = req[p]
  BY <1>1, AccountStart DEF AccountsInv, AccountPcs, AccountRows, AccountFlags
<1>3. AccountSlotOK(q)' /\ req'[q].pc \notin ChangePcs
  BY <1>2, UsersAssumption DEF AccountSlotOK, ChangePcs
<1> QED
  BY <1>1, <1>2, <1>3, BeginInv

LEMMA ModerateFindInv ==
    ASSUME AccountsInv, NEW q \in Requests, NEW m \in Users, NEW s, NEW value,
           \/ s \in {"status"} \X Users /\ value \in Statuses
           \/ s \in {"role"} \X Users /\ value \in Roles,
           ModerateFind(q, m, s, value)
    PROVE  AccountsInv'
<1>1. /\ Start(q, "writeUser", m, s, None, value) /\ UNCHANGED accountTables
      /\ HasRole(m, {"Admin"}) /\ account[s[2]].state # "none"
  BY DEF ModerateFind
<1>2. s \in AccountRows /\ value \in AccountFlags /\ "writeUser" \in AccountPcs
  BY DEF AccountRows, Changeable, Subjects, AccountFlags, AccountPcs
<1>3. /\ req' \in [Requests -> AccountSlots] /\ req[q].pc = "idle"
      /\ req'[q].pc = "writeUser" /\ req'[q].user = m /\ req'[q].row = s /\ req'[q].flag = value
      /\ \A p \in Requests \ {q} : req'[p] = req[p]
  BY <1>1, <1>2, AccountStart DEF AccountsInv
<1>4. account' = account
  BY <1>1 DEF accountTables
<1>5. AccountSlotOK(q)'
  BY <1>1, <1>3, <1>4, UsersAssumption DEF AccountSlotOK
<1>6. Entitled(q)'
  BY <1>1, <1>3, <1>4 DEF Entitled, HasRole, LoggedIn, Accounts
<1> QED
  BY <1>1, <1>3, <1>5, <1>6, BeginInv

LEMMA ReportFindInv ==
    ASSUME AccountsInv, NEW q \in Requests, NEW m \in Users, NEW r \in ReportIds,
           NEW status \in ReportStatuses, ReportFind(q, m, r, status)
    PROVE  AccountsInv'
<1>1. /\ Start(q, "writeReport", m, <<"report", r>>, None, status) /\ UNCHANGED accountTables
      /\ HasRole(m, {"Admin", "Moderator"})
  BY DEF ReportFind
<1>2. <<"report", r>> \in AccountRows /\ status \in AccountFlags /\ "writeReport" \in AccountPcs
  BY DEF AccountRows, Changeable, Subjects, AccountFlags, AccountPcs
<1>3. /\ req' \in [Requests -> AccountSlots] /\ req[q].pc = "idle"
      /\ req'[q].pc = "writeReport" /\ req'[q].user = m /\ req'[q].row = <<"report", r>>
      /\ req'[q].flag = status
      /\ \A p \in Requests \ {q} : req'[p] = req[p]
  BY <1>1, <1>2, AccountStart DEF AccountsInv
<1>4. AccountSlotOK(q)'
  BY <1>3, UsersAssumption DEF AccountSlotOK
<1>5. Entitled(q)'
  BY <1>1, <1>3 DEF Entitled, HasRole, LoggedIn, Accounts, accountTables
<1> QED
  BY <1>1, <1>3, <1>4, <1>5, BeginInv

LEMMA ConfigFindInv ==
    ASSUME AccountsInv, NEW q \in Requests, NEW m \in Users, NEW k \in ConfigKeys,
           ConfigFind(q, m, k)
    PROVE  AccountsInv'
<1>1. PICK next \in {"insertConfig", "writeConfig"} :
         /\ Start(q, next, m, <<"config", k>>, None, m)
         /\ next = "writeConfig" => config[k] # None
  BY DEF ConfigFind
<1>2. HasRole(m, {"Admin"}) /\ UNCHANGED accountTables
  BY DEF ConfigFind
<1>3. <<"config", k>> \in AccountRows /\ m \in AccountFlags /\ next \in AccountPcs
  BY DEF AccountRows, Changeable, Subjects, AccountFlags, AccountPcs
<1>4. /\ req' \in [Requests -> AccountSlots] /\ req[q].pc = "idle"
      /\ req'[q].pc = next /\ req'[q].user = m /\ req'[q].row = <<"config", k>>
      /\ req'[q].flag = m
      /\ \A p \in Requests \ {q} : req'[p] = req[p]
  BY <1>1, <1>3, AccountStart DEF AccountsInv
<1>5. config' = config
  BY <1>2 DEF accountTables
<1>6. AccountSlotOK(q)'
  BY <1>1, <1>4, <1>5, UsersAssumption DEF AccountSlotOK
<1>7. Entitled(q)'
  BY <1>2, <1>4 DEF Entitled, HasRole, LoggedIn, Accounts, accountTables
<1> QED
  BY <1>1, <1>2, <1>4, <1>6, <1>7, BeginInv

-----------------------------------------------------------------------------
(* Accounts: requests that end.                                            *)

\* A request ends that was not waiting for its audit entry.
LEMMA EndInv ==
    ASSUME AccountsInv, NEW q \in Requests, Return(q), req[q].pc # "audit", Lasting,
           AccountTables', fallen' \subseteq {p \in Requests \ {q} : req[p].user # None},
           \A u \in Users : AccountOK(u)',
           \A r \in ReportIds : report'[r].status = "Dismissed" => report'[r].handler # None,
           \A p \in Requests \ {q} : Entitled(p) /\ req[p].pc \in ChangePcs => Entitled(p)',
           UNCHANGED <<blurred, log>>,
           \A s \in Subjects : Value(s)' = Value(s)
    PROVE  AccountsInv'
<1>1. /\ req' \in [Requests -> AccountSlots] /\ req'[q].pc = "idle" /\ req'[q].user = None
      /\ \A p \in Requests \ {q} : req'[p] = req[p]
  BY AccountReturn DEF AccountsInv
<1>2. AccountSlotOK(q)' /\ req'[q].pc \notin ChangePcs
  BY <1>1 DEF AccountSlotOK, ChangePcs
<1>3. fallen' \subseteq {p \in Requests : req'[p].user # None}
  BY <1>1
<1>4. ASSUME NEW s \in Subjects PROVE LogOK(s)'
  <2>1. Writers(s)' = Writers(s) /\ \A p \in Writers(s) : req'[p] = req[p]
    BY <1>1, WritersKept
  <2> QED
    BY <2>1, LogKept
<1> QED
  BY <1>1, <1>2, <1>3, <1>4, AccountsStep

LEMMA UserInsertInv ==
    ASSUME AccountsInv, NEW q \in Requests, UserInsert(q) PROVE AccountsInv'
<1>0. CASE UNCHANGED account
  <2>1. req[q].pc = "insertUser" /\ Return(q) /\ UNCHANGED accountTables /\ req[q].user = None
    BY <1>0 DEF UserInsert, accountTables, AccountsInv, AccountSlotOK
  <2>2. fallen' \subseteq {p \in Requests \ {q} : req[p].user # None}
    BY <2>1 DEF AccountsInv, accountTables
  <2>3. \A p \in Requests \ {q} : Entitled(p) /\ req[p].pc \in ChangePcs => Entitled(p)'
    <3>1. \A p \in Requests \ {q} : req'[p] = req[p]
      BY <2>1, AccountReturn DEF AccountsInv
    <3> QED
      BY <2>1, <3>1 DEF Entitled, Accounts, accountTables
  <2>4. ASSUME NEW s \in Subjects PROVE Value(s)' = Value(s)
    BY <2>1 DEF Value, accountTables
  <2> QED
    BY <2>1, <2>2, <2>3, <2>4, AccountsKept, EndInv DEF accountTables
<1> SUFFICES ASSUME account' # account
             PROVE  AccountsInv'
  BY <1>0
<1>1. PICK u \in Users :
         /\ account[u].state = "none" /\ AccountsNamed(req[q].name) = {}
         /\ account' = [account EXCEPT ![u] = [state |-> "exists", name |-> req[q].name,
                                               status |-> "Active", role |-> "Active",
                                               profile |-> None]]
  BY DEF UserInsert
<1>2. /\ req[q].pc = "insertUser" /\ Return(q)
      /\ UNCHANGED <<session, report, config, log, blurred, fallen>>
  BY DEF UserInsert
<1>3. req[q].user = None /\ req[q].name \in Names
  BY <1>2 DEF AccountsInv, AccountSlotOK
<1>4. account \in [Users -> AccountRecords]
  BY DEF AccountsInv, AccountTables
<1>5. /\ account'[u] = [state |-> "exists", name |-> req[q].name, status |-> "Active",
                        role |-> "Active", profile |-> None]
      /\ \A v \in Users \ {u} : account'[v] = account[v]
  BY <1>1, <1>4
<1>6. account'[u] \in AccountRecords
  BY <1>3, <1>5 DEF AccountRecords, Statuses, Roles
<1>7. account' \in [Users -> AccountRecords]
  BY <1>1, <1>4, <1>5, <1>6
<1>8. /\ account'[u].state = "exists" /\ account'[u].name # None
      /\ account'[u].status = account[u].status /\ account'[u].role = account[u].role
  BY <1>1, <1>3, <1>5, NamesAssumption DEF AccountsInv, AccountOK
<1>9. AccountTables' /\ Lasting
  BY <1>2, <1>5, <1>7, <1>8 DEF AccountsInv, AccountTables, Lasting
<1>10. \A v \in Users : AccountOK(v)'
  BY <1>1, <1>5, <1>8 DEF AccountsInv, AccountOK, AccountsNamed, Accounts
<1>11. \A p \in Requests \ {q} : Entitled(p) /\ req[p].pc \in ChangePcs => Entitled(p)'
  <2> SUFFICES ASSUME NEW p \in Requests \ {q}, Entitled(p) PROVE Entitled(p)'
    OBVIOUS
  <2>1. req'[p] = req[p] /\ fallen' = fallen
    BY <1>2, AccountReturn DEF AccountsInv
  <2>2. p \in fallen \/ (req[p].user \in Accounts /\ req[p].user # u)
    BY <1>1 DEF Entitled, Accounts
  <2> QED
    BY <1>5, <2>1, <2>2 DEF Entitled, Accounts
<1>12. fallen' \subseteq {p \in Requests \ {q} : req[p].user # None}
  BY <1>2, <1>3 DEF AccountsInv
<1>13. ASSUME NEW s \in Subjects PROVE Value(s)' = Value(s)
  <2>1. \A v \in Users : s # <<"profile", v>>
    BY DEF Subjects
  <2>2. \A v \in Users : account'[v].status = account[v].status /\ account'[v].role = account[v].role
    BY <1>5, <1>8
  <2> QED
    BY <1>2, <2>1, <2>2, ValueSame, SubjectsChange
<1>14. \A r \in ReportIds : report'[r].status = "Dismissed" => report'[r].handler # None
  BY <1>2 DEF AccountsInv
<1> QED
  BY <1>2, <1>9, <1>10, <1>11, <1>12, <1>13, <1>14, EndInv

LEMMA ProfileWriteInv ==
    ASSUME AccountsInv, NEW q \in Requests, ProfileWrite(q) PROVE AccountsInv'
<1>1. /\ req[q].pc = "writeProfile" /\ Return(q)
      /\ UNCHANGED <<session, report, config, log, blurred>> /\ fallen' = fallen \ {q}
  BY DEF ProfileWrite
<1>2. PICK u \in Users : req[q].row = <<"profile", u>>
  BY <1>1 DEF AccountsInv, AccountSlotOK
<1>3. req[q].flag \in Users
  BY <1>1 DEF AccountsInv, AccountSlotOK, AccountSlots
<1>4. account \in [Users -> AccountRecords]
  BY DEF AccountsInv, AccountTables
<1>5. account' = [account EXCEPT ![u].profile = req[q].flag]
  BY <1>2 DEF ProfileWrite
<1>6. account' \in [Users -> AccountRecords]
  BY <1>3, <1>4, <1>5 DEF AccountRecords
<1>7. \A v \in Users :
         /\ account'[v].state = account[v].state /\ account'[v].name = account[v].name
         /\ account'[v].status = account[v].status /\ account'[v].role = account[v].role
  BY <1>4, <1>5 DEF AccountRecords
<1>8. AccountTables' /\ Lasting /\ \A v \in Users : AccountOK(v)'
  BY <1>1, <1>6, <1>7 DEF AccountsInv, AccountTables, Lasting, AccountOK, Accounts
<1>9. \A p \in Requests \ {q} : Entitled(p) /\ req[p].pc \in ChangePcs => Entitled(p)'
  <2> SUFFICES ASSUME NEW p \in Requests \ {q}, Entitled(p) PROVE Entitled(p)'
    OBVIOUS
  <2>1. req'[p] = req[p] /\ (p \in fallen => p \in fallen')
    BY <1>1, AccountReturn DEF AccountsInv
  <2> QED
    BY <1>7, <2>1 DEF Entitled, Accounts
<1>10. fallen' \subseteq {p \in Requests \ {q} : req[p].user # None}
  BY <1>1 DEF AccountsInv
<1>11. ASSUME NEW s \in Subjects PROVE Value(s)' = Value(s)
  <2>1. \A v \in Users : s # <<"profile", v>>
    BY DEF Subjects
  <2> QED
    BY <1>1, <1>7, <2>1, ValueSame, SubjectsChange
<1>12. \A r \in ReportIds : report'[r].status = "Dismissed" => report'[r].handler # None
  BY <1>1 DEF AccountsInv
<1> QED
  BY <1>1, <1>8, <1>9, <1>10, <1>11, <1>12, EndInv

LEMMA DeletedRecord ==
    ASSUME NEW a \in AccountRecords, NEW b, b = [a EXCEPT !.state = "deleted", !.name = None]
    PROVE  /\ b \in AccountRecords /\ b.state = "deleted" /\ b.name = None
           /\ b.status = a.status /\ b.role = a.role /\ b.profile = a.profile
BY DEF AccountRecords

LEMMA UserDeleteInv ==
    ASSUME AccountsInv, NEW q \in Requests, UserDelete(q) PROVE AccountsInv'
<1>1. /\ req[q].pc = "deleteUser" /\ Return(q)
      /\ UNCHANGED <<session, report, config, log, blurred>>
  BY DEF UserDelete
<1>2. PICK u \in Users : req[q].row = u
  BY <1>1 DEF AccountsInv, AccountSlotOK
<1>3. account \in [Users -> AccountRecords]
  BY DEF AccountsInv, AccountTables
<1>4. /\ account' = [account EXCEPT ![u] = [account[u] EXCEPT !.state = "deleted", !.name = None]]
      /\ fallen' = (fallen \cup InFlight(u)) \ {q}
  BY <1>2 DEF UserDelete
<1>5. /\ account'[u] = [account[u] EXCEPT !.state = "deleted", !.name = None]
      /\ \A v \in Users \ {u} : account'[v] = account[v]
  BY <1>3, <1>4
<1>6. /\ account'[u] \in AccountRecords /\ account'[u].state = "deleted" /\ account'[u].name = None
      /\ account'[u].status = account[u].status /\ account'[u].role = account[u].role
  <2>1. account[u] \in AccountRecords
    BY <1>3
  <2> QED
    BY <1>5, <2>1, DeletedRecord
<1>7. account' \in [Users -> AccountRecords]
  BY <1>3, <1>4, <1>5, <1>6
<1>8. AccountTables' /\ Lasting /\ \A v \in Users : AccountOK(v)'
  <2>1. AccountTables' /\ Lasting
    BY <1>1, <1>5, <1>6, <1>7 DEF AccountsInv, AccountTables, Lasting
  <2>2. AccountOK(u)'
    BY <1>6 DEF AccountOK, Accounts
  <2>3. ASSUME NEW v \in Users \ {u} PROVE AccountOK(v)'
    <3>1. Accounts' \subseteq Accounts \ {u} /\ (v \in Accounts' <=> v \in Accounts)
      BY <1>5, <1>6 DEF Accounts
    <3>2. \A w \in Accounts' : account'[w] = account[w]
      BY <1>5, <3>1 DEF Accounts
    <3> QED
      BY <1>5, <3>1, <3>2 DEF AccountsInv, AccountOK
  <2> QED
    BY <2>1, <2>2, <2>3
<1>9. \A p \in Requests \ {q} : Entitled(p) /\ req[p].pc \in ChangePcs => Entitled(p)'
  <2> SUFFICES ASSUME NEW p \in Requests \ {q}, Entitled(p) PROVE Entitled(p)'
    OBVIOUS
  <2>1. req'[p] = req[p] /\ (p \in fallen => p \in fallen')
    BY <1>1, <1>4, AccountReturn DEF AccountsInv
  <2>2. req[p].user = u => p \in fallen'
    BY <1>4 DEF InFlight
  <2> QED
    BY <1>5, <2>1, <2>2 DEF Entitled, Accounts
<1>10. fallen' \subseteq {p \in Requests \ {q} : req[p].user # None}
  BY <1>4, UsersAssumption DEF AccountsInv, InFlight
<1>11. ASSUME NEW s \in Subjects PROVE Value(s)' = Value(s)
  <2>1. \A v \in Users : s # <<"profile", v>>
    BY DEF Subjects
  <2>2. \A v \in Users : account'[v].status = account[v].status /\ account'[v].role = account[v].role
    BY <1>5, <1>6
  <2> QED
    BY <1>1, <2>1, <2>2, ValueSame, SubjectsChange
<1>12. \A r \in ReportIds : report'[r].status = "Dismissed" => report'[r].handler # None
  BY <1>1 DEF AccountsInv
<1> QED
  BY <1>1, <1>8, <1>9, <1>10, <1>11, <1>12, EndInv

-----------------------------------------------------------------------------
(* Accounts: writes that are to be entered in the log.                     *)

LEMMA WrittenInv ==
    ASSUME AccountsInv, NEW q \in Requests, Written(q), req[q].pc \in ChangePcs,
           NEW x \in Subjects, req[q].row = x, req[q].flag # None,
           x[1] = "config" => config'[x[2]] # None,
           AccountTables', Lasting, \A u \in Users : AccountOK(u)',
           \A r \in ReportIds : report'[r].status = "Dismissed" => report'[r].handler # None,
           fallen' \subseteq {p \in Requests : req[p].user # None},
           \A p \in Requests \ {q} : Entitled(p) /\ req[p].pc \in ChangePcs => Entitled(p)',
           log' = log, Value(x)' = req[q].flag,
           \A s \in Subjects \ {x} : Value(s)' = Value(s)
    PROVE  AccountsInv'
<1>1. /\ req' \in [Requests -> AccountSlots]
      /\ req'[q].pc = "audit" /\ req'[q].user = req[q].user
      /\ req'[q].row = req[q].row /\ req'[q].flag = req[q].flag
      /\ \A p \in Requests \ {q} : req'[p] = req[p]
  BY AccountGoto DEF AccountsInv, Written
<1>2. req[q].pc # "audit" /\ req[q].user # None
  BY DEF AccountsInv, AccountSlotOK, ChangePcs
<1>3. AccountSlotOK(q)' /\ req'[q].pc \notin ChangePcs
  BY <1>1, <1>2 DEF AccountSlotOK, ChangePcs
<1>4. fallen' \subseteq {p \in Requests : req'[p].user # None}
  BY <1>1
<1>5. blurred' = IF Writers(x) = {} THEN blurred \ {x} ELSE blurred \cup {x}
  BY DEF Written
<1>6. ASSUME NEW s \in Subjects \ {x} PROVE LogOK(s)'
  <2>1. Writers(s)' = Writers(s) /\ \A p \in Writers(s) : req'[p] = req[p]
    <3>1. \A p \in Requests : req'[p] = req[p] \/ (req[p].row # s /\ req'[p].row # s)
      BY <1>1
    <3> QED
      BY <1>1, <3>1 DEF Writers, At
  <2>2. Value(s)' = Value(s) /\ (s \in blurred => s \in blurred')
    BY <1>5
  <2> QED
    BY <2>1, <2>2, LogKept
<1>7. LogOK(x)'
  <2>1. Writers(x)' = Writers(x) \cup {q}
    BY <1>1, <1>2 DEF Writers, At
  <2>2. x \notin blurred' => Writers(x)' = {q}
    BY <1>5, <2>1
  <2>3. req'[q].flag = Value(x)'
    BY <1>1
  <2>4. x[1] = "config" /\ log'[x] # None => config'[x[2]] # None
    OBVIOUS
  <2> QED
    BY <2>2, <2>3, <2>4 DEF LogOK
<1> QED
  BY <1>1, <1>3, <1>4, <1>6, <1>7, AccountsStep

Revised(a, status, role) == [a EXCEPT !.role = role, !.status = status]

LEMMA RevisedRecord ==
    ASSUME NEW a \in AccountRecords, NEW x \in Statuses, NEW y \in Roles
    PROVE  /\ Revised(a, x, y) \in AccountRecords
           /\ Revised(a, x, y).state = a.state /\ Revised(a, x, y).name = a.name
           /\ Revised(a, x, y).status = x /\ Revised(a, x, y).role = y
           /\ Revised(a, x, y).profile = a.profile
BY DEF AccountRecords, Revised

\* The row after a moderation: one column has changed.
LEMMA Moderated ==
    ASSUME AccountsInv, NEW q \in Requests, ModerateWrite(q)
    PROVE  \E u \in Users, c \in {"status", "role"} :
              /\ req[q].row = <<c, u>> /\ account[u].state # "none"
              /\ account' \in [Users -> AccountRecords]
              /\ \A v \in Users \ {u} : account'[v] = account[v]
              /\ account'[u].state = account[u].state /\ account'[u].name = account[u].name
              /\ account'[u].profile = account[u].profile
              /\ account'[u].status = IF c = "status" THEN req[q].flag ELSE account[u].status
              /\ account'[u].role = IF c = "role" THEN req[q].flag ELSE account[u].role
              /\ fallen' = IF c = "role" /\ req[q].flag # "Admin"
                              THEN fallen \cup InFlight(u) ELSE fallen
<1>1. req[q].pc = "writeUser"
  BY DEF ModerateWrite
<1>2. /\ \/ req[q].row \in {"status"} \X Users /\ req[q].flag \in Statuses
         \/ req[q].row \in {"role"} \X Users /\ req[q].flag \in Roles
      /\ account[req[q].row[2]].state # "none"
  BY <1>1 DEF AccountsInv, AccountSlotOK
<1>3. PICK u \in Users, c \in {"status", "role"} :
         /\ req[q].row = <<c, u>>
         /\ c = "status" => req[q].flag \in Statuses
         /\ c = "role" => req[q].flag \in Roles
  BY <1>2
<1>4. account \in [Users -> AccountRecords]
  BY DEF AccountsInv, AccountTables
<1>5. account[u] \in AccountRecords /\ account[u].status \in Statuses /\ account[u].role \in Roles
  BY <1>4 DEF AccountRecords
<1>6. PICK x \in Statuses : x = IF c = "status" THEN req[q].flag ELSE account[u].status
  BY <1>3, <1>5
<1>7. PICK y \in Roles : y = IF c = "role" THEN req[q].flag ELSE account[u].role
  BY <1>3, <1>5
<1>8. /\ account' = [account EXCEPT ![u] = Revised(account[u], x, y)]
      /\ fallen' = IF c = "role" /\ req[q].flag # "Admin"
                      THEN fallen \cup InFlight(u) ELSE fallen
  <2>1. req[q].row[1] = c /\ req[q].row[2] = u
    BY <1>3
  <2>2. account' = [account EXCEPT ![req[q].row[2]] =
           Revised(account[req[q].row[2]],
                   IF req[q].row[1] = "status" THEN req[q].flag ELSE account[req[q].row[2]].status,
                   IF req[q].row[1] = "role" THEN req[q].flag ELSE account[req[q].row[2]].role)]
    BY DEF ModerateWrite, Revised
  <2>3. account' = [account EXCEPT ![u] = Revised(account[u], x, y)]
    BY <2>1, <2>2, <1>6, <1>7
  <2> QED
    BY <2>1, <2>3 DEF ModerateWrite
<1>9. /\ account'[u] = Revised(account[u], x, y)
      /\ \A v \in Users \ {u} : account'[v] = account[v]
  BY <1>4, <1>8
<1>10. /\ account'[u] \in AccountRecords /\ account'[u].state = account[u].state
       /\ account'[u].name = account[u].name /\ account'[u].profile = account[u].profile
       /\ account'[u].status = x /\ account'[u].role = y
  BY <1>5, <1>9, RevisedRecord
<1>11. account' \in [Users -> AccountRecords]
  BY <1>4, <1>8, <1>9, <1>10
<1>12. account[u].state # "none"
  BY <1>2, <1>3
<1> QED
  BY <1>3, <1>6, <1>7, <1>8, <1>9, <1>10, <1>11, <1>12

LEMMA ModerateWriteInv ==
    ASSUME AccountsInv, NEW q \in Requests, ModerateWrite(q) PROVE AccountsInv'
<1>1. /\ req[q].pc = "writeUser" /\ Written(q)
      /\ UNCHANGED <<session, report, config, log>>
  BY DEF ModerateWrite
<1>2. PICK u \in Users, c \in {"status", "role"} :
              /\ req[q].row = <<c, u>> /\ account[u].state # "none"
              /\ account' \in [Users -> AccountRecords]
              /\ \A v \in Users \ {u} : account'[v] = account[v]
              /\ account'[u].state = account[u].state /\ account'[u].name = account[u].name
              /\ account'[u].profile = account[u].profile
              /\ account'[u].status = IF c = "status" THEN req[q].flag ELSE account[u].status
              /\ account'[u].role = IF c = "role" THEN req[q].flag ELSE account[u].role
              /\ fallen' = IF c = "role" /\ req[q].flag # "Admin"
                              THEN fallen \cup InFlight(u) ELSE fallen
  BY Moderated
<1>3. /\ \A v \in Users : account'[v].state = account[v].state /\ account'[v].name = account[v].name
      /\ \A v \in Users : account[v].state = "none" => account'[v] = account[v]
  BY <1>2
<1>4. AccountTables' /\ Lasting
  BY <1>1, <1>2, <1>3 DEF AccountsInv, AccountTables, Lasting
<1>5. \A v \in Users : AccountOK(v)'
  BY <1>3 DEF AccountsInv, AccountOK, Accounts
<1>6. <<c, u>> \in Subjects /\ <<c, u>>[1] # "config"
  BY DEF Subjects
<1>7. req[q].flag # None
  BY <1>1, StatusesAssumption DEF AccountsInv, AccountSlotOK
<1>8. fallen' \subseteq {p \in Requests : req[p].user # None}
  BY <1>2, UsersAssumption DEF AccountsInv, InFlight
<1>9. \A p \in Requests \ {q} : Entitled(p) /\ req[p].pc \in ChangePcs => Entitled(p)'
  <2> SUFFICES ASSUME NEW p \in Requests \ {q}, Entitled(p), req[p].pc \in ChangePcs
               PROVE  Entitled(p)'
    OBVIOUS
  <2>1. req'[p] = req[p] /\ (p \in fallen => p \in fallen')
    BY <1>1, <1>2, AccountGoto DEF AccountsInv, Written
  <2>2. req[p].user \in Users
    BY DEF AccountsInv, AccountSlotOK, AccountSlots, ChangePcs
  <2>3. p \in fallen' \/ (/\ account'[req[p].user].state = account[req[p].user].state
                          /\ account'[req[p].user].role \in {account[req[p].user].role, "Admin"})
    BY <1>2, <1>3, <2>2 DEF InFlight
  <2> QED
    BY <2>1, <2>2, <2>3, EntitledKept
<1>10. Value(<<c, u>>)' = req[q].flag
  <2>1. CASE c = "status"
    <3>1. Value(<<"status", u>>)' = account'[u].status
      BY ValueIs
    <3> QED
      BY <1>2, <2>1, <3>1
  <2>2. CASE c = "role"
    <3>1. Value(<<"role", u>>)' = account'[u].role
      BY ValueIs
    <3> QED
      BY <1>2, <2>2, <3>1
  <2> QED
    BY <2>1, <2>2
<1>11. ASSUME NEW s \in Subjects \ {<<c, u>>} PROVE Value(s)' = Value(s)
  <2>1. \A v \in Users :
           /\ s = <<"status", v>> => account'[v].status = account[v].status
           /\ s = <<"role", v>> => account'[v].role = account[v].role
           /\ s = <<"profile", v>> => account'[v].profile = account[v].profile
    BY <1>2
  <2> QED
    BY <1>1, <2>1, ValueSame, SubjectsChange
<1>12. req[q].pc \in ChangePcs /\ log' = log
  BY <1>1 DEF ChangePcs
<1>13. \A r \in ReportIds : report'[r].status = "Dismissed" => report'[r].handler # None
  BY <1>1 DEF AccountsInv
<1> QED
  BY <1>1, <1>2, <1>4, <1>5, <1>6, <1>7, <1>8, <1>9, <1>10, <1>11, <1>12, <1>13, WrittenInv

\* A request that finds its subject gone, or fails before it is written.
LEMMA GiveUpInv ==
    ASSUME AccountsInv, NEW q \in Requests, Return(q), req[q].pc # "audit",
           fallen' = fallen \ {q}, UNCHANGED <<account, session, report, config, log, blurred>>
    PROVE  AccountsInv'
<1>1. \A p \in Requests \ {q} : Entitled(p) /\ req[p].pc \in ChangePcs => Entitled(p)'
  <2> SUFFICES ASSUME NEW p \in Requests \ {q}, Entitled(p) PROVE Entitled(p)'
    OBVIOUS
  <2>1. req'[p] = req[p] /\ (p \in fallen => p \in fallen')
    BY AccountReturn DEF AccountsInv
  <2> QED
    BY <2>1 DEF Entitled, Accounts
<1>2. fallen' \subseteq {p \in Requests \ {q} : req[p].user # None}
  BY DEF AccountsInv
<1>3. \A s \in Subjects : Value(s)' = Value(s)
  BY SameValues, SubjectsChange
<1> QED
  BY <1>1, <1>2, <1>3, AccountsKept, EndInv

\* The entitlement of the others does not depend on reports or the configuration.
LEMMA OthersEntitled ==
    ASSUME AccountsInv, NEW q \in Requests, Written(q), UNCHANGED <<account, fallen>>
    PROVE  \A p \in Requests \ {q} : Entitled(p) /\ req[p].pc \in ChangePcs => Entitled(p)'
<1> SUFFICES ASSUME NEW p \in Requests \ {q}, Entitled(p) PROVE Entitled(p)'
  OBVIOUS
<1>1. req'[p] = req[p]
  BY AccountGoto DEF AccountsInv, Written
<1> QED
  BY <1>1 DEF Entitled, Accounts

LEMMA ReportWriteInv ==
    ASSUME AccountsInv, NEW q \in Requests, ReportWrite(q) PROVE AccountsInv'
<1>1. req[q].pc = "writeReport" /\ UNCHANGED <<account, session, config, log>>
  BY DEF ReportWrite
<1>2. PICK r \in ReportIds : req[q].row = <<"report", r>> /\ req[q].row[2] = r
  BY <1>1 DEF AccountsInv, AccountSlotOK
<1>3. req[q].flag \in ReportStatuses /\ req[q].user \in Users
  BY <1>1 DEF AccountsInv, AccountSlotOK, AccountSlots
<1>4. CASE r \notin Reports
  <2>1. Return(q) /\ fallen' = fallen \ {q} /\ UNCHANGED <<report, blurred>>
    BY <1>2, <1>4 DEF ReportWrite
  <2> QED
    BY <1>1, <2>1, GiveUpInv
<1>5. CASE r \in Reports
  <2>1. /\ report' = [report EXCEPT ![r] = [report[r] EXCEPT !.status = req[q].flag,
                                                             !.handler = req[q].user]]
        /\ Written(q) /\ fallen' = fallen
    BY <1>2, <1>5 DEF ReportWrite
  <2>2. report \in [ReportIds -> ReportRecords]
    BY DEF AccountsInv, AccountTables
  <2>3. /\ report' \in [ReportIds -> ReportRecords]
        /\ report'[r].status = req[q].flag /\ report'[r].handler = req[q].user
        /\ \A d \in ReportIds \ {r} : report'[d] = report[d]
    BY <1>3, <2>1, <2>2 DEF ReportRecords
  <2>4. AccountTables' /\ Lasting /\ \A u \in Users : AccountOK(u)'
    BY <1>1, <2>3 DEF AccountsInv, AccountTables, Lasting, AccountOK, Accounts
  <2>5. \A d \in ReportIds : report'[d].status = "Dismissed" => report'[d].handler # None
    BY <1>3, <2>3, UsersAssumption DEF AccountsInv
  <2>6. <<"report", r>> \in Subjects /\ <<"report", r>>[1] # "config"
    BY DEF Subjects
  <2>7. Value(<<"report", r>>)' = req[q].flag
    BY <2>3, ValueIs
  <2>8. ASSUME NEW s \in Subjects \ {<<"report", r>>} PROVE Value(s)' = Value(s)
    <3>1. \A d \in ReportIds : s = <<"report", d>> => report'[d].status = report[d].status
      BY <2>3
    <3> QED
      BY <1>1, <3>1, ValueSame, SubjectsChange
  <2>9. req[q].flag # None /\ req[q].pc \in ChangePcs
    BY <1>1, <1>3, StatusesAssumption DEF ChangePcs
  <2>10. fallen' \subseteq {p \in Requests : req[p].user # None}
    BY <2>1 DEF AccountsInv
  <2>11. \A p \in Requests \ {q} : Entitled(p) /\ req[p].pc \in ChangePcs => Entitled(p)'
    BY <1>1, <2>1, OthersEntitled
  <2> QED
    BY <1>1, <1>2, <2>1, <2>4, <2>5, <2>6, <2>7, <2>8, <2>9, <2>10, <2>11, WrittenInv
<1> QED
  BY <1>4, <1>5

LEMMA ConfigWriteInv ==
    ASSUME AccountsInv, NEW q \in Requests, ConfigWrite(q) PROVE AccountsInv'
<1>1. /\ req[q].pc \in {"insertConfig", "writeConfig"}
      /\ UNCHANGED <<account, session, report, log>>
  BY DEF ConfigWrite, At
<1>2. PICK k \in ConfigKeys : req[q].row = <<"config", k>> /\ req[q].row[2] = k
  BY <1>1 DEF AccountsInv, AccountSlotOK
<1>3. req[q].user \in Users /\ req[q].flag = req[q].user
  BY <1>1 DEF AccountsInv, AccountSlotOK, AccountSlots
<1>4. CASE req[q].pc = "insertConfig" /\ config[k] # None
  <2>1. Return(q) /\ fallen' = fallen \ {q} /\ UNCHANGED <<config, blurred>>
    BY <1>2, <1>4 DEF ConfigWrite
  <2> QED
    BY <1>1, <2>1, GiveUpInv
<1>5. CASE ~(req[q].pc = "insertConfig" /\ config[k] # None)
  <2>1. config' = [config EXCEPT ![k] = req[q].user] /\ Written(q) /\ fallen' = fallen
    BY <1>2, <1>5 DEF ConfigWrite
  <2>2. config \in [ConfigKeys -> Users \cup {None}]
    BY DEF AccountsInv, AccountTables
  <2>3. /\ config' \in [ConfigKeys -> Users \cup {None}]
        /\ config'[k] = req[q].user
        /\ \A l \in ConfigKeys \ {k} : config'[l] = config[l]
    BY <1>3, <2>1, <2>2
  <2>4. req[q].user # None
    BY <1>3, UsersAssumption
  <2>5. AccountTables' /\ Lasting /\ \A u \in Users : AccountOK(u)'
    BY <1>1, <2>3, <2>4 DEF AccountsInv, AccountTables, Lasting, AccountOK, Accounts
  <2>6. \A d \in ReportIds : report'[d].status = "Dismissed" => report'[d].handler # None
    BY <1>1 DEF AccountsInv
  <2>7. <<"config", k>> \in Subjects /\ <<"config", k>>[2] = k
    BY DEF Subjects
  <2>8. Value(<<"config", k>>)' = req[q].flag
    BY <1>3, <2>3, ValueIs
  <2>9. ASSUME NEW s \in Subjects \ {<<"config", k>>} PROVE Value(s)' = Value(s)
    <3>1. \A l \in ConfigKeys : s = <<"config", l>> => config'[l] = config[l]
      BY <2>3
    <3> QED
      BY <1>1, <3>1, ValueSame, SubjectsChange
  <2>10. req[q].flag # None /\ req[q].pc \in ChangePcs
    BY <1>1, <1>3, <2>4 DEF ChangePcs
  <2>11. fallen' \subseteq {p \in Requests : req[p].user # None}
    BY <2>1 DEF AccountsInv
  <2>12. \A p \in Requests \ {q} : Entitled(p) /\ req[p].pc \in ChangePcs => Entitled(p)'
    BY <1>1, <2>1, OthersEntitled
  <2>13. config'[<<"config", k>>[2]] # None
    BY <2>3, <2>4, <2>7
  <2> QED
    BY <1>1, <1>2, <2>1, <2>5, <2>6, <2>7, <2>8, <2>9, <2>10, <2>11, <2>12, <2>13, WrittenInv
<1> QED
  BY <1>4, <1>5

\* The end of a request that was waiting for its audit entry, made or not.
LEMMA AuditEndInv ==
    ASSUME AccountsInv, NEW q \in Requests, Return(q), req[q].pc = "audit",
           fallen' = fallen \ {q}, UNCHANGED <<account, session, report, config>>,
           NEW x \in Subjects, req[q].row = x,
           \/ log' = [log EXCEPT ![x] = req[q].flag] /\ blurred' = blurred
           \/ log' = log /\ blurred' = blurred \cup {x}
    PROVE  AccountsInv'
<1>1. /\ req' \in [Requests -> AccountSlots] /\ req'[q].pc = "idle" /\ req'[q].user = None
      /\ \A p \in Requests \ {q} : req'[p] = req[p]
  BY AccountReturn DEF AccountsInv
<1>2. AccountSlotOK(q)' /\ req'[q].pc \notin ChangePcs
  BY <1>1 DEF AccountSlotOK, ChangePcs
<1>3. fallen' \subseteq {p \in Requests : req'[p].user # None}
  BY <1>1 DEF AccountsInv
<1>4. \A p \in Requests \ {q} : Entitled(p) /\ req[p].pc \in ChangePcs => Entitled(p)'
  BY <1>1 DEF Entitled, Accounts
<1>5. req[q].flag \in AccountFlags /\ log \in [Subjects -> AccountFlags]
  BY DEF AccountsInv, AccountSlots, AccountTables
<1>6. /\ log' \in [Subjects -> AccountFlags]
      /\ \A s \in Subjects \ {x} : log'[s] = log[s]
      /\ (log'[x] = req[q].flag /\ blurred' = blurred) \/ (log' = log /\ blurred' = blurred \cup {x})
  BY <1>5
<1>7. AccountTables' /\ Lasting /\ \A u \in Users : AccountOK(u)'
  BY <1>6 DEF AccountsInv, AccountTables, Lasting, AccountOK, Accounts
<1>8. \A r \in ReportIds : report'[r].status = "Dismissed" => report'[r].handler # None
  BY DEF AccountsInv
<1>9. \A s \in Subjects : Value(s)' = Value(s)
  BY SameValues, SubjectsChange
<1>10. ASSUME NEW s \in Subjects \ {x} PROVE LogOK(s)'
  <2>1. Writers(s)' = Writers(s) /\ \A p \in Writers(s) : req'[p] = req[p]
    BY <1>1 DEF Writers, At
  <2> QED
    BY <1>6, <1>7, <1>9, <2>1, LogKept
<1>11. LogOK(x)'
  <2>1. q \in Writers(x) /\ Writers(x)' = Writers(x) \ {q}
    BY <1>1 DEF Writers, At
  <2>2. /\ x \notin blurred /\ Value(x) # None => Writers(x) = {q} /\ req[q].flag = Value(x)
        /\ x[1] = "config" => config[x[2]] # None
    <3>1. LogOK(x) /\ AccountSlotOK(q)
      BY DEF AccountsInv
    <3>2. x \notin blurred /\ Value(x) # None =>
             \E p \in Writers(x) : Writers(x) = {p} /\ req[p].flag = Value(x)
      BY <2>1, <3>1 DEF LogOK
    <3> QED
      BY <2>1, <3>1, <3>2 DEF AccountSlotOK
  <2>3. x \notin blurred' /\ Value(x)' # None =>
           Writers(x)' = {} /\ log'[x] = Value(x)'
    BY <1>6, <1>9, <2>1, <2>2
  <2> QED
    BY <2>2, <2>3 DEF LogOK
<1> QED
  BY <1>1, <1>2, <1>3, <1>4, <1>7, <1>8, <1>10, <1>11, AccountsStep

LEMMA AuditInsertInv ==
    ASSUME AccountsInv, NEW q \in Requests, AuditInsert(q) PROVE AccountsInv'
<1>1. PICK x \in Subjects : req[q].row = x
  BY DEF AuditInsert, AccountsInv, AccountSlotOK
<1> QED
  BY <1>1, AuditEndInv DEF AuditInsert

LEMMA AccountAbortInv ==
    ASSUME AccountsInv, NEW q \in Requests, AccountAbort(q) PROVE AccountsInv'
<1>1. Return(q) /\ fallen' = fallen \ {q} /\ UNCHANGED <<account, session, report, config, log>>
  BY DEF AccountAbort
<1>2. CASE req[q].pc = "audit"
  <2>1. PICK x \in Subjects : req[q].row = x
    BY <1>2 DEF AccountsInv, AccountSlotOK
  <2>2. blurred' = blurred \cup {x}
    BY <1>2, <2>1 DEF AccountAbort
  <2> QED
    BY <1>1, <1>2, <2>1, <2>2, AuditEndInv
<1>3. CASE req[q].pc # "audit"
  BY <1>1, <1>3, GiveUpInv DEF AccountAbort
<1> QED
  BY <1>2, <1>3

-----------------------------------------------------------------------------
(* Accounts: steps of no request.                                          *)

LEMMA NoRequestInv ==
    ASSUME AccountsInv, UNCHANGED <<req, account, config, blurred, fallen>>, AccountTables',
           \A r \in ReportIds : report'[r] \in {report[r], NoReport},
           \A s \in Subjects : log'[s] \in {log[s], None}
    PROVE  AccountsInv'
<1>1. Lasting /\ \A u \in Users : AccountOK(u)'
  BY DEF AccountsInv, Lasting, AccountOK, Accounts
<1>2. \A p \in Requests : AccountSlotOK(p)'
  BY <1>1, SlotKept DEF AccountsInv
<1>3. \A p \in At(ChangePcs)' : Entitled(p)'
  BY DEF AccountsInv, Entitled, Accounts, At
<1>4. NoReport.status = None
  BY DEF NoReport
<1>5. \A r \in ReportIds : report'[r].status = "Dismissed" => report'[r].handler # None
  BY <1>4, StatusesAssumption DEF AccountsInv, ReportStatuses
<1>6. ASSUME NEW s \in Subjects PROVE LogOK(s)'
  <2>1. Writers(s)' = Writers(s) /\ \A p \in Writers(s) : req'[p] = req[p]
    BY DEF Writers, At
  <2>2. Value(s)' \in {Value(s), None}
    <3>1. CASE \E r \in ReportIds : s = <<"report", r>>
      <4>1. PICK r \in ReportIds : s = <<"report", r>>
        BY <3>1
      <4>2. Value(<<"report", r>>) = report[r].status /\ Value(<<"report", r>>)' = report'[r].status
        BY ValueIs
      <4>3. report'[r].status \in {report[r].status, None}
        BY <1>4
      <4> QED
        BY <4>1, <4>2, <4>3
    <3>2. CASE ~ \E r \in ReportIds : s = <<"report", r>>
      BY <3>2, ValueSame, SubjectsChange
    <3> QED
      BY <3>1, <3>2
  <2> QED
    BY <1>1, <2>1, <2>2, LogKept
<1>7. req' \in [Requests -> AccountSlots] /\ fallen' \subseteq {p \in Requests : req'[p].user # None}
  BY DEF AccountsInv
<1> QED
  BY <1>1, <1>2, <1>3, <1>5, <1>6, <1>7 DEF AccountsInv

LEMMA LoginInv == ASSUME AccountsInv, NEW n \in Names, Login(n) PROVE AccountsInv'
<1>1. /\ UNCHANGED <<req, account, config, blurred, fallen, report, log>>
      /\ session' \subseteq Users
  BY DEF Login, requests, AccountsInv, AccountTables, AccountsNamed, Accounts
<1>2. AccountTables'
  BY <1>1 DEF AccountsInv, AccountTables
<1> QED
  BY <1>1, <1>2, NoRequestInv

LEMMA LogoutInv == ASSUME AccountsInv, NEW u \in Users, Logout(u) PROVE AccountsInv'
<1>1. /\ UNCHANGED <<req, account, config, blurred, fallen, report, log>>
      /\ session' \subseteq Users
  BY DEF Logout, requests, AccountsInv, AccountTables
<1>2. AccountTables'
  BY <1>1 DEF AccountsInv, AccountTables
<1> QED
  BY <1>1, <1>2, NoRequestInv

LEMMA CleanupReportsInv == ASSUME AccountsInv, CleanupReports PROVE AccountsInv'
<1>1. /\ UNCHANGED <<req, account, session, config, blurred, fallen, log>>
      /\ \E old : report' = [r \in ReportIds |-> IF r \in old THEN NoReport ELSE report[r]]
  BY DEF CleanupReports, requests
<1>2. NoReport \in ReportRecords
  BY DEF NoReport, ReportRecords
<1>3. \A r \in ReportIds : report'[r] \in {report[r], NoReport}
  BY <1>1
<1>4. AccountTables'
  BY <1>1, <1>2 DEF AccountsInv, AccountTables
<1> QED
  BY <1>1, <1>3, <1>4, NoRequestInv

LEMMA CleanupAuditLogsInv == ASSUME AccountsInv, CleanupAuditLogs PROVE AccountsInv'
<1>1. /\ UNCHANGED <<req, account, session, config, blurred, fallen, report>>
      /\ \E old : log' = [s \in Subjects |-> IF s \in old THEN None ELSE log[s]]
  BY DEF CleanupAuditLogs, requests
<1>2. \A s \in Subjects : log'[s] \in {log[s], None}
  BY <1>1
<1>3. AccountTables'
  BY <1>1 DEF AccountsInv, AccountTables, AccountFlags
<1> QED
  BY <1>1, <1>2, <1>3, NoRequestInv

\* Administrators have names, which differ.
LEMMA AdminNames ==
    /\ AdminName \in [Admins -> Names]
    /\ \A u, v \in Admins : AdminName[u] = AdminName[v] => u = v
BY AdminNamesAssumption DEF AdminName

LEMMA AccountsBegin ==
    ASSUME AccountsInit
    PROVE  /\ AccountTables /\ \A u \in Users : AccountOK(u)
           /\ \A r \in ReportIds : report[r].status = "Pending"
<1>1. \A u \in Users :
         /\ account[u] \in AccountRecords
         /\ account[u].status = "Active"
         /\ account[u].state = "none" => account[u].role = "Active"
         /\ account[u].name # None <=> account[u].state = "exists"
  BY AdminNames, NamesAssumption, AdminsAssumption
     DEF AccountsInit, AccountRecords, Statuses, Roles
<1>2. account \in [Users -> AccountRecords]
  BY <1>1 DEF AccountsInit
<1>3. report \in [ReportIds -> ReportRecords] /\ \A r \in ReportIds : report[r].status = "Pending"
  BY DEF AccountsInit, NoReport, ReportRecords, ReportStatuses
<1>4. AccountTables
  BY <1>2, <1>3 DEF AccountsInit, AccountTables, AccountFlags
<1>5. \A u, v \in Accounts : account[u].name = account[v].name => u = v
  <2>1. \A u \in Accounts : u \in Admins /\ account[u].name = AdminName[u]
    BY DEF AccountsInit, Accounts
  <2> QED
    BY <2>1, AdminNames
<1>6. \A u \in Users : AccountOK(u)
  BY <1>1, <1>5 DEF AccountOK, Accounts
<1> QED
  BY <1>3, <1>4, <1>6

LEMMA AccountsInitInv == HandlersInit(0) /\ AccountsInit => AccountsInv
<1> SUFFICES ASSUME HandlersInit(0), AccountsInit PROVE AccountsInv
  OBVIOUS
<1>1. /\ Request \in AccountSlots /\ Request.pc = "idle" /\ Request.user = None
  BY DEF Request, AccountSlots, AccountPcs, AccountRows, AccountFlags
<1>2. req = [q \in Requests |-> Request]
  BY DEF HandlersInit
<1>3. \A q \in Requests : AccountSlotOK(q)
  BY <1>1, <1>2 DEF AccountSlotOK
<1>4. At(ChangePcs) = {} /\ \A s : Writers(s) = {}
  BY <1>1, <1>2 DEF At, ChangePcs, Writers
<1>5. \A s \in Subjects : LogOK(s)
  BY <1>4 DEF AccountsInit, LogOK
<1>6. \A r \in ReportIds : report[r].status # "Dismissed"
  BY AccountsBegin
<1> QED
  BY <1>1, <1>2, <1>3, <1>4, <1>5, <1>6, AccountsBegin DEF AccountsInv, AccountsInit

LEMMA AccountsStepInv == ASSUME AccountsInv, AccountsNext PROVE AccountsInv'
<1>1. CASE UserRequests
  BY <1>1, UserCheckInv, UserDeleteFindInv, ProfileFindInv, UserInsertInv, UserDeleteInv,
     ProfileWriteInv, LoginInv, LogoutInv DEF UserRequests
<1>2. CASE Moderation
  <2>1. ASSUME NEW q \in Requests, NEW m \in Users, NEW u \in Users, NEW status \in Statuses,
               ModerateFind(q, m, <<"status", u>>, status)
        PROVE  AccountsInv'
    BY <2>1, ModerateFindInv
  <2>2. ASSUME NEW q \in Requests, NEW m \in Users, NEW u \in Users, NEW role \in Roles,
               ModerateFind(q, m, <<"role", u>>, role)
        PROVE  AccountsInv'
    BY <2>2, ModerateFindInv
  <2> QED
    BY <1>2, <2>1, <2>2, ReportFindInv, ConfigFindInv, ModerateWriteInv, ReportWriteInv,
       ConfigWriteInv, AuditInsertInv, AccountAbortInv DEF Moderation
<1>3. CASE AccountJobs
  BY <1>3, CleanupReportsInv, CleanupAuditLogsInv DEF AccountJobs
<1> QED
  BY <1>1, <1>2, <1>3 DEF AccountsNext

-----------------------------------------------------------------------------
(* Accounts: what the invariant says.                                      *)

LEMMA AccountsTypes ==
    ASSUME AccountTables, \A u \in Users : AccountOK(u),
           \A r \in ReportIds : report[r].status = "Dismissed" => report[r].handler # None,
           fallen \subseteq {q \in Requests : req[q].user # None}
    PROVE  AccountTypeOK
<1>1. \A u \in Accounts : account[u].name # None
  BY DEF AccountOK, Accounts
<1>2. \A m \in Users : MaySee(m) \subseteq Accounts
  BY DEF MaySee, LoggedIn
<1>3. \A m \in Users : \A r \in ShownReports(m, "Dismissed") : report[r].handler # None
  BY DEF ShownReports, Reports
<1>4. \A u \in Users : account[u].name # None <=> u \in Accounts
  BY DEF AccountOK
<1>5. \A u, v \in Accounts : account[u].name = account[v].name => u = v
  BY DEF AccountOK, Accounts
<1> QED
  BY <1>1, <1>2, <1>3, <1>4, <1>5 DEF AccountTables, AccountTypeOK, AccountRecords, ReportRecords

LEMMA AccountsExplained == AccountsInv => LogExplainsState
<1> SUFFICES ASSUME AccountsInv, NEW m \in Users, NEW s \in ShownLog(m)
             PROVE  /\ Writers(s) = {} /\ s \notin blurred /\ Value(s) # None => log[s] = Value(s)
                    /\ s[1] = "config" => s[2] \in ShownConfig(m)
  BY DEF LogExplainsState
<1>1. s \in Subjects /\ HasRole(m, {"Admin"}) /\ log[s] # None
  BY DEF ShownLog
<1>2. LogOK(s)
  BY <1>1 DEF AccountsInv
<1>3. s[1] = "config" => s[2] \in ConfigKeys
  BY <1>1 DEF Subjects
<1> QED
  BY <1>1, <1>2, <1>3 DEF LogOK, ShownConfig

\* A change of the value of a subject, and who makes it.
PowerUsed(s) ==
    Value(s)' # Value(s) /\ Value(s)' # None =>
       \E q \in At({"writeUser", "writeReport", "insertConfig", "writeConfig", "writeProfile"}) :
          /\ req[q].row = s
          /\ q \in fallen \/ /\ req[q].user \in Accounts
                             /\ \/ account[req[q].user].role = "Admin"
                                \/ /\ account[req[q].user].role = "Moderator"
                                   /\ s[1] \in {"report", "profile"}
                                \/ s = <<"profile", req[q].user>>

LEMMA EntitledUses ==
    ASSUME AccountsInv, NEW q \in Requests, req[q].pc \in ChangePcs, NEW s \in Changeable,
           Value(s)' # Value(s) => s = req[q].row
    PROVE  PowerUsed(s)
<1>1. q \in At(ChangePcs) /\ Entitled(q)
  BY DEF AccountsInv, At
<1> QED
  BY <1>1 DEF Entitled, PowerUsed, ChangePcs, At

LEMMA ValueKeptUses ==
    ASSUME NEW s \in Changeable, UNCHANGED <<account, report, config>> PROVE PowerUsed(s)
BY SameValues DEF PowerUsed

LEMMA AccountsStepPower ==
    ASSUME AccountsInv, AccountsNext, NEW s \in Changeable
    PROVE  PowerUsed(s)
<1>1. ASSUME NEW q \in Requests, UserInsert(q) PROVE PowerUsed(s)
  <2>0. CASE UNCHANGED account
    BY <1>1, <2>0, ValueKeptUses DEF UserInsert
  <2> SUFFICES ASSUME account' # account PROVE PowerUsed(s)
    BY <2>0
  <2>1. PICK u \in Users :
           /\ account[u].state = "none"
           /\ account' = [account EXCEPT ![u] = [state |-> "exists", name |-> req[q].name,
                                                 status |-> "Active", role |-> "Active",
                                                 profile |-> None]]
    BY <1>1 DEF UserInsert
  <2>2. account \in [Users -> AccountRecords] /\ UNCHANGED <<report, config>>
    BY <1>1 DEF UserInsert, AccountsInv, AccountTables
  <2>3. /\ account'[u].status = account[u].status /\ account'[u].role = account[u].role
        /\ account'[u].profile = None
        /\ \A v \in Users \ {u} : account'[v] = account[v]
    BY <2>1, <2>2 DEF AccountsInv, AccountOK
  <2>4. CASE s = <<"profile", u>>
    <3>1. Value(<<"profile", u>>)' = account'[u].profile
      BY ValueIs
    <3> QED
      BY <2>3, <2>4, <3>1 DEF PowerUsed
  <2>5. CASE s # <<"profile", u>>
    <3>1. Value(s)' = Value(s)
      BY <2>2, <2>3, <2>5, ValueSame
    <3> QED
      BY <3>1 DEF PowerUsed
  <2> QED
    BY <2>4, <2>5
<1>2. ASSUME NEW q \in Requests, UserDelete(q) PROVE PowerUsed(s)
  <2>1. PICK u \in Users : req[q].row = u
    BY <1>2 DEF UserDelete, AccountsInv, AccountSlotOK
  <2>2. account \in [Users -> AccountRecords] /\ UNCHANGED <<report, config>>
    BY <1>2 DEF UserDelete, AccountsInv, AccountTables
  <2>3. account' = [account EXCEPT ![u] = [account[u] EXCEPT !.state = "deleted", !.name = None]]
    BY <1>2, <2>1 DEF UserDelete
  <2>4. \A v \in Users : /\ account'[v].status = account[v].status
                         /\ account'[v].role = account[v].role
                         /\ account'[v].profile = account[v].profile
    <3>1. \A v \in Users \ {u} : account'[v] = account[v]
      BY <2>2, <2>3
    <3>2. account'[u] = [account[u] EXCEPT !.state = "deleted", !.name = None]
      BY <2>2, <2>3
    <3>3. account[u] \in AccountRecords
      BY <2>2
    <3>4. account'[u].status = account[u].status /\ account'[u].role = account[u].role
      BY <3>2, <3>3, DeletedRecord
    <3>5. account'[u].profile = account[u].profile
      BY <3>2, <3>3, DeletedRecord
    <3> QED
      BY <3>1, <3>4, <3>5
  <2>5. Value(s)' = Value(s)
    BY <2>2, <2>4, ValueSame
  <2> QED
    BY <2>5 DEF PowerUsed
<1>3. ASSUME NEW q \in Requests, ProfileWrite(q) PROVE PowerUsed(s)
  <2>1. req[q].pc = "writeProfile" /\ UNCHANGED <<report, config>>
    BY <1>3 DEF ProfileWrite
  <2>2. PICK u \in Users : req[q].row = <<"profile", u>> /\ req[q].row[2] = u
    BY <2>1 DEF AccountsInv, AccountSlotOK
  <2>3. account' = [account EXCEPT ![u].profile = req[q].flag] /\ account \in [Users -> AccountRecords]
    BY <1>3, <2>2 DEF ProfileWrite, AccountsInv, AccountTables
  <2>4. /\ \A v \in Users : account'[v].status = account[v].status /\ account'[v].role = account[v].role
        /\ \A v \in Users \ {u} : account'[v].profile = account[v].profile
    BY <2>3 DEF AccountRecords
  <2>5. s # <<"profile", u>> => Value(s)' = Value(s)
    BY <2>1, <2>4, ValueSame
  <2> QED
    BY <2>1, <2>2, <2>5, EntitledUses DEF ChangePcs
<1>4. ASSUME NEW q \in Requests, ModerateWrite(q) PROVE PowerUsed(s)
  <2>1. req[q].pc = "writeUser" /\ UNCHANGED <<report, config>>
    BY <1>4 DEF ModerateWrite
  <2>2. PICK u \in Users, c \in {"status", "role"} :
           /\ req[q].row = <<c, u>>
           /\ \A v \in Users \ {u} : account'[v] = account[v]
           /\ account'[u].profile = account[u].profile
           /\ c # "status" => account'[u].status = account[u].status
           /\ c # "role" => account'[u].role = account[u].role
    BY <1>4, Moderated
  <2>3. s # <<c, u>> => Value(s)' = Value(s)
    BY <2>1, <2>2, ValueSame
  <2> QED
    BY <2>1, <2>2, <2>3, EntitledUses DEF ChangePcs
<1>5. ASSUME NEW q \in Requests, ReportWrite(q) PROVE PowerUsed(s)
  <2>1. req[q].pc = "writeReport" /\ UNCHANGED <<account, config>>
    BY <1>5 DEF ReportWrite
  <2>2. PICK r \in ReportIds : req[q].row = <<"report", r>> /\ req[q].row[2] = r
    BY <2>1 DEF AccountsInv, AccountSlotOK
  <2>3. \A d \in ReportIds \ {r} : report'[d] = report[d]
    BY <1>5, <2>2 DEF ReportWrite, AccountsInv, AccountTables
  <2>4. s # <<"report", r>> => Value(s)' = Value(s)
    BY <2>1, <2>3, ValueSame
  <2> QED
    BY <2>1, <2>2, <2>4, EntitledUses DEF ChangePcs
<1>6. ASSUME NEW q \in Requests, ConfigWrite(q) PROVE PowerUsed(s)
  <2>1. req[q].pc \in {"insertConfig", "writeConfig"} /\ UNCHANGED <<account, report>>
    BY <1>6 DEF ConfigWrite, At
  <2>2. PICK k \in ConfigKeys : req[q].row = <<"config", k>> /\ req[q].row[2] = k
    BY <2>1 DEF AccountsInv, AccountSlotOK
  <2>3. \A l \in ConfigKeys \ {k} : config'[l] = config[l]
    BY <1>6, <2>2 DEF ConfigWrite, AccountsInv, AccountTables
  <2>4. s # <<"config", k>> => Value(s)' = Value(s)
    BY <2>1, <2>3, ValueSame
  <2> QED
    BY <2>1, <2>2, <2>4, EntitledUses DEF ChangePcs
<1>7. CASE CleanupReports
  <2>1. \E old : report' = [r \in ReportIds |-> IF r \in old THEN NoReport ELSE report[r]]
    BY <1>7 DEF CleanupReports
  <2>2. NoReport.status = None
    BY DEF NoReport
  <2>3. \A r \in ReportIds : report'[r].status \in {report[r].status, None}
    BY <2>1, <2>2
  <2>4. ASSUME NEW r \in ReportIds, s = <<"report", r>> PROVE Value(s)' \in {Value(s), None}
    <3>1. Value(<<"report", r>>) = report[r].status /\ Value(<<"report", r>>)' = report'[r].status
      BY ValueIs
    <3> QED
      BY <2>3, <2>4, <3>1
  <2>5. ASSUME \A r \in ReportIds : s # <<"report", r>> PROVE Value(s)' = Value(s)
    BY <1>7, <2>5, ValueSame DEF CleanupReports
  <2> QED
    BY <2>4, <2>5 DEF PowerUsed
<1>8. CASE CleanupAuditLogs
  BY <1>8, ValueKeptUses DEF CleanupAuditLogs
<1>9. ASSUME NEW q \in Requests, AuditInsert(q) \/ AccountAbort(q) PROVE PowerUsed(s)
  BY <1>9, ValueKeptUses DEF AuditInsert, AccountAbort
<1>10. CASE UNCHANGED accountTables
  BY <1>10, ValueKeptUses DEF accountTables
<1>11. ASSUME NEW n \in Names, Login(n) PROVE PowerUsed(s)
  BY <1>11, ValueKeptUses DEF Login
<1>12. ASSUME NEW u \in Users, Logout(u) PROVE PowerUsed(s)
  BY <1>12, ValueKeptUses DEF Logout
<1>13. CASE UserRequests
  BY <1>1, <1>2, <1>3, <1>10, <1>11, <1>12, <1>13
     DEF UserRequests, UserCheck, UserDeleteFind, ProfileFind
<1>14. CASE Moderation
  BY <1>4, <1>5, <1>6, <1>9, <1>10, <1>14
     DEF Moderation, ModerateFind, ReportFind, ConfigFind
<1> QED
  BY <1>7, <1>8, <1>13, <1>14 DEF AccountsNext, AccountJobs

-----------------------------------------------------------------------------
(* Bots: request slots and what a step leaves alone.                       *)

LEMMA BotReturn ==
    ASSUME req \in [Requests -> BotSlots], NEW q \in Requests, Return(q)
    PROVE  /\ req' \in [Requests -> BotSlots] /\ req'[q].pc = "idle"
           /\ \A p \in Requests \ {q} : req'[p] = req[p]
<1>1. Request \in BotSlots /\ Request.pc = "idle"
  BY DEF Request, BotSlots, BotPcs, Flags
<1> QED
  BY <1>1 DEF Return

LEMMA BotGoto ==
    ASSUME req \in [Requests -> BotSlots], NEW q \in Requests, Goto(q, "writeBot")
    PROVE  /\ req' \in [Requests -> BotSlots] /\ req'[q].pc = "writeBot"
           /\ req'[q].user = req[q].user /\ req'[q].row = req[q].row /\ req'[q].name = req[q].name
           /\ \A p \in Requests \ {q} : req'[p] = req[p]
BY DEF Goto, BotSlots, BotPcs

LEMMA BotStart ==
    ASSUME req \in [Requests -> BotSlots], NEW q \in Requests, NEW next \in BotPcs,
           NEW u \in Users, NEW b \in BotIds \cup {None}, NEW n \in Names \cup {None},
           NEW f \in Flags, Start(q, next, u, b, n, f)
    PROVE  /\ req' \in [Requests -> BotSlots] /\ req[q].pc = "idle"
           /\ req'[q].pc = next /\ req'[q].user = u /\ req'[q].row = b /\ req'[q].name = n
           /\ \A p \in Requests \ {q} : req'[p] = req[p]
BY DEF Start, BotSlots

\* What no step undoes: bots stay made, and whose they are.
BotsLast ==
    \A b \in BotIds : bot[b].state # "none" =>
        bot'[b].state # "none" /\ bot'[b].owner = bot[b].owner

LEMMA BotSlotKept ==
    ASSUME NEW p \in Requests, BotSlotOK(p), req'[p] = req[p], BotsLast
    PROVE  BotSlotOK(p)'
BY DEF BotSlotOK, BotsLast, MayManage

\* What has to be shown of a step of one request, and of one of no request.
LEMMA BotsStep ==
    ASSUME BotsInv, NEW q \in Requests, \A p \in Requests \ {q} : req'[p] = req[p],
           req' \in [Requests -> BotSlots], BotsLast, BotTables', BotSlotOK(q)'
    PROVE  BotsInv'
<1>1. \A p \in Requests : BotSlotOK(p)'
  BY BotSlotKept DEF BotsInv
<1> QED
  BY <1>1 DEF BotsInv

LEMMA BotsEnd ==
    ASSUME BotsInv, NEW q \in Requests, Return(q), BotsLast, BotTables'
    PROVE  BotsInv'
<1>1. /\ req' \in [Requests -> BotSlots] /\ req'[q].pc = "idle"
      /\ \A p \in Requests \ {q} : req'[p] = req[p]
  BY BotReturn DEF BotsInv
<1>2. BotSlotOK(q)'
  BY <1>1 DEF BotSlotOK
<1> QED
  BY <1>1, <1>2, BotsStep

LEMMA BotsNoRequest ==
    ASSUME BotsInv, req' = req, BotsLast, BotTables' PROVE BotsInv'
<1>1. \A p \in Requests : BotSlotOK(p)'
  BY BotSlotKept DEF BotsInv
<1> QED
  BY <1>1 DEF BotsInv

LEMMA BotsKept ==
    ASSUME BotsInv, UNCHANGED botTables PROVE BotsLast /\ BotTables'
BY DEF BotsInv, BotTables, BotsLast, botTables, Existing, Due, Silent

\* A bot changes; the others and the job do not.
LEMMA BotChanges ==
    ASSUME BotsInv, NEW b \in BotIds, NEW record \in BotRecords, bot' = [bot EXCEPT ![b] = record],
           message' = None \/ message' = message, job' = job,
           record.state = "exists" => record.name \in Names /\ record.owner \in Users,
           bot[b].state # "none" => record.state # "none" /\ record.owner = bot[b].owner,
           record.beat = "fresh" => bot[b].beat = "fresh" \/ b \in beaten' \/ b \notin job.todo,
           beaten \subseteq beaten', beaten' \subseteq job.todo,
           foreign' \subseteq foreign \cup {b}, b \in foreign' => record.state = "exists"
    PROVE  BotsLast /\ BotTables'
<1>1. bot \in [BotIds -> BotRecords] /\ job.todo \subseteq BotIds
  BY DEF BotsInv, BotTables
<1>2. bot'[b] = record /\ \A c \in BotIds \ {b} : bot'[c] = bot[c]
  BY <1>1
<1>3. BotsLast /\ bot' \in [BotIds -> BotRecords]
  BY <1>1, <1>2 DEF BotsLast
<1>4. \A c \in Existing' : bot'[c].name \in Names /\ bot'[c].owner \in Users
  BY <1>2 DEF BotsInv, BotTables, Existing
<1>5. foreign' \subseteq Existing'
  BY <1>2 DEF BotsInv, BotTables, Existing
<1>6. \A c \in job'.todo : Due(c)'
  <2> SUFFICES ASSUME NEW c \in job.todo PROVE Due(c)'
    OBVIOUS
  <2>1. bot[c].beat # "fresh" \/ c \in beaten
    BY DEF BotsInv, BotTables, Due, Silent
  <2>2. bot'[c].beat # "fresh" \/ c \in beaten'
    BY <1>1, <1>2, <2>1
  <2> QED
    BY <2>2 DEF Due, Silent
<1> QED
  BY <1>3, <1>4, <1>5, <1>6 DEF BotsInv, BotTables

-----------------------------------------------------------------------------
(* Bots: the statements.                                                   *)

\* The row after an insert, an update, a delete, a heartbeat.
BotMade(a, n, u) == [a EXCEPT !.state = "exists", !.name = n, !.owner = u]
BotRevised(a, n, live) == [a EXCEPT !.name = n, !.live = live]
BotGone(u) == [NoBot("deleted") EXCEPT !.owner = u]
BotHeard(a, live, beat) == [a EXCEPT !.live = live, !.beat = beat]

LEMMA BotMadeOf ==
    ASSUME NEW a \in BotRecords, NEW n \in Names \cup {None}, NEW u \in Users \cup {None}
    PROVE  /\ BotMade(a, n, u) \in BotRecords /\ BotMade(a, n, u).state = "exists"
           /\ BotMade(a, n, u).name = n /\ BotMade(a, n, u).owner = u
           /\ BotMade(a, n, u).live = a.live /\ BotMade(a, n, u).beat = a.beat
BY DEF BotMade, BotRecords

LEMMA BotRevisedOf ==
    ASSUME NEW a \in BotRecords, NEW n \in Names \cup {None}, NEW live \in BOOLEAN
    PROVE  /\ BotRevised(a, n, live) \in BotRecords /\ BotRevised(a, n, live).state = a.state
           /\ BotRevised(a, n, live).name = n /\ BotRevised(a, n, live).owner = a.owner
           /\ BotRevised(a, n, live).live = live /\ BotRevised(a, n, live).beat = a.beat
BY DEF BotRevised, BotRecords

LEMMA BotGoneOf ==
    ASSUME NEW u \in Users \cup {None}
    PROVE  /\ BotGone(u) \in BotRecords /\ BotGone(u).state = "deleted" /\ BotGone(u).owner = u
           /\ BotGone(u).beat = "never"
BY DEF BotGone, BotRecords, NoBot

LEMMA BotHeardOf ==
    ASSUME NEW a \in BotRecords, NEW live \in BOOLEAN, NEW beat \in {"never", "old", "fresh"}
    PROVE  /\ BotHeard(a, live, beat) \in BotRecords /\ BotHeard(a, live, beat).state = a.state
           /\ BotHeard(a, live, beat).name = a.name /\ BotHeard(a, live, beat).owner = a.owner
           /\ BotHeard(a, live, beat).live = live /\ BotHeard(a, live, beat).beat = beat
BY DEF BotHeard, BotRecords

LEMMA BotCheckInv ==
    ASSUME BotsInv, NEW q \in Requests, NEW u \in Users, NEW n \in Names, BotCheck(q, u, n)
    PROVE  BotsInv'
<1>1. Start(q, "insertBot", u, None, n, None) /\ UNCHANGED botTables
  BY DEF BotCheck
<1>2. /\ req' \in [Requests -> BotSlots]
      /\ req'[q].pc = "insertBot" /\ req'[q].user = u /\ req'[q].row = None /\ req'[q].name = n
      /\ \A p \in Requests \ {q} : req'[p] = req[p]
  BY <1>1, BotStart DEF BotsInv, BotPcs, Flags
<1>3. BotSlotOK(q)'
  BY <1>2 DEF BotSlotOK
<1> QED
  BY <1>1, <1>2, <1>3, BotsKept, BotsStep

LEMMA BotFindInv ==
    ASSUME BotsInv, NEW q \in Requests, NEW u \in Users, NEW b \in BotIds,
           NEW n \in Names \cup {None}, NEW live \in Flags, BotFind(q, u, b, n, live)
    PROVE  BotsInv'
<1>1. PICK next \in {"writeBot", "checkBot"} :
         /\ Start(q, next, u, b, n, live)
         /\ next = "checkBot" => n # None
  <2>1. CASE n = None
    <3>1. Start(q, "writeBot", u, b, n, live)
      BY <2>1 DEF BotFind
    <3> QED
      BY <3>1
  <2>2. CASE n # None
    <3>1. Start(q, "checkBot", u, b, n, live)
      BY <2>2 DEF BotFind
    <3> QED
      BY <2>2, <3>1
  <2> QED
    BY <2>1, <2>2
<1>2. UNCHANGED botTables /\ b \in Existing /\ MayManage(u, b)
  BY DEF BotFind
<1>3. /\ req' \in [Requests -> BotSlots]
      /\ req'[q].pc = next /\ req'[q].user = u /\ req'[q].row = b /\ req'[q].name = n
      /\ \A p \in Requests \ {q} : req'[p] = req[p]
  <2>1. next \in BotPcs /\ req \in [Requests -> BotSlots]
    BY DEF BotsInv, BotPcs
  <2> QED
    BY <1>1, <2>1, BotStart
<1>4. bot' = bot
  BY <1>2 DEF botTables
<1>5. BotSlotOK(q)'
  BY <1>1, <1>2, <1>3, <1>4 DEF BotSlotOK, Existing, MayManage
<1> QED
  BY <1>2, <1>3, <1>5, BotsKept, BotsStep

LEMMA BotDeleteFindInv ==
    ASSUME BotsInv, NEW q \in Requests, NEW u \in Users, NEW b \in BotIds, BotDeleteFind(q, u, b)
    PROVE  BotsInv'
<1>1. /\ Start(q, "deleteBot", u, b, None, None) /\ UNCHANGED botTables
      /\ b \in Existing /\ MayManage(u, b)
  BY DEF BotDeleteFind
<1>2. /\ req' \in [Requests -> BotSlots]
      /\ req'[q].pc = "deleteBot" /\ req'[q].user = u /\ req'[q].row = b
      /\ \A p \in Requests \ {q} : req'[p] = req[p]
  BY <1>1, BotStart DEF BotsInv, BotPcs, Flags
<1>3. bot' = bot
  BY <1>1 DEF botTables
<1>4. BotSlotOK(q)'
  BY <1>1, <1>2, <1>3 DEF BotSlotOK, Existing, MayManage
<1> QED
  BY <1>1, <1>2, <1>4, BotsKept, BotsStep

LEMMA BotRenameCheckInv ==
    ASSUME BotsInv, NEW q \in Requests, BotRenameCheck(q) PROVE BotsInv'
<1>1. req[q].pc = "checkBot" /\ UNCHANGED botTables /\ (Goto(q, "writeBot") \/ Return(q))
  BY DEF BotRenameCheck
<1>2. CASE Return(q)
  BY <1>1, <1>2, BotsKept, BotsEnd
<1>3. CASE Goto(q, "writeBot")
  <2>1. /\ req' \in [Requests -> BotSlots] /\ req'[q].pc = "writeBot"
        /\ req'[q].user = req[q].user /\ req'[q].row = req[q].row
        /\ \A p \in Requests \ {q} : req'[p] = req[p]
    BY <1>3, BotGoto DEF BotsInv
  <2>2. bot' = bot /\ BotSlotOK(q)
    BY <1>1 DEF botTables, BotsInv
  <2>3. BotSlotOK(q)'
    BY <1>1, <2>1, <2>2 DEF BotSlotOK, MayManage
  <2> QED
    BY <1>1, <2>1, <2>3, BotsKept, BotsStep
<1> QED
  BY <1>1, <1>2, <1>3

\* The table after an insert.
LEMMA BotInserted ==
    ASSUME BotsInv, NEW q \in Requests, BotInsert(q)
    PROVE  \E b \in BotIds :
              /\ bot[b].state = "none" /\ bot[b] \in BotRecords
              /\ bot' = [bot EXCEPT ![b] = BotMade(bot[b], req[q].name, req[q].user)]
              /\ req[q].name \in Names /\ req[q].user \in Users
              /\ bot'[b] = BotMade(bot[b], req[q].name, req[q].user)
              /\ \A c \in BotIds \ {b} : bot'[c] = bot[c]
<1>1. PICK b \in BotIds :
         /\ bot[b].state = "none"
         /\ bot' = [bot EXCEPT ![b] = BotMade(bot[b], req[q].name, req[q].user)]
  BY DEF BotInsert, BotMade
<1>2. req[q].name \in Names /\ req[q].user \in Users
  BY DEF BotInsert, BotsInv, BotSlotOK
<1>3. bot \in [BotIds -> BotRecords]
  BY DEF BotsInv, BotTables
<1> QED
  BY <1>1, <1>2, <1>3

LEMMA BotInsertInv == ASSUME BotsInv, NEW q \in Requests, BotInsert(q) PROVE BotsInv'
<1>1. PICK b \in BotIds :
         /\ bot[b].state = "none" /\ bot[b] \in BotRecords
         /\ bot' = [bot EXCEPT ![b] = BotMade(bot[b], req[q].name, req[q].user)]
         /\ req[q].name \in Names /\ req[q].user \in Users
  BY BotInserted
<1>2. PICK record \in BotRecords : record = BotMade(bot[b], req[q].name, req[q].user)
  BY <1>1, BotMadeOf
<1>3. /\ record.state = "exists" /\ record.name \in Names /\ record.owner \in Users
      /\ record.beat = bot[b].beat
  BY <1>1, <1>2, BotMadeOf
<1>4. Return(q) /\ UNCHANGED <<message, job, foreign, beaten>>
  BY DEF BotInsert
<1>5. beaten \subseteq job.todo /\ foreign \subseteq Existing
  BY DEF BotsInv, BotTables
<1>6. bot' = [bot EXCEPT ![b] = record] /\ b \notin foreign'
  BY <1>1, <1>2, <1>4, <1>5 DEF Existing
<1>7. /\ record.beat = "fresh" => bot[b].beat = "fresh"
      /\ bot[b].state = "none" /\ message' = message /\ job' = job
      /\ beaten \subseteq beaten' /\ beaten' \subseteq job.todo
      /\ foreign' \subseteq foreign \cup {b}
  BY <1>1, <1>3, <1>4, <1>5
<1>8. BotsLast /\ BotTables'
  BY <1>3, <1>6, <1>7, BotChanges
<1> QED
  BY <1>4, <1>8, BotsEnd

\* The table after an update: the row is as it was but for the name asked for
\* and for being live.
BotWrites(q, b, n, live) ==
    /\ b = req[q].row /\ b \in Existing /\ bot[b] \in BotRecords
    /\ n \in Names /\ n = (IF req[q].name = None THEN bot[b].name ELSE req[q].name)
    /\ live = (IF req[q].flag = None THEN bot[b].live ELSE req[q].flag)
    /\ bot' = [bot EXCEPT ![b] = BotRevised(bot[b], n, live)]
    /\ foreign' = IF req[q].name = None THEN foreign
                     ELSE IF bot[b].owner = req[q].user THEN foreign \ {b}
                                                        ELSE foreign \cup {b}

LEMMA BotWritten ==
    ASSUME BotsInv, NEW q \in Requests, BotWrite(q)
    PROVE  \/ \E b \in BotIds, n \in Names, live \in BOOLEAN : BotWrites(q, b, n, live)
           \/ UNCHANGED <<bot, foreign>>
<1> DEFINE b == req[q].row
           n == IF req[q].name = None THEN bot[b].name ELSE req[q].name
           live == IF req[q].flag = None THEN bot[b].live ELSE req[q].flag
<1>1. req[q].pc = "writeBot" /\ b \in BotIds /\ bot \in [BotIds -> BotRecords]
  BY DEF BotWrite, BotsInv, BotTables, BotSlotOK
<1>2. bot[b] \in BotRecords
  BY <1>1
<1>3. ASSUME b \in Existing,
             bot' = [bot EXCEPT ![b] = BotRevised(bot[b], n, live)],
             foreign' = IF req[q].name = None THEN foreign
                           ELSE IF bot[b].owner = req[q].user THEN foreign \ {b}
                                                              ELSE foreign \cup {b}
      PROVE  \E c \in BotIds, m \in Names, l \in BOOLEAN : BotWrites(q, c, m, l)
  <2>1. n \in Names
    BY <1>3 DEF BotsInv, BotTables, BotSlots
  <2>2. live \in BOOLEAN
    BY <1>2 DEF BotsInv, BotSlots, BotRecords, Flags
  <2>3. BotWrites(q, b, n, live)
    BY <1>2, <1>3, <2>1 DEF BotWrites
  <2> QED
    BY <1>1, <2>1, <2>2, <2>3
<1>4. CASE /\ b \in Existing
           /\ bot' = [bot EXCEPT ![b] = [bot[b] EXCEPT !.name = n, !.live = live]]
           /\ foreign' = IF req[q].name = None THEN foreign
                            ELSE IF bot[b].owner = req[q].user THEN foreign \ {b}
                                                               ELSE foreign \cup {b}
  BY <1>3, <1>4 DEF BotRevised
<1>5. CASE UNCHANGED <<bot, foreign>>
  BY <1>5
<1> QED
  BY <1>4, <1>5 DEF BotWrite

LEMMA BotWriteInv == ASSUME BotsInv, NEW q \in Requests, BotWrite(q) PROVE BotsInv'
<1>1. Return(q) /\ UNCHANGED <<message, job, beaten>>
  BY DEF BotWrite
<1>2. CASE UNCHANGED <<bot, foreign>>
  <2>1. UNCHANGED botTables
    BY <1>1, <1>2 DEF botTables
  <2> QED
    BY <1>1, <2>1, BotsKept, BotsEnd
<1>3. ASSUME NEW b \in BotIds, NEW n \in Names, NEW live \in BOOLEAN, BotWrites(q, b, n, live)
      PROVE  BotsInv'
  <2>1. PICK record \in BotRecords : record = BotRevised(bot[b], n, live)
    BY <1>3, BotRevisedOf DEF BotWrites
  <2>2. bot[b].state = "exists" /\ bot[b].owner \in Users /\ bot[b] \in BotRecords
    BY <1>3 DEF BotWrites, BotsInv, BotTables, Existing
  <2>3. /\ record.state = "exists" /\ record.name \in Names /\ record.owner = bot[b].owner
        /\ record.beat = bot[b].beat
    BY <2>1, <2>2, BotRevisedOf
  <2>4. bot' = [bot EXCEPT ![b] = record] /\ foreign' \subseteq foreign \cup {b}
    BY <1>3, <2>1 DEF BotWrites
  <2>5. beaten \subseteq job.todo
    BY DEF BotsInv, BotTables
  <2>6. BotsLast /\ BotTables'
    BY <1>1, <2>2, <2>3, <2>4, <2>5, BotChanges
  <2> QED
    BY <1>1, <2>6, BotsEnd
<1> QED
  BY <1>2, <1>3, BotWritten

\* The table after a delete.
LEMMA BotDeleted ==
    ASSUME BotsInv, NEW q \in Requests, BotDelete(q)
    PROVE  \E b \in BotIds :
              /\ b = req[q].row /\ bot[b].state # "none" /\ bot[b].owner \in Users \cup {None}
              /\ bot' = [bot EXCEPT ![b] = BotGone(bot[b].owner)]
              /\ foreign' = foreign \ {b}
<1>1. PICK b \in BotIds : b = req[q].row /\ bot[b].state # "none"
  BY DEF BotDelete, BotsInv, BotSlotOK
<1>2. bot[b] \in BotRecords
  BY DEF BotsInv, BotTables
<1> QED
  BY <1>1, <1>2 DEF BotDelete, BotGone, BotRecords

LEMMA BotDeleteInv == ASSUME BotsInv, NEW q \in Requests, BotDelete(q) PROVE BotsInv'
<1>1. PICK b \in BotIds :
         /\ b = req[q].row /\ bot[b].state # "none" /\ bot[b].owner \in Users \cup {None}
         /\ bot' = [bot EXCEPT ![b] = BotGone(bot[b].owner)]
         /\ foreign' = foreign \ {b}
  BY BotDeleted
<1>2. PICK record \in BotRecords : record = BotGone(bot[b].owner)
  BY <1>1, BotGoneOf
<1>3. record.state = "deleted" /\ record.owner = bot[b].owner /\ record.beat = "never"
  BY <1>1, <1>2, BotGoneOf
<1>4. Return(q) /\ UNCHANGED <<message, job, beaten>>
  BY DEF BotDelete
<1>5. beaten \subseteq job.todo
  BY DEF BotsInv, BotTables
<1>6. bot' = [bot EXCEPT ![b] = record] /\ b \notin foreign' /\ foreign' \subseteq foreign \cup {b}
  BY <1>1, <1>2
<1>7. BotsLast /\ BotTables'
  BY <1>1, <1>3, <1>4, <1>5, <1>6, BotChanges
<1> QED
  BY <1>4, <1>7, BotsEnd

LEMMA BotAbortInv == ASSUME BotsInv, NEW q \in Requests, BotAbort(q) PROVE BotsInv'
BY BotsKept, BotsEnd DEF BotAbort

-----------------------------------------------------------------------------
(* Bots: the worker and the job.                                           *)

LEMMA BeatFindInv ==
    ASSUME BotsInv, NEW b \in BotIds, NEW live \in BOOLEAN, NEW beat \in {"fresh", "old"},
           BeatFind(b, live, beat)
    PROVE  BotsInv'
<1>1. message' = [row |-> b, live |-> live, beat |-> beat] /\ UNCHANGED <<req, bot, job, foreign, beaten>>
  BY DEF BeatFind
<1>2. message' \in Beats
  BY <1>1 DEF Beats
<1>3. BotsLast
  BY <1>1 DEF BotsLast
<1>4. Existing' = Existing /\ \A c \in job.todo : Due(c)'
  BY <1>1 DEF BotsInv, BotTables, Due, Silent, Existing
<1>5. BotTables'
  BY <1>1, <1>2, <1>4 DEF BotsInv, BotTables
<1> QED
  BY <1>1, <1>3, <1>5, BotsNoRequest

LEMMA BeatUpdateInv == ASSUME BotsInv, BeatUpdate PROVE BotsInv'
<1>1. message \in Beats /\ message' = None /\ UNCHANGED <<req, job, foreign>>
  BY DEF BeatUpdate, BotsInv, BotTables, requests
<1>2. PICK b \in BotIds, live \in BOOLEAN, beat \in {"fresh", "old"} :
         b = message.row /\ live = message.live /\ beat = message.beat
  BY <1>1 DEF Beats
<1>3. bot[b] \in BotRecords /\ beaten \subseteq job.todo /\ foreign \subseteq Existing
  BY DEF BotsInv, BotTables
<1>4. CASE UNCHANGED <<bot, beaten>>
  <2>1. BotsLast
    BY <1>4 DEF BotsLast
  <2>2. Existing' = Existing /\ \A c \in job.todo : Due(c)'
    BY <1>4 DEF BotsInv, BotTables, Due, Silent, Existing
  <2>3. BotTables'
    BY <1>1, <1>4, <2>2 DEF BotsInv, BotTables
  <2> QED
    BY <1>1, <2>1, <2>3, BotsNoRequest
<1>5. CASE /\ b \in Existing
           /\ bot' = [bot EXCEPT ![b] = BotHeard(bot[b], live, beat)]
           /\ beaten' = beaten \cup ({b} \cap job.todo)
  <2>1. PICK record \in BotRecords : record = BotHeard(bot[b], live, beat)
    BY <1>3, BotHeardOf
  <2>2. /\ record.state = "exists" /\ record.name = bot[b].name /\ record.owner = bot[b].owner
    BY <1>3, <1>5, <2>1, BotHeardOf DEF Existing
  <2>3. record.name \in Names /\ record.owner \in Users
    BY <1>5, <2>2 DEF BotsInv, BotTables
  <2>4. /\ bot' = [bot EXCEPT ![b] = record]
        /\ b \in beaten' \/ b \notin job.todo
        /\ beaten \subseteq beaten' /\ beaten' \subseteq job.todo
    BY <1>3, <1>5, <2>1
  <2>5. BotsLast /\ BotTables'
    BY <1>1, <2>2, <2>3, <2>4, BotChanges
  <2> QED
    BY <1>1, <2>5, BotsNoRequest
<1>6. UNCHANGED <<bot, beaten>> \/
        /\ b \in Existing
        /\ bot' = [bot EXCEPT ![b] = BotHeard(bot[b], live, beat)]
        /\ beaten' = beaten \cup ({b} \cap job.todo)
  BY <1>2 DEF BeatUpdate, BotHeard
<1> QED
  BY <1>4, <1>5, <1>6

LEMMA BeatGrowsOldInv == ASSUME BotsInv, NEW b \in BotIds, BeatGrowsOld(b) PROVE BotsInv'
<1>1. /\ b \in Existing /\ bot' = [bot EXCEPT ![b].beat = "old"]
      /\ UNCHANGED <<req, message, job, foreign, beaten>>
  BY DEF BeatGrowsOld, requests
<1>2. bot[b] \in BotRecords /\ bot[b].live \in BOOLEAN /\ beaten \subseteq job.todo
  BY DEF BotsInv, BotTables, BotRecords
<1>3. PICK record \in BotRecords : record = BotHeard(bot[b], bot[b].live, "old")
  BY <1>2, BotHeardOf
<1>4. bot' = [bot EXCEPT ![b] = record]
  <2>1. PICK a \in BotRecords : a = bot[b]
    BY <1>2
  <2>2. [a EXCEPT !.beat = "old"] = [a EXCEPT !.live = a.live, !.beat = "old"]
    BY DEF BotRecords
  <2>3. [bot[b] EXCEPT !.beat = "old"] = record
    BY <1>3, <2>1, <2>2 DEF BotHeard
  <2> QED
    BY <1>1, <2>3
<1>5. /\ record.state = "exists" /\ record.name = bot[b].name /\ record.owner = bot[b].owner
      /\ record.beat = "old"
  BY <1>1, <1>2, <1>3, BotHeardOf DEF Existing
<1>6. record.name \in Names /\ record.owner \in Users
  BY <1>1, <1>5 DEF BotsInv, BotTables
<1>7. BotsLast /\ BotTables'
  BY <1>1, <1>2, <1>4, <1>5, <1>6, BotChanges
<1> QED
  BY <1>1, <1>7, BotsNoRequest

LEMMA JobSelectInv == ASSUME BotsInv, JobSelect PROVE BotsInv'
<1>1. /\ ~job.on /\ job' = [on |-> TRUE, todo |-> {b \in Existing : bot[b].live /\ Silent(b)}]
      /\ UNCHANGED <<req, bot, message, foreign, beaten>>
  BY DEF JobSelect, requests
<1>2. beaten = {} /\ Existing' = Existing
  BY <1>1 DEF BotsInv, BotTables, Existing
<1>3. job' \in [on : BOOLEAN, todo : SUBSET BotIds] /\ job'.on = TRUE
  BY <1>1 DEF Existing
<1>4. \A b \in job'.todo : Due(b)'
  BY <1>1 DEF Due, Silent
<1>5. BotTables' /\ BotsLast
  BY <1>1, <1>2, <1>3, <1>4 DEF BotsInv, BotTables, BotsLast
<1> QED
  BY <1>1, <1>5, BotsNoRequest

LEMMA JobIdleTables ==
    ASSUME BotsInv, job' = IdleJob, beaten' = {}, UNCHANGED <<bot, message, foreign>>
    PROVE  BotTables' /\ BotsLast
<1>1. job' \in [on : BOOLEAN, todo : SUBSET BotIds] /\ job'.todo = {}
  BY DEF IdleJob
<1>2. Existing' = Existing
  BY DEF Existing
<1> QED
  BY <1>1, <1>2 DEF BotsInv, BotTables, BotsLast

LEMMA JobUpdateInv == ASSUME BotsInv, NEW b \in BotIds, JobUpdate(b) PROVE BotsInv'
<1>1. b \in job.todo /\ UNCHANGED <<req, message, foreign>>
  BY DEF JobUpdate, requests
<1>2. CASE job' = IdleJob /\ beaten' = {} /\ UNCHANGED bot
  BY <1>1, <1>2, JobIdleTables, BotsNoRequest
<1>3. CASE /\ b \in Existing /\ bot' = [bot EXCEPT ![b].live = FALSE]
           /\ job' = [job EXCEPT !.todo = @ \ {b}]
           /\ beaten' = beaten \ {b}
  <2>1. bot \in [BotIds -> BotRecords] /\ job \in [on : BOOLEAN, todo : SUBSET BotIds]
    BY DEF BotsInv, BotTables
  <2>2. /\ \A c \in BotIds : /\ bot'[c].state = bot[c].state /\ bot'[c].owner = bot[c].owner
                             /\ bot'[c].name = bot[c].name /\ bot'[c].beat = bot[c].beat
        /\ bot' \in [BotIds -> BotRecords]
    BY <1>3, <2>1 DEF BotRecords
  <2>3. /\ job' \in [on : BOOLEAN, todo : SUBSET BotIds]
        /\ job'.on = job.on /\ job'.todo = job.todo \ {b}
    BY <1>3, <2>1
  <2>4. BotsLast /\ Existing' = Existing
    BY <2>2 DEF BotsLast, Existing
  <2>5. \A c \in job'.todo : Due(c)'
    <3> SUFFICES ASSUME NEW c \in job.todo, c # b PROVE Due(c)'
      BY <2>3
    <3>1. c \in BotIds /\ Due(c)
      BY <2>1 DEF BotsInv, BotTables
    <3> QED
      BY <1>3, <2>2, <3>1 DEF Due, Silent
  <2>6. /\ \A c \in Existing : bot'[c].name \in Names /\ bot'[c].owner \in Users
        /\ ~job'.on => job'.todo = {}
        /\ beaten' \subseteq job'.todo
    BY <1>3, <2>2, <2>3 DEF BotsInv, BotTables, Existing
  <2>7. BotTables'
    BY <1>1, <2>2, <2>3, <2>4, <2>5, <2>6 DEF BotsInv, BotTables
  <2> QED
    BY <1>1, <2>4, <2>7, BotsNoRequest
<1> QED
  BY <1>2, <1>3 DEF JobUpdate

LEMMA JobDoneInv == ASSUME BotsInv, JobDone PROVE BotsInv'
<1>1. job' = IdleJob /\ job.todo = {} /\ UNCHANGED <<req, bot, message, foreign, beaten>>
  BY DEF JobDone, requests
<1>2. beaten' = {}
  BY <1>1 DEF BotsInv, BotTables
<1> QED
  BY <1>1, <1>2, JobIdleTables, BotsNoRequest

-----------------------------------------------------------------------------
(* Bots: what the invariant says.                                          *)

LEMMA BotsInitInv ==
    ASSUME NEW old \in {{}, BotIds}, NEW made, BotsInit(old), HandlersInit(made) PROVE BotsInv
<1>1. \A b \in old : OldName(old)[b] \in Names /\ OldOwner \in Users
  <2>1. CASE old = {}
    BY <2>1
  <2>2. CASE old = BotIds
    <3>1. \E f \in [old -> Names] : \A b, c \in old : f[b] = f[c] => b = c
      BY <2>2, OldBotsAssumption
    <3>2. \E u \in Users : u \notin Admins
      BY OldBotsAssumption
    <3> QED
      BY <3>1, <3>2 DEF OldName, OldOwner
  <2> QED
    BY <2>1, <2>2
<1>2. old \subseteq BotIds /\ NoBot("none") \in BotRecords /\ NoBot("none").state = "none"
  BY DEF NoBot, BotRecords
<1>3. \A b \in BotIds :
         /\ b \in old => bot[b] = [state |-> "exists", name |-> OldName(old)[b],
                                   owner |-> OldOwner, live |-> TRUE, beat |-> "old"]
         /\ b \notin old => bot[b] = NoBot("none")
  BY DEF BotsInit
<1>4. bot \in [BotIds -> BotRecords]
  <2>1. ASSUME NEW b \in BotIds PROVE bot[b] \in BotRecords
    <3>1. CASE b \in old
      <4>1. PICK n \in Names, u \in Users : n = OldName(old)[b] /\ u = OldOwner
        BY <1>1, <3>1
      <4>2. bot[b] = [state |-> "exists", name |-> n, owner |-> u, live |-> TRUE, beat |-> "old"]
        BY <1>3, <3>1, <4>1
      <4> QED
        BY <4>2 DEF BotRecords
    <3>2. CASE b \notin old
      BY <1>2, <1>3, <3>2
    <3> QED
      BY <3>1, <3>2
  <2>2. bot = [b \in BotIds |-> bot[b]]
    BY DEF BotsInit
  <2> QED
    BY <2>1, <2>2
<1>5. \A b \in Existing : bot[b].name \in Names /\ bot[b].owner \in Users
  <2> SUFFICES ASSUME NEW b \in BotIds, bot[b].state = "exists"
               PROVE  bot[b].name \in Names /\ bot[b].owner \in Users
    BY DEF Existing
  <2>1. b \in old
    BY <1>2, <1>3
  <2>2. PICK n \in Names, u \in Users : n = OldName(old)[b] /\ u = OldOwner
    BY <1>1, <2>1
  <2>3. bot[b] = [state |-> "exists", name |-> n, owner |-> u, live |-> TRUE, beat |-> "old"]
    BY <1>3, <2>1, <2>2
  <2> QED
    BY <2>3
<1>6. BotTables
  <2>1. /\ job = [on |-> FALSE, todo |-> {}] /\ message = None
        /\ foreign = {} /\ beaten = {}
    BY DEF BotsInit, IdleJob
  <2>2. job \in [on : BOOLEAN, todo : SUBSET BotIds] /\ job.todo = {}
    BY <2>1
  <2> QED
    BY <1>4, <1>5, <2>1, <2>2 DEF BotTables
<1>7. req \in [Requests -> BotSlots] /\ \A q \in Requests : req[q].pc = "idle"
  BY DEF HandlersInit, Request, BotSlots, BotPcs, Flags
<1> QED
  BY <1>6, <1>7 DEF BotsInv, BotSlotOK

LEMMA BotsStepInv == ASSUME BotsInv, BotsNext PROVE BotsInv'
<1>1. CASE BotRequests
  BY <1>1, BotCheckInv, BotFindInv, BotDeleteFindInv, BotInsertInv, BotRenameCheckInv,
     BotWriteInv, BotDeleteInv, BotAbortInv
     DEF BotRequests
<1>2. CASE Heartbeats
  BY <1>2, BeatFindInv, BeatUpdateInv, BeatGrowsOldInv DEF Heartbeats
<1>3. CASE Job
  BY <1>3, JobSelectInv, JobUpdateInv, JobDoneInv DEF Job
<1>4. ASSUME NEW u \in Users, ChangeRole(u), UNCHANGED botTables
      PROVE  BotsInv'
  BY <1>4 DEF ChangeRole, botTables, BotsInv, BotTables, BotSlotOK, Existing, Due, Silent
<1> QED
  BY <1>1, <1>2, <1>3, <1>4 DEF BotsNext

LEMMA BotsTypes == BotsInv => BotTypeOK
<1> SUFFICES ASSUME BotsInv PROVE BotTypeOK
  OBVIOUS
<1>1. \A q \in At({"checkBot", "writeBot", "deleteBot"}) : bot[req[q].row].state # "none"
  BY DEF At, BotsInv, BotSlotOK
<1> QED
  BY <1>1 DEF BotsInv, BotTables, BotTypeOK, BotRecords

\* The cause of a change of whether the bot is live.
LiveCaused(b) ==
    bot'[b].state = "exists" /\ bot'[b].live # bot[b].live =>
        \/ \E q \in At({"writeBot"}) : req[q].row = b /\ req[q].flag = bot'[b].live
        \/ message # None /\ message.row = b /\ message.live = bot'[b].live
        \/ b \in job.todo /\ ~bot'[b].live /\ (Silent(b) \/ b \in beaten)

LEMMA LiveKept ==
    ASSUME NEW b \in BotIds, bot'[b].live = bot[b].live \/ bot'[b].state # "exists"
    PROVE  LiveCaused(b)
BY DEF LiveCaused

LEMMA BotsStepCaused == ASSUME BotsInv, BotsNext, NEW b \in BotIds PROVE LiveCaused(b)
<1>1. bot \in [BotIds -> BotRecords]
  BY DEF BotsInv, BotTables
<1>2. ASSUME NEW q \in Requests, BotInsert(q) PROVE LiveCaused(b)
  <2>1. PICK c \in BotIds :
           /\ bot[c] \in BotRecords
           /\ req[q].name \in Names /\ req[q].user \in Users
           /\ bot'[c] = BotMade(bot[c], req[q].name, req[q].user)
           /\ \A d \in BotIds \ {c} : bot'[d] = bot[d]
    BY <1>2, BotInserted
  <2>2. bot'[c].live = bot[c].live
    BY <2>1, BotMadeOf
  <2> QED
    BY <2>1, <2>2, LiveKept
<1>3. ASSUME NEW q \in Requests, BotWrite(q) PROVE LiveCaused(b)
  <2>1. CASE UNCHANGED <<bot, foreign>>
    BY <2>1, LiveKept
  <2>2. ASSUME NEW c \in BotIds, NEW n \in Names, NEW live \in BOOLEAN, BotWrites(q, c, n, live)
        PROVE  LiveCaused(b)
    <3>1. /\ bot'[c] = BotRevised(bot[c], n, live) /\ c = req[q].row
          /\ \A d \in BotIds \ {c} : bot'[d] = bot[d]
      BY <1>1, <2>2 DEF BotWrites
    <3>2. bot'[c].live = live
      BY <1>1, <3>1, BotRevisedOf
    <3>3. req[q].flag = None => live = bot[c].live
      BY <2>2 DEF BotWrites
    <3>4. req[q].flag # None => live = req[q].flag
      BY <2>2 DEF BotWrites
    <3>5. q \in At({"writeBot"})
      BY <1>3 DEF BotWrite, At
    <3>6. CASE b = c /\ req[q].flag # None
      BY <3>1, <3>2, <3>4, <3>5, <3>6 DEF LiveCaused
    <3>7. CASE b = c /\ req[q].flag = None
      BY <3>2, <3>3, <3>7, LiveKept
    <3>8. CASE b # c
      BY <3>1, <3>8, LiveKept
    <3> QED
      BY <3>6, <3>7, <3>8
  <2> QED
    BY <1>3, <2>1, <2>2, BotWritten
<1>4. ASSUME NEW q \in Requests, BotDelete(q) PROVE LiveCaused(b)
  <2>1. PICK c \in BotIds :
           bot[c].owner \in Users \cup {None} /\ bot' = [bot EXCEPT ![c] = BotGone(bot[c].owner)]
    BY <1>4, BotDeleted
  <2>2. bot'[c].state = "deleted" /\ \A d \in BotIds \ {c} : bot'[d] = bot[d]
    BY <1>1, <2>1, BotGoneOf
  <2> QED
    BY <2>2, LiveKept
<1>5. CASE BeatUpdate
  <2>1. message \in Beats
    BY <1>5 DEF BeatUpdate, BotsInv, BotTables
  <2>2. CASE UNCHANGED bot
    BY <2>2, LiveKept
  <2>3. CASE bot' = [bot EXCEPT ![message.row] =
                       [@ EXCEPT !.live = message.live, !.beat = message.beat]]
    <3>1. PICK c \in BotIds : c = message.row
      BY <2>1 DEF Beats
    <3>2. /\ bot'[c].live = message.live
          /\ \A d \in BotIds \ {c} : bot'[d] = bot[d]
      BY <1>1, <2>3, <3>1 DEF BotRecords
    <3>3. CASE b = c
      BY <1>5, <3>1, <3>2, <3>3 DEF LiveCaused, BeatUpdate
    <3>4. CASE b # c
      BY <3>2, <3>4, LiveKept
    <3> QED
      BY <3>3, <3>4
  <2> QED
    BY <1>5, <2>2, <2>3 DEF BeatUpdate
<1>6. ASSUME NEW c \in BotIds, BeatGrowsOld(c) PROVE LiveCaused(b)
  <2>1. bot'[b].live = bot[b].live
    BY <1>1, <1>6 DEF BeatGrowsOld, BotRecords
  <2> QED
    BY <2>1, LiveKept
<1>7. ASSUME NEW c \in BotIds, JobUpdate(c) PROVE LiveCaused(b)
  <2>1. c \in job.todo /\ Due(c)
    BY <1>7 DEF JobUpdate, BotsInv, BotTables
  <2>2. CASE UNCHANGED bot
    BY <2>2, LiveKept
  <2>3. CASE bot' = [bot EXCEPT ![c].live = FALSE]
    <3>1. bot'[c].live = FALSE /\ \A d \in BotIds \ {c} : bot'[d] = bot[d]
      BY <1>1, <2>3 DEF BotRecords
    <3>2. CASE b = c
      BY <2>1, <3>1, <3>2 DEF LiveCaused, Due
    <3>3. CASE b # c
      BY <3>1, <3>3, LiveKept
    <3> QED
      BY <3>2, <3>3
  <2> QED
    BY <1>7, <2>2, <2>3 DEF JobUpdate
<1>8. CASE UNCHANGED bot
  BY <1>8, LiveKept
<1>9. CASE BotRequests
  BY <1>2, <1>3, <1>4, <1>8, <1>9
     DEF BotRequests, BotCheck, BotFind, BotDeleteFind, BotRenameCheck, BotAbort, botTables
<1>10. CASE Heartbeats
  BY <1>5, <1>6, <1>8, <1>10 DEF Heartbeats, BeatFind
<1>11. CASE Job
  BY <1>7, <1>8, <1>11 DEF Job, JobSelect, JobDone
<1> QED
  BY <1>8, <1>9, <1>10, <1>11 DEF BotsNext, botTables

-----------------------------------------------------------------------------
(* The checks: one key at a time, whichever part it belongs to.            *)

LEMMA CheckedKinds ==
    ASSUME NEW k \in CheckedKeys
    PROVE  \/ \E n \in Names : k = <<"lobby", n>>
           \/ \E u \in Users, n \in Names : k = <<"bot", u, n>>
           \/ \E u \in Users : k = <<"export", u>>
BY DEF CheckedKeys

LEMMA CheckedIs ==
    /\ \A n \in Names : LET k == <<"lobby", n>> IN
          /\ k \in CheckedKeys
          /\ RowsOf(k) = LobbyRows(n) /\ RowsOf(k)' = LobbyRows(n)'
          /\ HoldersOf(k) = LobbyNamers(n) /\ HoldersOf(k)' = LobbyNamers(n)'
    /\ \A u \in Users, n \in Names : LET k == <<"bot", u, n>> IN
          /\ k \in CheckedKeys
          /\ RowsOf(k) = BotRows(u, n) /\ RowsOf(k)' = BotRows(u, n)'
          /\ HoldersOf(k) = BotNamers(u, n) /\ HoldersOf(k)' = BotNamers(u, n)'
    /\ \A u \in Users : LET k == <<"export", u>> IN
          /\ k \in CheckedKeys
          /\ RowsOf(k) = PendingOf(u) /\ RowsOf(k)' = PendingOf(u)'
          /\ HoldersOf(k) = ExportHolders(u) /\ HoldersOf(k)' = ExportHolders(u)'
<1>1. \A n \in Names : <<"lobby", n>> \in CheckedKeys
  BY DEF CheckedKeys
<1>2. \A u \in Users : /\ <<"export", u>> \in CheckedKeys
                       /\ \A n \in Names : <<"bot", u, n>> \in CheckedKeys
  BY DEF CheckedKeys
<1>3. \A n \in Names : /\ RowsOf(<<"lobby", n>>) = LobbyRows(n)
                       /\ RowsOf(<<"lobby", n>>)' = LobbyRows(n)'
                       /\ HoldersOf(<<"lobby", n>>) = LobbyNamers(n)
                       /\ HoldersOf(<<"lobby", n>>)' = LobbyNamers(n)'
  BY DEF RowsOf, HoldersOf
<1>4. \A u \in Users : /\ RowsOf(<<"export", u>>) = PendingOf(u)
                       /\ RowsOf(<<"export", u>>)' = PendingOf(u)'
                       /\ HoldersOf(<<"export", u>>) = ExportHolders(u)
                       /\ HoldersOf(<<"export", u>>)' = ExportHolders(u)'
  BY DEF RowsOf, HoldersOf
<1>5. \A u \in Users, n \in Names : /\ RowsOf(<<"bot", u, n>>) = BotRows(u, n)
                                    /\ RowsOf(<<"bot", u, n>>)' = BotRows(u, n)'
                                    /\ HoldersOf(<<"bot", u, n>>) = BotNamers(u, n)
                                    /\ HoldersOf(<<"bot", u, n>>)' = BotNamers(u, n)'
  BY DEF RowsOf, HoldersOf
<1> QED
  BY <1>1, <1>2, <1>3, <1>4, <1>5

\* A step of one key, as CheckThenInsert has it.
LEMMA CheckPass ==
    ASSUME NEW k \in CheckedKeys, NEW q \in Requests, IsFiniteSet(RowsOf(k)),
           q \notin HoldersOf(k), HoldersOf(k)' = HoldersOf(k) \cup {q}, RowsOf(k)' = {}
    PROVE  Checks!KeyStep(k)
<1>1. Cardinality(RowsOf(k)') = 0
  BY FS_EmptySet
<1>2. Cardinality(RowsOf(k)) \in Nat
  BY FS_CardinalityType
<1>3. Checks!Pass(k, q)
  BY <1>1, <1>2 DEF Checks!Pass
<1> QED
  BY <1>3 DEF Checks!KeyStep

LEMMA CheckLeave ==
    ASSUME NEW k \in CheckedKeys, NEW q \in Requests, NEW r, IsFiniteSet(RowsOf(k)),
           q \in HoldersOf(k), HoldersOf(k)' = HoldersOf(k) \ {q},
           RowsOf(k) \subseteq RowsOf(k)', RowsOf(k)' \subseteq RowsOf(k) \cup {r}
    PROVE  Checks!KeyStep(k)
<1>1. RowsOf(k)' \in {RowsOf(k), RowsOf(k) \cup {r}}
  OBVIOUS
<1>2. Cardinality(RowsOf(k)') \in {Cardinality(RowsOf(k)), Cardinality(RowsOf(k)) + 1}
  BY <1>1, FS_AddElement
<1>3. Checks!Leave(k, q)
  BY <1>2 DEF Checks!Leave
<1> QED
  BY <1>3 DEF Checks!KeyStep

LEMMA CheckRemove ==
    ASSUME NEW k \in CheckedKeys, IsFiniteSet(RowsOf(k)), HoldersOf(k)' = HoldersOf(k),
           RowsOf(k)' \subseteq RowsOf(k)
    PROVE  Checks!KeyStep(k)
<1>1. IsFiniteSet(RowsOf(k)') /\ Cardinality(RowsOf(k)') <= Cardinality(RowsOf(k))
  BY FS_Subset
<1>2. Cardinality(RowsOf(k)') \in Nat /\ Cardinality(RowsOf(k)) \in Nat
  BY <1>1, FS_CardinalityType
<1>3. Checks!Remove(k)
  BY <1>1, <1>2 DEF Checks!Remove
<1> QED
  BY <1>3 DEF Checks!KeyStep

LEMMA CheckedFinite ==
    /\ \A n \in Names : IsFiniteSet(LobbyRows(n))
    /\ \A u \in Users : IsFiniteSet(PendingOf(u)) /\ \A n \in Names : IsFiniteSet(BotRows(u, n))
<1>1. \A n \in Names : LobbyRows(n) \in SUBSET LobbyIds
  BY DEF LobbyRows, LobbiesNamed, Lobbies
<1>2. \A u \in Users : PendingOf(u) \in SUBSET ExportIds /\ \A n \in Names : BotRows(u, n) \in SUBSET BotIds
  BY DEF PendingOf, BotRows, BotsNamed, UserBots, Existing
<1>3. IsFiniteSet(LobbyIds) /\ IsFiniteSet(ExportIds) /\ IsFiniteSet(BotIds)
  BY LobbyIdsAssumption, ExportIdsAssumption, BotIdsAssumption
<1> QED
  BY <1>1, <1>2, <1>3, FS_Subset

\* A part that does not run: no request holds one of its keys, and its table
\* stays.
NoLobbyHolder == \A q \in Requests : req[q].pc \notin {"insertLobby", "writeLobby"}
NoBotHolder == \A q \in Requests : req[q].pc \notin {"insertBot", "writeBot"}
NoExportHolder == \A q \in Requests : req[q].pc # "insertExport"

LEMMA LobbyKeysRest ==
    ASSUME NoLobbyHolder, NoLobbyHolder', lobby' = lobby, NEW n \in Names
    PROVE  Checks!KeyStep(<<"lobby", n>>)
<1>1. LobbyNamers(n) = {} /\ LobbyNamers(n)' = {}
  BY DEF LobbyNamers, At, NoLobbyHolder
<1>2. LobbyRows(n)' = LobbyRows(n)
  BY <1>1 DEF LobbyRows, LobbiesNamed, Lobbies
<1> QED
  BY <1>1, <1>2, CheckedIs, CheckedFinite, CheckRemove

LEMMA BotKeysRest ==
    ASSUME NoBotHolder, NoBotHolder', UNCHANGED <<bot, foreign>>, NEW u \in Users, NEW n \in Names
    PROVE  Checks!KeyStep(<<"bot", u, n>>)
<1>1. BotNamers(u, n) = {} /\ BotNamers(u, n)' = {}
  BY DEF BotNamers, At, NoBotHolder
<1>2. BotRows(u, n)' = BotRows(u, n)
  BY <1>1 DEF BotRows, BotsNamed, UserBots, Existing
<1> QED
  BY <1>1, <1>2, CheckedIs, CheckedFinite, CheckRemove

LEMMA ExportKeysRest ==
    ASSUME NoExportHolder, NoExportHolder', export' = export, NEW u \in Users
    PROVE  Checks!KeyStep(<<"export", u>>)
<1>1. ExportHolders(u) = {} /\ ExportHolders(u)' = {}
  BY DEF ExportHolders, At, NoExportHolder
<1>2. PendingOf(u)' = PendingOf(u)
  BY DEF PendingOf
<1> QED
  BY <1>1, <1>2, CheckedIs, CheckedFinite, CheckRemove

\* A part that runs: lobbies and exports have been shown to keep to the checks.
LEMMA LobbyKeys ==
    ASSUME NEW n \in Names, NameChecks!KeyStep(n) PROVE Checks!KeyStep(<<"lobby", n>>)
<1> DEFINE k == <<"lobby", n>>
<1>1. /\ k \in CheckedKeys
      /\ RowsOf(k) = LobbyRows(n) /\ RowsOf(k)' = LobbyRows(n)'
      /\ HoldersOf(k) = LobbyNamers(n) /\ HoldersOf(k)' = LobbyNamers(n)'
  BY CheckedIs
<1>2. CASE NameChecks!Remove(n)
  <2>1. Checks!Remove(k)
    BY <1>1, <1>2 DEF NameChecks!Remove, Checks!Remove
  <2> QED
    BY <2>1 DEF Checks!KeyStep
<1>3. ASSUME NEW q \in Requests, NameChecks!Pass(n, q) PROVE Checks!KeyStep(k)
  <2>1. Checks!Pass(k, q)
    BY <1>1, <1>3 DEF NameChecks!Pass, Checks!Pass
  <2> QED
    BY <2>1 DEF Checks!KeyStep
<1>4. ASSUME NEW q \in Requests, NameChecks!Leave(n, q) PROVE Checks!KeyStep(k)
  <2>1. Checks!Leave(k, q)
    BY <1>1, <1>4 DEF NameChecks!Leave, Checks!Leave
  <2> QED
    BY <2>1 DEF Checks!KeyStep
<1> QED
  BY <1>2, <1>3, <1>4 DEF NameChecks!KeyStep

LEMMA ExportKeys ==
    ASSUME NEW u \in Users, ExportChecks!KeyStep(u) PROVE Checks!KeyStep(<<"export", u>>)
<1> DEFINE k == <<"export", u>>
<1>1. /\ k \in CheckedKeys
      /\ RowsOf(k) = PendingOf(u) /\ RowsOf(k)' = PendingOf(u)'
      /\ HoldersOf(k) = ExportHolders(u) /\ HoldersOf(k)' = ExportHolders(u)'
  BY CheckedIs
<1>2. CASE ExportChecks!Remove(u)
  <2>1. Checks!Remove(k)
    BY <1>1, <1>2 DEF ExportChecks!Remove, Checks!Remove
  <2> QED
    BY <2>1 DEF Checks!KeyStep
<1>3. ASSUME NEW q \in Requests, ExportChecks!Pass(u, q) PROVE Checks!KeyStep(k)
  <2>1. Checks!Pass(k, q)
    BY <1>1, <1>3 DEF ExportChecks!Pass, Checks!Pass
  <2> QED
    BY <2>1 DEF Checks!KeyStep
<1>4. ASSUME NEW q \in Requests, ExportChecks!Leave(u, q) PROVE Checks!KeyStep(k)
  <2>1. Checks!Leave(k, q)
    BY <1>1, <1>4 DEF ExportChecks!Leave, Checks!Leave
  <2> QED
    BY <2>1 DEF Checks!KeyStep
<1> QED
  BY <1>2, <1>3, <1>4 DEF ExportChecks!KeyStep

-----------------------------------------------------------------------------
(* The checks: the names of a user's bots.                                 *)

\* The bots that requests are about to rename.
Claimed(u, n) == {req[q].row : q \in BotNamers(u, n)}

LEMMA BotRowsAre ==
    /\ \A u, n, b : b \in BotRows(u, n) <=>
          /\ b \in BotIds /\ bot[b].state = "exists" /\ bot[b].owner = u /\ bot[b].name = n
          /\ b \notin foreign /\ b \notin Claimed(u, n)
    /\ \A u, n, b : b \in BotRows(u, n)' <=>
          /\ b \in BotIds /\ bot'[b].state = "exists" /\ bot'[b].owner = u /\ bot'[b].name = n
          /\ b \notin foreign' /\ b \notin Claimed(u, n)'
BY DEF BotRows, BotsNamed, UserBots, Existing, Claimed

BotNames(q, u, n) ==
    /\ req[q].pc \in {"insertBot", "writeBot"} /\ req[q].user = u /\ req[q].name = n
    /\ req[q].pc = "writeBot" => bot[req[q].row].owner = u

LEMMA BotNamersAre ==
    /\ \A u, n, q : q \in BotNamers(u, n) <=> q \in Requests /\ BotNames(q, u, n)
    /\ \A u, n, q : q \in BotNamers(u, n)' <=> q \in Requests /\ BotNames(q, u, n)'
BY DEF BotNamers, At, BotNames

\* What another request holds it goes on holding: the owner of a bot stays.
LEMMA BotNamesKept ==
    ASSUME BotsInv, BotsLast, NEW p \in Requests, req'[p] = req[p], NEW u, NEW n
    PROVE  BotNames(p, u, n)' <=> BotNames(p, u, n)
<1>1. CASE req[p].pc = "writeBot"
  <2>1. req[p].row \in BotIds /\ bot[req[p].row].state # "none"
    BY <1>1 DEF BotsInv, BotSlotOK
  <2>2. bot'[req[p].row].owner = bot[req[p].row].owner
    BY <2>1 DEF BotsLast
  <2> QED
    BY <2>2 DEF BotNames
<1>2. CASE req[p].pc # "writeBot"
  BY <1>2 DEF BotNames
<1> QED
  BY <1>1, <1>2

\* A step of one request that neither begins nor ends to hold the name.
LEMMA BotKeyOther ==
    ASSUME BotsInv, BotsLast, NEW q \in Requests, \A p \in Requests \ {q} : req'[p] = req[p],
           NEW u \in Users, NEW n \in Names, ~BotNames(q, u, n), ~BotNames(q, u, n)',
           \A b \in BotIds : /\ bot'[b].state = "exists" /\ bot'[b].owner = u /\ bot'[b].name = n
                             /\ b \notin foreign'
                             => /\ bot[b].state = "exists" /\ bot[b].owner = u /\ bot[b].name = n
                                /\ b \notin foreign
    PROVE  Checks!KeyStep(<<"bot", u, n>>)
<1>1. \A p \in Requests : BotNames(p, u, n)' <=> BotNames(p, u, n)
  BY BotNamesKept
<1>2. BotNamers(u, n)' = BotNamers(u, n)
  BY <1>1, BotNamersAre
<1>3. \A p \in BotNamers(u, n) : req'[p] = req[p]
  BY BotNamersAre
<1>4. Claimed(u, n)' = Claimed(u, n)
  BY <1>2, <1>3 DEF Claimed
<1>5. BotRows(u, n)' \subseteq BotRows(u, n)
  BY <1>4, BotRowsAre
<1> QED
  BY <1>2, <1>5, CheckedIs, CheckedFinite, CheckRemove

\* The request holds the name from now on; the only bot that has it is the
\* one to be renamed.
LEMMA BotKeyPass ==
    ASSUME BotsInv, BotsLast, NEW q \in Requests, \A p \in Requests \ {q} : req'[p] = req[p],
           NEW u \in Users, NEW n \in Names, ~BotNames(q, u, n), BotNames(q, u, n)',
           UNCHANGED bot, BotsNamed(u, n) \subseteq {req'[q].row}
    PROVE  Checks!KeyStep(<<"bot", u, n>>)
<1>1. \A p \in Requests \ {q} : BotNames(p, u, n)' <=> BotNames(p, u, n)
  BY BotNamesKept
<1>2. q \notin BotNamers(u, n) /\ BotNamers(u, n)' = BotNamers(u, n) \cup {q}
  BY <1>1, BotNamersAre
<1>3. req'[q].row \in Claimed(u, n)'
  BY <1>2 DEF Claimed
<1>4. BotRows(u, n)' = {}
  <2>1. ASSUME NEW b \in BotRows(u, n)' PROVE FALSE
    <3>1. b \in BotsNamed(u, n) /\ b \notin Claimed(u, n)'
      BY <2>1, BotRowsAre DEF BotsNamed, UserBots, Existing
    <3> QED
      BY <1>3, <3>1
  <2> QED
    BY <2>1
<1> QED
  BY <1>2, <1>4, CheckedIs, CheckedFinite, CheckPass

\* The request held the name and ends; it may have given it to the bot b.
LEMMA BotKeyLeave ==
    ASSUME BotsInv, BotsLast, NEW q \in Requests, \A p \in Requests \ {q} : req'[p] = req[p],
           NEW u \in Users, NEW n \in Names, BotNames(q, u, n), ~BotNames(q, u, n)',
           NEW b, b = req[q].row \/ (req[q].row = None /\ bot[b].state = "none"),
           \A c \in BotIds \ {b} : bot'[c] = bot[c] /\ (c \in foreign' <=> c \in foreign)
    PROVE  Checks!KeyStep(<<"bot", u, n>>)
<1>1. \A p \in Requests \ {q} : BotNames(p, u, n)' <=> BotNames(p, u, n)
  BY BotNamesKept
<1>2. q \in BotNamers(u, n) /\ BotNamers(u, n)' = BotNamers(u, n) \ {q}
  BY <1>1, BotNamersAre
<1>3. \A p \in BotNamers(u, n)' : req'[p] = req[p]
  BY <1>2, BotNamersAre
<1>4. /\ Claimed(u, n)' \subseteq Claimed(u, n)
      /\ Claimed(u, n) \subseteq Claimed(u, n)' \cup {req[q].row}
  BY <1>2, <1>3 DEF Claimed
<1>5. b \notin BotRows(u, n)
  <2>1. req[q].row \in Claimed(u, n)
    BY <1>2 DEF Claimed
  <2> QED
    BY <2>1, BotRowsAre
<1>6. BotRows(u, n) \subseteq BotRows(u, n)'
  <2>1. ASSUME NEW c \in BotRows(u, n) PROVE c \in BotRows(u, n)'
    BY <1>4, <1>5, <2>1, BotRowsAre
  <2> QED
    BY <2>1
<1>7. BotRows(u, n)' \subseteq BotRows(u, n) \cup {b}
  <2>1. ASSUME NEW c \in BotRows(u, n)', c # b PROVE c \in BotRows(u, n)
    <3>1. c \in BotIds /\ c \notin Claimed(u, n)'
      BY <2>1, BotRowsAre
    <3>2. c # req[q].row
      BY <2>1, <3>1, BotIdsAssumption
    <3>3. c \notin Claimed(u, n)
      BY <1>4, <3>1, <3>2
    <3> QED
      BY <2>1, <3>1, <3>3, BotRowsAre
  <2> QED
    BY <2>1
<1> QED
  BY <1>2, <1>6, <1>7, CheckedIs, CheckedFinite, CheckLeave

LEMMA BotKeyAlone ==
    ASSUME BotsInv, req' = req, foreign' = foreign,
           \A b \in BotIds : /\ bot'[b].state = bot[b].state /\ bot'[b].owner = bot[b].owner
                             /\ bot'[b].name = bot[b].name,
           NEW u \in Users, NEW n \in Names
    PROVE  Checks!KeyStep(<<"bot", u, n>>)
<1>1. \A p \in Requests : BotNames(p, u, n)' <=> BotNames(p, u, n)
  BY BotNamesKept DEF BotsLast
<1>2. BotNamers(u, n)' = BotNamers(u, n)
  BY <1>1, BotNamersAre
<1>3. Claimed(u, n)' = Claimed(u, n)
  BY <1>2 DEF Claimed
<1>4. BotRows(u, n)' \subseteq BotRows(u, n)
  BY <1>3, BotRowsAre
<1> QED
  BY <1>2, <1>4, CheckedIs, CheckedFinite, CheckRemove

LEMMA BotKeyEnd ==
    ASSUME BotsInv, NEW q \in Requests, Return(q), UNCHANGED <<bot, foreign>>,
           NEW u \in Users, NEW n \in Names
    PROVE  Checks!KeyStep(<<"bot", u, n>>)
<1>1. req'[q].pc = "idle" /\ \A p \in Requests \ {q} : req'[p] = req[p]
  BY BotReturn DEF BotsInv
<1>2. BotsLast /\ ~BotNames(q, u, n)'
  BY <1>1 DEF BotsLast, BotNames
<1> QED
  BY <1>1, <1>2, BotKeyLeave, BotKeyOther

LEMMA StartedSlot ==
    ASSUME NEW S, req \in [Requests -> S], NEW q \in Requests,
           NEW next, NEW u, NEW r, NEW n, NEW f, Start(q, next, u, r, n, f)
    PROVE  /\ req[q].pc = "idle" /\ req'[q].pc = next /\ req'[q].user = u /\ req'[q].row = r
           /\ req'[q].name = n
           /\ \A p \in Requests \ {q} : req'[p] = req[p]
BY DEF Start

LEMMA BotKeyCheck ==
    ASSUME BotsInv, NEW q \in Requests, NEW m \in Users, NEW x \in Names, BotCheck(q, m, x),
           NEW u \in Users, NEW n \in Names
    PROVE  Checks!KeyStep(<<"bot", u, n>>)
<1>1. /\ Start(q, "insertBot", m, None, x, None) /\ BotsNamed(m, x) = {}
      /\ UNCHANGED <<bot, foreign>>
  BY DEF BotCheck, botTables
<1>2. /\ req[q].pc = "idle" /\ req'[q].pc = "insertBot" /\ req'[q].user = m /\ req'[q].name = x
      /\ \A p \in Requests \ {q} : req'[p] = req[p]
  BY <1>1, StartedSlot DEF BotsInv
<1>3. BotsLast /\ ~BotNames(q, u, n)
  BY <1>1, <1>2 DEF BotsLast, BotNames
<1>4. CASE u = m /\ n = x
  <2>1. BotNames(q, u, n)'
    BY <1>2, <1>4 DEF BotNames
  <2> QED
    BY <1>1, <1>2, <1>3, <1>4, <2>1, BotKeyPass
<1>5. CASE ~(u = m /\ n = x)
  <2>1. ~BotNames(q, u, n)'
    BY <1>2, <1>5 DEF BotNames
  <2> QED
    BY <1>1, <1>2, <1>3, <2>1, BotKeyOther
<1> QED
  BY <1>4, <1>5

\* A request that has found its bot holds no name yet.
LEMMA BotKeyFound ==
    ASSUME BotsInv, NEW q \in Requests, NEW next, NEW m, NEW b, NEW x, NEW f,
           Start(q, next, m, b, x, f), x = None \/ next \notin {"insertBot", "writeBot"},
           UNCHANGED <<bot, foreign>>, NEW u \in Users, NEW n \in Names
    PROVE  Checks!KeyStep(<<"bot", u, n>>)
<1>1. /\ req[q].pc = "idle" /\ req'[q].pc = next /\ req'[q].name = x
      /\ \A p \in Requests \ {q} : req'[p] = req[p]
  BY StartedSlot DEF BotsInv
<1>2. BotsLast /\ ~BotNames(q, u, n) /\ ~BotNames(q, u, n)'
  BY <1>1, NamesAssumption DEF BotsLast, BotNames
<1> QED
  BY <1>1, <1>2, BotKeyOther

LEMMA BotKeyFind ==
    ASSUME BotsInv, NEW q \in Requests, NEW m \in Users, NEW b \in BotIds,
           NEW x \in Names \cup {None}, NEW live \in Flags, BotFind(q, m, b, x, live),
           NEW u \in Users, NEW n \in Names
    PROVE  Checks!KeyStep(<<"bot", u, n>>)
<1>1. UNCHANGED <<bot, foreign>>
  BY DEF BotFind, botTables
<1>2. CASE x = None
  <2>1. Start(q, "writeBot", m, b, x, live)
    BY <1>2 DEF BotFind
  <2> QED
    BY <1>1, <1>2, <2>1, BotKeyFound
<1>3. CASE x # None
  <2>1. Start(q, "checkBot", m, b, x, live)
    BY <1>3 DEF BotFind
  <2> QED
    BY <1>1, <2>1, BotKeyFound
<1> QED
  BY <1>2, <1>3

LEMMA BotKeyRename ==
    ASSUME BotsInv, NEW q \in Requests, BotRenameCheck(q), NEW u \in Users, NEW n \in Names
    PROVE  Checks!KeyStep(<<"bot", u, n>>)
<1>1. req[q].pc = "checkBot" /\ UNCHANGED <<bot, foreign>> /\ BotsLast
  BY DEF BotRenameCheck, botTables, BotsLast
<1>2. CASE Return(q)
  BY <1>1, <1>2, BotKeyEnd
<1>3. CASE Goto(q, "writeBot") /\ BotsNamed(req[q].user, req[q].name) \subseteq {req[q].row}
  <2>1. /\ req'[q].pc = "writeBot" /\ req'[q].user = req[q].user /\ req'[q].row = req[q].row
        /\ req'[q].name = req[q].name
        /\ \A p \in Requests \ {q} : req'[p] = req[p]
    BY <1>3, BotGoto DEF BotsInv
  <2>2. ~BotNames(q, u, n)
    BY <1>1 DEF BotNames
  <2>3. CASE BotNames(q, u, n)'
    <3>1. req[q].user = u /\ req[q].name = n
      BY <2>1, <2>3 DEF BotNames
    <3>2. BotsNamed(u, n) \subseteq {req'[q].row}
      BY <1>3, <2>1, <3>1
    <3> QED
      BY <1>1, <2>1, <2>2, <2>3, <3>2, BotKeyPass
  <2>4. CASE ~BotNames(q, u, n)'
    BY <1>1, <2>1, <2>2, <2>4, BotKeyOther
  <2> QED
    BY <2>3, <2>4
<1> QED
  BY <1>2, <1>3 DEF BotRenameCheck

LEMMA BotKeyInsert ==
    ASSUME BotsInv, NEW q \in Requests, BotInsert(q), NEW u \in Users, NEW n \in Names
    PROVE  Checks!KeyStep(<<"bot", u, n>>)
<1>1. PICK b \in BotIds :
         /\ bot[b].state = "none" /\ bot[b] \in BotRecords
         /\ req[q].name \in Names /\ req[q].user \in Users
         /\ bot'[b] = BotMade(bot[b], req[q].name, req[q].user)
         /\ \A c \in BotIds \ {b} : bot'[c] = bot[c]
  BY BotInserted
<1>2. Return(q) /\ foreign' = foreign /\ req[q].pc = "insertBot" /\ req[q].row = None
  BY DEF BotInsert, BotsInv, BotSlotOK
<1>3. /\ bot'[b].state = "exists" /\ bot'[b].name = req[q].name /\ bot'[b].owner = req[q].user
  BY <1>1, BotMadeOf
<1>4. req'[q].pc = "idle" /\ \A p \in Requests \ {q} : req'[p] = req[p]
  BY <1>2, BotReturn DEF BotsInv
<1>5. BotsLast /\ ~BotNames(q, u, n)'
  BY <1>1, <1>4 DEF BotsLast, BotNames
<1>6. CASE BotNames(q, u, n)
  BY <1>1, <1>2, <1>4, <1>5, <1>6, BotKeyLeave
<1>7. CASE ~BotNames(q, u, n)
  <2>1. ~(req[q].user = u /\ req[q].name = n)
    BY <1>2, <1>7 DEF BotNames
  <2> QED
    BY <1>1, <1>2, <1>3, <1>4, <1>5, <1>7, <2>1, BotKeyOther
<1> QED
  BY <1>6, <1>7

LEMMA BotKeyWrite ==
    ASSUME BotsInv, NEW q \in Requests, BotWrite(q), NEW u \in Users, NEW n \in Names
    PROVE  Checks!KeyStep(<<"bot", u, n>>)
<1>1. Return(q) /\ req[q].pc = "writeBot"
  BY DEF BotWrite
<1>2. CASE UNCHANGED <<bot, foreign>>
  BY <1>1, <1>2, BotKeyEnd
<1>3. ASSUME NEW b \in BotIds, NEW x \in Names, NEW live \in BOOLEAN, BotWrites(q, b, x, live)
      PROVE  Checks!KeyStep(<<"bot", u, n>>)
  <2>1. /\ b = req[q].row /\ b \in Existing /\ bot[b] \in BotRecords
        /\ bot'[b] = BotRevised(bot[b], x, live)
        /\ \A c \in BotIds \ {b} : bot'[c] = bot[c]
    BY <1>3 DEF BotWrites, BotsInv, BotTables
  <2>2. /\ bot'[b].state = bot[b].state /\ bot'[b].name = x /\ bot'[b].owner = bot[b].owner
    BY <2>1, BotRevisedOf
  <2>3. /\ req[q].name = None => x = bot[b].name /\ foreign' = foreign
        /\ req[q].name # None => x = req[q].name
        /\ req[q].name # None /\ bot[b].owner # req[q].user => b \in foreign'
        /\ \A c \in BotIds \ {b} : c \in foreign' <=> c \in foreign
    BY <1>3 DEF BotWrites
  <2>4. req'[q].pc = "idle" /\ \A p \in Requests \ {q} : req'[p] = req[p]
    BY <1>1, BotReturn DEF BotsInv
  <2>5. BotsLast /\ ~BotNames(q, u, n)'
    BY <2>1, <2>2, <2>4 DEF BotsLast, BotNames
  <2>6. CASE BotNames(q, u, n)
    BY <2>1, <2>3, <2>4, <2>5, <2>6, BotKeyLeave
  <2>7. CASE ~BotNames(q, u, n)
    <3>1. ASSUME bot'[b].state = "exists", bot'[b].owner = u, bot'[b].name = n, b \notin foreign'
          PROVE  req[q].name = None
      <4>1. ~(req[q].user = u /\ req[q].name = n /\ bot[b].owner = u)
        BY <1>1, <2>1, <2>7 DEF BotNames
      <4> QED
        BY <2>2, <2>3, <3>1, <4>1
    <3> QED
      BY <2>1, <2>2, <2>3, <2>4, <2>5, <2>7, <3>1, BotKeyOther
  <2> QED
    BY <2>6, <2>7
<1> QED
  BY <1>2, <1>3, BotWritten

LEMMA BotKeyDelete ==
    ASSUME BotsInv, NEW q \in Requests, BotDelete(q), NEW u \in Users, NEW n \in Names
    PROVE  Checks!KeyStep(<<"bot", u, n>>)
<1>1. PICK b \in BotIds :
         /\ b = req[q].row /\ bot[b].state # "none" /\ bot[b].owner \in Users \cup {None}
         /\ bot' = [bot EXCEPT ![b] = BotGone(bot[b].owner)]
         /\ foreign' = foreign \ {b}
  BY BotDeleted
<1>2. /\ bot'[b] = BotGone(bot[b].owner) /\ \A c \in BotIds \ {b} : bot'[c] = bot[c]
  BY <1>1 DEF BotsInv, BotTables
<1>3. bot'[b].state = "deleted" /\ bot'[b].owner = bot[b].owner
  BY <1>1, <1>2, BotGoneOf
<1>4. Return(q) /\ req[q].pc = "deleteBot"
  BY DEF BotDelete
<1>5. req'[q].pc = "idle" /\ \A p \in Requests \ {q} : req'[p] = req[p]
  BY <1>4, BotReturn DEF BotsInv
<1>6. BotsLast /\ ~BotNames(q, u, n) /\ ~BotNames(q, u, n)'
  BY <1>2, <1>3, <1>4, <1>5 DEF BotsLast, BotNames
<1> QED
  BY <1>1, <1>2, <1>3, <1>5, <1>6, BotKeyOther

LEMMA BotKeys ==
    ASSUME BotsInv, BotsNext, NEW u \in Users, NEW n \in Names
    PROVE  Checks!KeyStep(<<"bot", u, n>>)
<1>1. ASSUME NEW q \in Requests, NEW m \in Users, NEW b \in BotIds, BotDeleteFind(q, m, b)
      PROVE  Checks!KeyStep(<<"bot", u, n>>)
  BY <1>1, BotKeyFound DEF BotDeleteFind, botTables
<1>2. ASSUME NEW q \in Requests, BotAbort(q) PROVE Checks!KeyStep(<<"bot", u, n>>)
  BY <1>2, BotKeyEnd DEF BotAbort, botTables
<1>3. CASE BotRequests
  BY <1>1, <1>2, <1>3, BotKeyCheck, BotKeyFind, BotKeyRename, BotKeyInsert, BotKeyWrite,
     BotKeyDelete
     DEF BotRequests
<1>4. CASE UNCHANGED <<req, bot, foreign>>
  BY <1>4, BotKeyAlone
<1>5. bot \in [BotIds -> BotRecords]
  BY DEF BotsInv, BotTables
<1>6. CASE BeatUpdate
  <2>1. req' = req /\ foreign' = foreign /\ message \in Beats
    BY <1>6 DEF BeatUpdate, requests, BotsInv, BotTables
  <2>2. CASE UNCHANGED bot
    BY <1>4, <2>1, <2>2
  <2>3. CASE bot' = [bot EXCEPT ![message.row] =
                       [@ EXCEPT !.live = message.live, !.beat = message.beat]]
    <3>1. \A b \in BotIds : /\ bot'[b].state = bot[b].state /\ bot'[b].owner = bot[b].owner
                            /\ bot'[b].name = bot[b].name
      BY <1>5, <2>3 DEF BotRecords
    <3> QED
      BY <2>1, <3>1, BotKeyAlone
  <2> QED
    BY <1>6, <2>2, <2>3 DEF BeatUpdate
<1>7. ASSUME NEW c \in BotIds, BeatGrowsOld(c) PROVE Checks!KeyStep(<<"bot", u, n>>)
  <2>1. \A b \in BotIds : /\ bot'[b].state = bot[b].state /\ bot'[b].owner = bot[b].owner
                          /\ bot'[b].name = bot[b].name
    BY <1>5, <1>7 DEF BeatGrowsOld, BotRecords
  <2> QED
    BY <1>7, <2>1, BotKeyAlone DEF BeatGrowsOld, requests
<1>8. ASSUME NEW c \in BotIds, JobUpdate(c) PROVE Checks!KeyStep(<<"bot", u, n>>)
  <2>1. \A b \in BotIds : /\ bot'[b].state = bot[b].state /\ bot'[b].owner = bot[b].owner
                          /\ bot'[b].name = bot[b].name
    BY <1>5, <1>8 DEF JobUpdate, BotRecords
  <2> QED
    BY <1>8, <2>1, BotKeyAlone DEF JobUpdate, requests
<1>9. CASE Heartbeats
  BY <1>4, <1>6, <1>7, <1>9 DEF Heartbeats, BeatFind
<1>10. CASE Job
  BY <1>4, <1>8, <1>10 DEF Job, JobSelect, JobDone, requests
<1>11. ASSUME NEW v \in Users, ChangeRole(v), UNCHANGED botTables
       PROVE  Checks!KeyStep(<<"bot", u, n>>)
  BY <1>4, <1>11 DEF ChangeRole, botTables
<1> QED
  BY <1>3, <1>9, <1>10, <1>11 DEF BotsNext

-----------------------------------------------------------------------------
(* The service.                                                            *)

LEMMA ServiceInitInv == ServiceInit => ServiceInv
<1> SUFFICES ASSUME ServiceInit PROVE ServiceInv
  OBVIOUS
<1>1. /\ part \in {"lobbies", "bots", "exports", "accounts"}
      /\ LobbiesInit /\ ExportsInit /\ AccountsInit
  BY DEF ServiceInit
<1>2. CASE BotsInit({}) /\ HandlersInit(0)
  <2>1. BotsInv
    BY <1>2, BotsInitInv
  <2> QED
    BY <1>1, <1>2, <2>1, LobbyInitInv, ExportInitInv, AccountsInitInv DEF ServiceInv
<1>3. CASE part = "bots" /\ BotsInit(BotIds) /\ HandlersInit(1)
  <2>1. BotsInv
    BY <1>3, BotsInitInv
  <2> QED
    BY <1>1, <1>3, <2>1 DEF ServiceInv
<1> QED
  BY <1>2, <1>3 DEF ServiceInit

\* A part that does not run stays as it began.
LEMMA LobbiesRest == ASSUME LobbiesInit, lobby' = lobby PROVE LobbiesInit'
BY DEF LobbiesInit

LEMMA BotsRest == ASSUME BotsInit({}), UNCHANGED botTables PROVE BotsInit({})'
BY DEF BotsInit, botTables

LEMMA ExportsRest == ASSUME ExportsInit, UNCHANGED exportTables PROVE ExportsInit'
BY DEF ExportsInit, exportTables

LEMMA AccountsRest == ASSUME AccountsInit, UNCHANGED accountTables PROVE AccountsInit'
BY DEF AccountsInit, accountTables

LEMMA ServiceStepInv == ServiceInv /\ [ServiceNext]_serviceVars => ServiceInv'
<1> SUFFICES ASSUME ServiceInv, [ServiceNext]_serviceVars PROVE ServiceInv'
  OBVIOUS
<1>1. CASE LobbiesPart
  <2>1. /\ part = "lobbies" /\ part' = part /\ LobbiesNext
        /\ UNCHANGED <<botTables, exportTables, accountTables>>
    BY <1>1 DEF LobbiesPart
  <2>2. LobbyInv'
    BY <2>1, LobbyStepInv DEF ServiceInv
  <2>3. BotsInit({})' /\ ExportsInit' /\ AccountsInit'
    BY <2>1, BotsRest, ExportsRest, AccountsRest DEF ServiceInv
  <2> QED
    BY <2>1, <2>2, <2>3 DEF ServiceInv
<1>2. CASE BotsPart
  <2>1. /\ part = "bots" /\ part' = part /\ BotsNext
        /\ lobby' = lobby /\ UNCHANGED <<exportTables, accountTables>>
    BY <1>2 DEF BotsPart
  <2>2. BotsInv'
    BY <2>1, BotsStepInv DEF ServiceInv
  <2>3. LobbiesInit' /\ ExportsInit' /\ AccountsInit'
    BY <2>1, LobbiesRest, ExportsRest, AccountsRest DEF ServiceInv
  <2> QED
    BY <2>1, <2>2, <2>3 DEF ServiceInv
<1>3. CASE ExportsPart
  <2>1. /\ part = "exports" /\ part' = part /\ ExportsNext
        /\ lobby' = lobby /\ UNCHANGED <<botTables, accountTables>>
    BY <1>3 DEF ExportsPart
  <2>2. ExportInv'
    BY <2>1, ExportStepInv DEF ServiceInv
  <2>3. LobbiesInit' /\ BotsInit({})' /\ AccountsInit'
    BY <2>1, LobbiesRest, BotsRest, AccountsRest DEF ServiceInv
  <2> QED
    BY <2>1, <2>2, <2>3 DEF ServiceInv
<1>4. CASE AccountsPart
  <2>1. /\ part = "accounts" /\ part' = part /\ AccountsNext
        /\ lobby' = lobby /\ UNCHANGED <<botTables, exportTables>>
    BY <1>4 DEF AccountsPart
  <2>2. AccountsInv'
    BY <2>1, AccountsStepInv DEF ServiceInv
  <2>3. LobbiesInit' /\ BotsInit({})' /\ ExportsInit'
    BY <2>1, LobbiesRest, BotsRest, ExportsRest DEF ServiceInv
  <2> QED
    BY <2>1, <2>2, <2>3 DEF ServiceInv
<1>5. CASE UNCHANGED serviceVars
  <2>1. /\ part' = part /\ UNCHANGED requests /\ lobby' = lobby
        /\ UNCHANGED <<botTables, exportTables, accountTables>>
    BY <1>5 DEF serviceVars
  <2>2. /\ UNCHANGED lobbyVars /\ UNCHANGED exportVars /\ req' = req
        /\ UNCHANGED <<account, session, report, config, log, blurred, fallen>>
    BY <2>1 DEF lobbyVars, exportVars, exportTables, accountTables, requests
  <2>3. LobbyInv => LobbyInv'
    BY <2>2, LobbyStepInv
  <2>4. BotsInv => BotsInv'
    BY <2>1, <2>2, BotsKept, BotsNoRequest
  <2>5. ExportInv => ExportInv'
    BY <2>2, ExportStepInv
  <2>6. AccountsInv => AccountsInv'
    BY <2>2, AccountsKept, NoRequestInv
  <2>7. /\ LobbiesInit => LobbiesInit'
        /\ BotsInit({}) => BotsInit({})'
        /\ ExportsInit => ExportsInit'
        /\ AccountsInit => AccountsInit'
    BY <2>1, LobbiesRest, BotsRest, ExportsRest, AccountsRest
  <2> QED
    BY <2>1, <2>3, <2>4, <2>5, <2>6, <2>7 DEF ServiceInv
<1> QED
  BY <1>1, <1>2, <1>3, <1>4, <1>5 DEF ServiceNext

\* The invariant of each part says what its requests may be about, and so that
\* no request is about another part.
PcsOf ==
    [p \in {"lobbies", "bots", "exports", "accounts"} |->
        CASE p = "lobbies" -> LobbyPcs
          [] p = "bots" -> BotPcs
          [] p = "exports" -> {"idle", "insertExport", "deleteExport", "complete"}
          [] p = "accounts" -> AccountPcs]

LEMMA PartsPcs ==
    ASSUME ServiceInv PROVE \A q \in Requests : req[q].pc \in PcsOf[part]
<1>1. CASE part = "lobbies"
  BY <1>1 DEF PcsOf, ServiceInv, LobbyInv
<1>2. CASE part = "bots"
  BY <1>2 DEF PcsOf, ServiceInv, BotsInv, BotSlots
<1>3. CASE part = "exports"
  BY <1>3 DEF PcsOf, ServiceInv, ExportInv, ExportTypes, ExportSlots
<1>4. CASE part = "accounts"
  BY <1>4 DEF PcsOf, ServiceInv, AccountsInv, AccountSlots
<1> QED
  BY <1>1, <1>2, <1>3, <1>4 DEF ServiceInv

LEMMA PartsPcsNext ==
    ASSUME ServiceInv' PROVE \A q \in Requests : req'[q].pc \in PcsOf[part']
<1>1. CASE part' = "lobbies"
  BY <1>1 DEF PcsOf, ServiceInv, LobbyInv
<1>2. CASE part' = "bots"
  BY <1>2 DEF PcsOf, ServiceInv, BotsInv, BotSlots
<1>3. CASE part' = "exports"
  BY <1>3 DEF PcsOf, ServiceInv, ExportInv, ExportTypes, ExportSlots
<1>4. CASE part' = "accounts"
  BY <1>4 DEF PcsOf, ServiceInv, AccountsInv, AccountSlots
<1> QED
  BY <1>1, <1>2, <1>3, <1>4 DEF ServiceInv

LEMMA NoOtherHolder ==
    ASSUME ServiceInv, ServiceInv', part' = part
    PROVE  /\ part # "lobbies" => NoLobbyHolder /\ NoLobbyHolder'
           /\ part # "bots" => NoBotHolder /\ NoBotHolder'
           /\ part # "exports" => NoExportHolder /\ NoExportHolder'
<1>1. part \in {"lobbies", "bots", "exports", "accounts"}
  BY DEF ServiceInv
<1>2. \A q \in Requests : req[q].pc \in PcsOf[part] /\ req'[q].pc \in PcsOf[part]
  BY PartsPcs, PartsPcsNext
<1>3. /\ part # "lobbies" => PcsOf[part] \cap {"insertLobby", "writeLobby"} = {}
      /\ part # "bots" => PcsOf[part] \cap {"insertBot", "writeBot"} = {}
      /\ part # "exports" => "insertExport" \notin PcsOf[part]
      /\ part # "accounts" => "insertUser" \notin PcsOf[part]
  BY <1>1 DEF PcsOf, LobbyPcs, BotPcs, AccountPcs
<1> QED
  BY <1>2, <1>3 DEF NoLobbyHolder, NoBotHolder, NoExportHolder

LEMMA LobbyTypesRest ==
    ASSUME LobbiesInit, \A q \in Requests : req[q].pc \notin {"insertLobby", "checkLobby", "writeLobby"}
    PROVE  LobbyTypeOK
BY DEF LobbiesInit, LobbyTypeOK, At

LEMMA BotTypesRest ==
    ASSUME BotsInit({}), \A q \in Requests : req[q].pc \notin {"checkBot", "writeBot", "deleteBot"}
    PROVE  BotTypeOK
<1>1. At({"checkBot", "writeBot", "deleteBot"}) = {}
  BY DEF At
<1>2. NoBot("none") \in BotRecords /\ NoBot("none").state = "none"
  BY DEF NoBot, BotRecords
<1>3. bot = [b \in BotIds |-> NoBot("none")]
  BY DEF BotsInit
<1>4. bot \in [BotIds -> BotRecords] /\ Existing = {}
  BY <1>2, <1>3 DEF Existing
<1>5. job.todo = {} /\ beaten = {} /\ foreign = {}
  BY DEF BotsInit, IdleJob
<1> QED
  BY <1>1, <1>4, <1>5 DEF BotTypeOK, BotRecords

LEMMA ExportTypesRest ==
    ASSUME ExportsInit, \A q \in Requests : req[q].pc \notin {"deleteExport", "complete"}
    PROVE  ExportTypeOK
BY DEF ExportsInit, ExportTypeOK, At, NoExport, IdleCleanup, Stored

LEMMA AccountTypesRest == ASSUME AccountsInit PROVE AccountTypeOK
<1>1. \A r \in ReportIds : report[r].status # "Dismissed"
  BY AccountsBegin
<1>2. fallen = {}
  BY DEF AccountsInit
<1> QED
  BY <1>1, <1>2, AccountsBegin, AccountsTypes

LEMMA ServiceTypes == ServiceInv => ServiceTypeOK
<1> SUFFICES ASSUME ServiceInv PROVE ServiceTypeOK
  OBVIOUS
<1>1. part \in {"lobbies", "bots", "exports", "accounts"}
  BY DEF ServiceInv
<1>2. \A q \in Requests : req[q].pc \in PcsOf[part]
  BY PartsPcs
<1>3. /\ part # "lobbies" => PcsOf[part] \cap {"insertLobby", "checkLobby", "writeLobby"} = {}
      /\ part # "bots" => PcsOf[part] \cap {"checkBot", "writeBot", "deleteBot"} = {}
      /\ part # "exports" => PcsOf[part] \cap {"deleteExport", "complete"} = {}
  BY <1>1 DEF PcsOf, LobbyPcs, BotPcs, AccountPcs
<1>4. LobbyTypeOK
  <2>1. CASE part = "lobbies"
    <3>1. LobbyInv
      BY <2>1 DEF ServiceInv
    <3> QED
      BY <3>1 DEF LobbyInv, LobbySlotOK, LobbyTypeOK, At
  <2>2. CASE part # "lobbies"
    BY <1>2, <1>3, <2>2, LobbyTypesRest DEF ServiceInv
  <2> QED
    BY <2>1, <2>2
<1>5. BotTypeOK
  <2>1. CASE part = "bots"
    BY <2>1, BotsTypes DEF ServiceInv
  <2>2. CASE part # "bots"
    BY <1>2, <1>3, <2>2, BotTypesRest DEF ServiceInv
  <2> QED
    BY <2>1, <2>2
<1>6. ExportTypeOK
  <2>1. CASE part = "exports"
    <3>1. ExportInv
      BY <2>1 DEF ServiceInv
    <3> QED
      BY <3>1 DEF ExportInv, ExportTypes, ExportSlotOK, ExportTypeOK, At
  <2>2. CASE part # "exports"
    BY <1>2, <1>3, <2>2, ExportTypesRest DEF ServiceInv
  <2> QED
    BY <2>1, <2>2
<1>7. AccountTypeOK
  <2>1. CASE part = "accounts"
    <3>1. AccountsInv
      BY <2>1 DEF ServiceInv
    <3> QED
      BY <3>1, AccountsTypes DEF AccountsInv
  <2>2. CASE part # "accounts"
    BY <2>2, AccountTypesRest DEF ServiceInv
  <2> QED
    BY <2>1, <2>2
<1> QED
  BY <1>4, <1>5, <1>6, <1>7 DEF ServiceTypeOK

LEMMA ServiceExplained == ServiceInv => LogExplainsState
<1> SUFFICES ASSUME ServiceInv PROVE LogExplainsState
  OBVIOUS
<1>1. CASE part = "accounts"
  BY <1>1, AccountsExplained DEF ServiceInv
<1>2. CASE part # "accounts"
  <2>1. \A s \in Subjects : log[s] = None
    BY <1>2 DEF ServiceInv, AccountsInit
  <2>2. \A m \in Users : ShownLog(m) = {}
    BY <2>1 DEF ShownLog
  <2> QED
    BY <2>2 DEF LogExplainsState
<1> QED
  BY <1>1, <1>2

\* Types are kept and every request is about rows there are: a lobby or a bot
\* that may be changed by who asked, an export of who asked, an account that has
\* a name.
THEOREM ServiceTypeCorrect == ServiceSpec => []ServiceTypeOK
BY ServiceInitInv, ServiceStepInv, ServiceTypes, PTL DEF ServiceSpec

\* The newest audit entry says what its subject is (admin.rs:288, :419, :571),
\* but for changes under way, failed or overlapping.
THEOREM LogExplains == ServiceSpec => []LogExplainsState
BY ServiceInitInv, ServiceStepInv, ServiceExplained, PTL DEF ServiceSpec

-----------------------------------------------------------------------------
(* The service: what a step does.                                          *)

LEMMA ServiceStepPower ==
    ASSUME ServiceInv, ServiceNext, NEW s \in Changeable
    PROVE  PowerUsed(s)
<1>1. CASE AccountsPart
  BY <1>1, AccountsStepPower DEF AccountsPart, ServiceInv
<1>2. CASE UNCHANGED accountTables
  BY <1>2, ValueKeptUses DEF accountTables
<1> QED
  BY <1>1, <1>2 DEF ServiceNext, LobbiesPart, BotsPart, ExportsPart

LEMMA ServiceStepLive ==
    ASSUME ServiceInv, ServiceNext, NEW b \in BotIds
    PROVE  LiveCaused(b)
<1>1. CASE BotsPart
  BY <1>1, BotsStepCaused DEF BotsPart, ServiceInv
<1>2. CASE UNCHANGED botTables
  <2>1. bot' = bot
    BY <1>2 DEF botTables
  <2> QED
    BY <2>1, LiveKept
<1> QED
  BY <1>1, <1>2 DEF ServiceNext, LobbiesPart, AccountsPart, ExportsPart

LEMMA ServiceStepActive ==
    ASSUME ServiceInv, ServiceNext, NEW l \in AllLobbies(TRUE)
    PROVE  LobbyCaused(l)
<1>1. CASE LobbiesPart
  BY <1>1, LobbyStepCaused DEF LobbiesPart, ServiceInv
<1>2. CASE lobby' = lobby
  BY <1>2 DEF LobbyCaused
<1> QED
  BY <1>1, <1>2 DEF ServiceNext, BotsPart, AccountsPart, ExportsPart

LEMMA ServiceStepExports ==
    ASSUME ServiceInv, ServiceNext, NEW u \in Users, NEW e \in ExportsOf(u, "Completed")
    PROVE  ExportKept(u, e)
<1>1. CASE ExportsPart
  BY <1>1, ExportStepKeeps DEF ExportsPart, ServiceInv
<1>2. CASE UNCHANGED exportTables
  <2>1. export' = export
    BY <1>2 DEF exportTables
  <2> QED
    BY <2>1 DEF ExportKept, ExportsOf, Downloadable, Stored
<1> QED
  BY <1>1, <1>2 DEF ServiceNext, BotsPart, AccountsPart, LobbiesPart

\* Whoever changes a status, a role, a report, the configuration or the profile
\* of another holds the office for it, or lost it after his request had begun
\* (admin.rs:373, users.rs:191).
THEOREM PowerHeld == ServiceSpec => PowerIsHeld
<1>1. ServiceInv /\ [ServiceNext]_serviceVars => [\A s \in Changeable : PowerUsed(s)]_accountVars
  BY ServiceStepPower DEF serviceVars, accountVars, accountTables
<1> QED
  BY <1>1, ServiceInitInv, ServiceStepInv, PTL
     DEF ServiceSpec, PowerIsHeld, PowerUsed, Changeable

\* A bot goes on or off line by a request or a heartbeat that says so, or by
\* the job if it was silent when it was selected (heartbeat.rs:12, :28).
THEOREM LiveHasCause == ServiceSpec => LiveFollowsCause
<1>1. ServiceInv /\ [ServiceNext]_serviceVars => [\A b \in Existing : LiveCaused(b)]_botVars
  BY ServiceStepLive DEF serviceVars, botVars, botTables, Existing
<1> QED
  BY <1>1, ServiceInitInv, ServiceStepInv, PTL
     DEF ServiceSpec, LiveFollowsCause, LiveCaused

\* A lobby goes on or off only by a request that says so, in the whole service.
THEOREM ServiceActiveHasCause == ServiceSpec => ActiveFollowsRequest
<1>1. ServiceInv /\ [ServiceNext]_serviceVars =>
         [\A l \in AllLobbies(TRUE) : LobbyCaused(l)]_lobbyVars
  BY ServiceStepActive DEF serviceVars, lobbyVars
<1> QED
  BY <1>1, ServiceInitInv, ServiceStepInv, PTL
     DEF ServiceSpec, ActiveFollowsRequest, LobbyCaused

\* A completed export is lost only to a race, in the whole service.
THEOREM ServiceExportsAreKept == ServiceSpec => ExportIsKept
<1>1. ServiceInv /\ [ServiceNext]_serviceVars =>
         [\A u \in Users : \A e \in ExportsOf(u, "Completed") : ExportKept(u, e)]_exportVars
  BY ServiceStepExports DEF serviceVars, exportVars, exportTables
<1> QED
  BY <1>1, ServiceInitInv, ServiceStepInv, PTL DEF ServiceSpec, ExportIsKept, ExportKept

-----------------------------------------------------------------------------
(* The service keeps to the checks.                                        *)

LEMMA CheckedStep ==
    ASSUME \A n \in Names : Checks!KeyStep(<<"lobby", n>>),
           \A u \in Users : /\ Checks!KeyStep(<<"export", u>>)
                            /\ \A n \in Names : Checks!KeyStep(<<"bot", u, n>>)
    PROVE  Checks!Next
<1>1. ASSUME NEW k \in CheckedKeys PROVE Checks!KeyStep(k)
  BY CheckedKinds
<1> QED
  BY <1>1 DEF Checks!Next

\* Nothing happens.
LEMMA CheckedStutter == ASSUME UNCHANGED serviceVars PROVE Checks!Next
<1>1. UNCHANGED <<req, lobby, bot, foreign, export>>
  BY DEF serviceVars, requests, botTables, exportTables
<1>2. ASSUME NEW k \in CheckedKeys, HoldersOf(k)' = HoldersOf(k), RowsOf(k)' = RowsOf(k),
             IsFiniteSet(RowsOf(k))
      PROVE  Checks!KeyStep(k)
  BY <1>2, CheckRemove
<1>3. ASSUME NEW n \in Names
      PROVE  Checks!KeyStep(<<"lobby", n>>)
  <2>1. LobbyNamers(n)' = LobbyNamers(n)
    BY <1>1 DEF LobbyNamers, At
  <2>2. LobbyRows(n)' = LobbyRows(n)
    BY <1>1, <2>1 DEF LobbyRows, LobbiesNamed, Lobbies
  <2> QED
    BY <1>2, <2>1, <2>2, CheckedIs, CheckedFinite
<1>4. ASSUME NEW u \in Users PROVE Checks!KeyStep(<<"export", u>>)
  <2>1. ExportHolders(u)' = ExportHolders(u) /\ PendingOf(u)' = PendingOf(u)
    BY <1>1 DEF ExportHolders, PendingOf, At
  <2> QED
    BY <1>2, <2>1, CheckedIs, CheckedFinite
<1>5. ASSUME NEW u \in Users, NEW n \in Names PROVE Checks!KeyStep(<<"bot", u, n>>)
  <2>1. BotNamers(u, n)' = BotNamers(u, n)
    BY <1>1 DEF BotNamers, At
  <2>2. BotRows(u, n)' = BotRows(u, n)
    BY <1>1, <2>1 DEF BotRows, BotsNamed, UserBots, Existing
  <2> QED
    BY <1>2, <2>1, <2>2, CheckedIs, CheckedFinite
<1> QED
  BY <1>3, <1>4, <1>5, CheckedStep

LEMMA ServiceStepChecks ==
    ASSUME ServiceInv, ServiceInv', [ServiceNext]_serviceVars PROVE Checks!Next
<1>1. CASE UNCHANGED serviceVars
  BY <1>1, CheckedStutter
<1>2. CASE LobbiesPart
  <2>1. /\ part = "lobbies" /\ part' = part /\ LobbiesNext
        /\ UNCHANGED <<bot, foreign, export>>
    BY <1>2 DEF LobbiesPart, botTables, exportTables
  <2>2. \A n \in Names : Checks!KeyStep(<<"lobby", n>>)
    BY <2>1, LobbyStepKey, LobbyKeys DEF ServiceInv
  <2> QED
    BY <2>1, <2>2, NoOtherHolder, BotKeysRest, ExportKeysRest, CheckedStep
<1>3. CASE BotsPart
  <2>1. /\ part = "bots" /\ part' = part /\ BotsNext /\ UNCHANGED <<lobby, export>>
    BY <1>3 DEF BotsPart, exportTables
  <2>2. \A u \in Users, n \in Names : Checks!KeyStep(<<"bot", u, n>>)
    BY <2>1, BotKeys DEF ServiceInv
  <2> QED
    BY <2>1, <2>2, NoOtherHolder, LobbyKeysRest, ExportKeysRest, CheckedStep
<1>4. CASE ExportsPart
  <2>1. /\ part = "exports" /\ part' = part /\ ExportsNext
        /\ UNCHANGED <<lobby, bot, foreign>>
    BY <1>4 DEF ExportsPart, botTables
  <2>2. \A u \in Users : Checks!KeyStep(<<"export", u>>)
    BY <2>1, ExportStepKey, ExportKeys DEF ServiceInv
  <2> QED
    BY <2>1, <2>2, NoOtherHolder, LobbyKeysRest, BotKeysRest, CheckedStep
<1>5. CASE AccountsPart
  <2>1. /\ part = "accounts" /\ part' = part /\ AccountsNext
        /\ UNCHANGED <<lobby, bot, foreign, export>>
    BY <1>5 DEF AccountsPart, exportTables, botTables
  <2> QED
    BY <2>1, NoOtherHolder, LobbyKeysRest, BotKeysRest, ExportKeysRest, CheckedStep
<1> QED
  BY <1>1, <1>2, <1>3, <1>4, <1>5 DEF ServiceNext

\* At first no name is taken twice and no request has begun.
LEMMA AtMostOne ==
    ASSUME NEW S, \A a, b \in S : a = b PROVE Cardinality(S) \in 0 .. 1
<1>1. CASE S = {}
  BY <1>1, FS_EmptySet
<1>2. CASE S # {}
  <2>1. PICK a : a \in S
    BY <1>2
  <2>2. S = {a}
    BY <2>1
  <2> QED
    BY <2>2, FS_Singleton
<1> QED
  BY <1>1, <1>2

LEMMA CheckedBegin ==
    ASSUME ServiceInit, NEW k \in CheckedKeys
    PROVE  (\A a, b \in RowsOf(k) : a = b) /\ HoldersOf(k) = {}
<1>1. \A q \in Requests : req[q].pc = "idle"
  BY DEF ServiceInit, HandlersInit, Request
<1>2. LobbiesInit /\ ExportsInit /\ (BotsInit({}) \/ BotsInit(BotIds))
  BY DEF ServiceInit
<1>3. ASSUME NEW n \in Names
      PROVE  LobbyRows(n) = {} /\ LobbyNamers(n) = {}
  BY <1>1, <1>2, NamesAssumption DEF LobbiesInit, LobbyRows, LobbiesNamed, Lobbies, LobbyNamers, At
<1>4. ASSUME NEW u \in Users PROVE PendingOf(u) = {} /\ ExportHolders(u) = {}
  BY <1>1, <1>2 DEF ExportsInit, NoExport, PendingOf, ExportHolders, At
<1>5. ASSUME NEW u \in Users, NEW n \in Names
      PROVE  (\A a, b \in BotRows(u, n) : a = b) /\ BotNamers(u, n) = {}
  <2>1. BotNamers(u, n) = {}
    BY <1>1 DEF BotNamers, At
  <2>2. CASE BotsInit({})
    <3>1. BotRows(u, n) = {}
      BY <2>2 DEF BotsInit, NoBot, BotRows, BotsNamed, UserBots, Existing
    <3> QED
      BY <2>1, <3>1
  <2>3. CASE BotsInit(BotIds)
    <3>1. \A b \in BotRows(u, n) : b \in BotIds /\ OldName(BotIds)[b] = n
      BY <2>3 DEF BotsInit, BotRows, BotsNamed, UserBots, Existing
    <3>2. \A a, b \in BotIds : OldName(BotIds)[a] = OldName(BotIds)[b] => a = b
      BY OldBotsAssumption DEF OldName
    <3> QED
      BY <2>1, <3>1, <3>2
  <2> QED
    BY <1>2, <2>2, <2>3
<1> QED
  BY <1>3, <1>4, <1>5, CheckedKinds, CheckedIs

LEMMA ServiceInitChecks == ServiceInit => Checks!Init
<1> SUFFICES ASSUME ServiceInit PROVE Checks!Init
  OBVIOUS
<1>1. \A k \in CheckedKeys : Cardinality(RowsOf(k)) \in 0 .. 1 /\ HoldersOf(k) = {}
  BY CheckedBegin, AtMostOne
<1> QED
  BY <1>1 DEF Checks!Init

\* Each check of lobbies, bots and exports, which no index backs, is worth what
\* CheckThenInsert says (lobbies.rs:121, :289, bots.rs:99, :201, exports.rs:183).
THEOREM ServiceKeepsChecks == ServiceSpec => ChecksAreKept
<1>1. ServiceInv /\ ServiceInv' /\ [ServiceNext]_serviceVars => Checks!Next
  BY ServiceStepChecks
<1> QED
  BY <1>1, ServiceInitInv, ServiceStepInv, ServiceInitChecks, PTL
     DEF ServiceSpec, ChecksAreKept, Checks!Spec

LEMMA KeptConstants == Kept!ConstantsOK
BY RequestsAssumption DEF Kept!ConstantsOK, Kept!IsFiniteSet, IsFiniteSet

\* So no lobby name is taken, no name is taken among the bots of a user, those
\* apart that somebody else renamed, and no user has pending exports more often
\* than there were requests at once.
THEOREM ServiceBudget == ServiceSpec => []NoMoreThanRequests
<1>1. Kept!Spec => []Kept!Budget
  BY KeptConstants, Kept!BudgetHolds
<1>2. Checks!Init => Kept!Init
  BY DEF Checks!Init, Kept!Init
<1>3. Checks!Next => Kept!Next
  BY DEF Checks!Next, Kept!Next, Checks!KeyStep, Kept!KeyStep, Checks!Remove, Kept!Remove,
         Checks!Pass, Kept!Pass, Checks!Leave, Kept!Leave
<1>4. ServiceInv /\ ServiceInv' /\ [ServiceNext]_serviceVars => Kept!Next
  BY <1>3, ServiceStepChecks
<1>5. ServiceInit => Kept!Init
  BY <1>2, ServiceInitChecks
<1>6. Kept!Budget => NoMoreThanRequests
  <2>1. \A S : Kept!Cardinality(S) = Checks!Cardinality(S)
    BY Zenon DEF Kept!Cardinality, Checks!Cardinality
  <2> QED
    BY <2>1 DEF Kept!Budget, NoMoreThanRequests, Checks!Budget
<1> QED
  BY <1>1, <1>4, <1>5, <1>6, ServiceInitInv, ServiceStepInv, PTL DEF ServiceSpec, Kept!Spec

=============================================================================
