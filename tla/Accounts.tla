------------------------------ MODULE Accounts ------------------------------
(***************************************************************************)
(* Users, sessions and moderation: src/src/api/users.rs, auth.rs and       *)
(* admin.rs, src/src/auth.rs, and the cron jobs that clean up audit logs   *)
(* and reports.  An action is one statement.                               *)
(*                                                                         *)
(* What moderators change is a subject: the status or the role of a user,  *)
(* the status of a report, or a key of the configuration, whose value is   *)
(* identified with the administrator who wrote it.  A change is three      *)
(* statements: the row is found, written and entered in the audit log.     *)
(* The notification that follows for a user is left to Notifications.  The *)
(* profile columns are one value, which is identified with who set it.     *)
(***************************************************************************)
EXTENDS Handlers

CONSTANTS
    ReportIds,    \* reports; the game server files them
    ConfigKeys    \* keys of the system configuration

Roles == {"Admin", "Moderator", "Active"}
\* No code tells Suspended from Banned, or any open or decided report from
\* another; only the cleanup knows Dismissed.
Statuses == {"Active", "Banned"}
ReportStatuses == {"Pending", "Dismissed"}
Subjects == ({"status", "role"} \X Users) \cup ({"report"} \X ReportIds)
                \cup ({"config"} \X ConfigKeys)

\* There is a name for each administrator; None is no status.
ASSUME AdminNamesAssumption ==
    \E f \in [Admins -> Names] : \A u, v \in Admins : f[u] = f[v] => u = v
ASSUME StatusesAssumption == None \notin Statuses \cup ReportStatuses \cup Roles

VARIABLES
    account,    \* account[u]: [state, name, status, role, profile]
    session,    \* users with a session
    report,     \* report[r]: [status, handler]; status None once it is deleted
    config,     \* config[k]: who wrote the value, None if there is no row
    log,        \* log[s]: what the newest audit entry says of the subject, if any
    \* history
    blurred,    \* subjects whose newest entry may not be about the last change
    fallen      \* requests whose user has lost his powers since they began

accountVars == <<requests, account, session, report, config, log, blurred, fallen>>
accountTables == <<account, session, report, config, log, blurred, fallen>>

NoReport == [status |-> None, handler |-> None]

\* Administrators are made in the database; their names differ.
AdminName == CHOOSE f \in [Admins -> Names] : \A u, v \in Admins : f[u] = f[v] => u = v

AccountsInit ==
    /\ account = [u \in Users |->
          [state |-> IF u \in Admins THEN "exists" ELSE "none",
           name |-> IF u \in Admins THEN AdminName[u] ELSE None,
           status |-> "Active",
           role |-> IF u \in Admins THEN "Admin" ELSE "Active",
           profile |-> None]]
    /\ session = {}
    /\ report = [r \in ReportIds |-> [NoReport EXCEPT !.status = "Pending"]]
    /\ config = [k \in ConfigKeys |-> None]
    /\ log = [s \in Subjects |-> None]
    /\ blurred = {} /\ fallen = {}

Accounts == {u \in Users : account[u].state = "exists"}
AccountsNamed(n) == {u \in Accounts : account[u].name = n}
Reports == {r \in ReportIds : report[r].status # None}

\* A session is looked up by id, and dies with the name it was made for.
LoggedIn == session \cap Accounts
HasRole(u, roles) == u \in LoggedIn /\ account[u].role \in roles

\* get_user, get_reports, get_audit_logs and get_system_config: what u is shown.
MaySee(u) == IF HasRole(u, {"Admin", "Moderator"}) THEN Accounts ELSE LoggedIn \cap {u}
ShownReports(u, status) ==
    {r \in Reports : HasRole(u, {"Admin", "Moderator"}) /\ report[r].status = status}
ShownLog(u) == {s \in Subjects : HasRole(u, {"Admin"}) /\ log[s] # None}
ShownConfig(u) == {k \in ConfigKeys : HasRole(u, {"Admin"}) /\ config[k] # None}

-----------------------------------------------------------------------------
(* Users and sessions.                                                     *)

\* create_user: no account has the name; the password is hashed meanwhile.
UserCheck(q, n) ==
    /\ AccountsNamed(n) = {}
    /\ Start(q, "insertUser", None, None, n, None)
    /\ UNCHANGED accountTables

\* The name is unique in the table: if it has been taken since, the insert is
\* an error.  A deleted account has given its name up.
UserInsert(q) ==
    /\ req[q].pc = "insertUser"
    /\ \/ /\ AccountsNamed(req[q].name) = {}
          /\ \E u \in Users :
                /\ account[u].state = "none"
                /\ account' = [account EXCEPT ![u] =
                      [state |-> "exists", name |-> req[q].name, status |-> "Active",
                       role |-> "Active", profile |-> None]]
       \/ AccountsNamed(req[q].name) # {} /\ UNCHANGED account
    /\ Return(q)
    /\ UNCHANGED <<session, report, config, log, blurred, fallen>>

\* login: the account that has the name is looked at, and its password agrees.
\* The status of the account does not matter.
Login(n) ==
    /\ \E u \in AccountsNamed(n) : session' = session \cup {u}
    /\ UNCHANGED <<requests, account, report, config, log, blurred, fallen>>

Logout(u) ==
    /\ u \in session
    /\ session' = session \ {u}
    /\ UNCHANGED <<requests, account, report, config, log, blurred, fallen>>

\* update_user: the profile is one's own, or one is moderator or administrator ...
ProfileFind(q, m, u) ==
    /\ u \in MaySee(m)
    /\ Start(q, "writeProfile", m, <<"profile", u>>, None, m)
    /\ UNCHANGED accountTables

\* ... and is written by its id, whatever became of the account.
ProfileWrite(q) ==
    /\ req[q].pc = "writeProfile"
    /\ account' = [account EXCEPT ![req[q].row[2]].profile = req[q].flag]
    /\ fallen' = fallen \ {q}
    /\ Return(q)
    /\ UNCHANGED <<session, report, config, log, blurred>>

\* delete_user: the account is one's own, or one is administrator ...
UserDeleteFind(q, m, u) ==
    /\ m \in LoggedIn /\ (m = u \/ HasRole(m, {"Admin"}))
    /\ u \in Accounts
    /\ Start(q, "deleteUser", m, u, None, None)
    /\ UNCHANGED accountTables

InFlight(u) == {q \in Requests : req[q].user = u}

\* ... and keeps its row, without the name.
UserDelete(q) ==
    /\ req[q].pc = "deleteUser"
    /\ account' = [account EXCEPT ![req[q].row] = [@ EXCEPT !.state = "deleted", !.name = None]]
    /\ fallen' = (fallen \cup InFlight(req[q].row)) \ {q}
    /\ Return(q)
    /\ UNCHANGED <<session, report, config, log, blurred>>

-----------------------------------------------------------------------------
(* Moderation.                                                             *)

\* Mistake: moderators may do it too.
Mutant_AnyStaff(q, m, s, value) ==
    /\ HasRole(m, {"Admin", "Moderator"})
    /\ account[s[2]].state # "none"
    /\ Start(q, "writeUser", m, s, None, value)
    /\ UNCHANGED accountTables

\* moderate_user: one is administrator; the user may be deleted, or oneself.
ModerateFind(q, m, s, value) ==
    /\ HasRole(m, {"Admin"})
    /\ account[s[2]].state # "none"
    /\ Start(q, "writeUser", m, s, None, value)
    /\ UNCHANGED accountTables

\* update_report: one is moderator or administrator.
ReportFind(q, m, r, status) ==
    /\ HasRole(m, {"Admin", "Moderator"})
    /\ r \in Reports
    /\ Start(q, "writeReport", m, <<"report", r>>, None, status)
    /\ UNCHANGED accountTables

\* update_system_config: the key has a row, or has none.
ConfigFind(q, m, k) ==
    /\ HasRole(m, {"Admin"})
    /\ Start(q, IF config[k] = None THEN "insertConfig" ELSE "writeConfig", m,
             <<"config", k>>, None, m)
    /\ UNCHANGED accountTables

Writers(s) == {q \in At({"audit"}) : req[q].row = s}

\* The subject of the request is written: its newest entry will be about this
\* change, unless another change waits for its entry.
Written(q) ==
    /\ blurred' = IF Writers(req[q].row) = {} THEN blurred \ {req[q].row}
                                               ELSE blurred \cup {req[q].row}
    /\ Goto(q, "audit")

\* Mistake: the row is written as it was found, the role by default.
Mutant_ModerateWhole(q) ==
    /\ req[q].pc = "writeUser"
    /\ LET column == req[q].row[1]
           u == req[q].row[2]
       IN  /\ account' = [account EXCEPT ![u] =
                 [@ EXCEPT !.role = IF column = "role" THEN req[q].flag ELSE "Active",
                           !.status = IF column = "status" THEN req[q].flag ELSE @]]
           /\ fallen' = IF column = "role" /\ req[q].flag # "Admin"
                           THEN fallen \cup InFlight(u) ELSE fallen
    /\ Written(q)
    /\ UNCHANGED <<session, report, config, log>>

\* The UPDATE of the status or the role, and of nothing else.
ModerateWrite(q) ==
    /\ req[q].pc = "writeUser"
    /\ LET column == req[q].row[1]
           u == req[q].row[2]
       IN  /\ account' = [account EXCEPT ![u] =
                 [account[u] EXCEPT !.role = IF column = "role" THEN req[q].flag ELSE @,
                                    !.status = IF column = "status" THEN req[q].flag ELSE @]]
           /\ fallen' = IF column = "role" /\ req[q].flag # "Admin"
                           THEN fallen \cup InFlight(u) ELSE fallen
    /\ Written(q)
    /\ UNCHANGED <<session, report, config, log>>

\* A report that is gone is an error.
ReportWrite(q) ==
    /\ req[q].pc = "writeReport"
    /\ LET r == req[q].row[2] IN
       \/ /\ r \in Reports
          /\ report' = [report EXCEPT ![r] = [@ EXCEPT !.status = req[q].flag,
                                                       !.handler = req[q].user]]
          /\ Written(q)
          /\ UNCHANGED fallen
       \/ /\ r \notin Reports
          /\ fallen' = fallen \ {q} /\ Return(q) /\ UNCHANGED <<report, blurred>>
    /\ UNCHANGED <<account, session, config, log>>

\* The key is unique: a second insert is an error.
ConfigWrite(q) ==
    /\ q \in At({"insertConfig", "writeConfig"})
    /\ LET k == req[q].row[2] IN
       \/ /\ req[q].pc = "insertConfig" => config[k] = None
          /\ config' = [config EXCEPT ![k] = req[q].user]
          /\ Written(q)
          /\ UNCHANGED fallen
       \/ /\ req[q].pc = "insertConfig" /\ config[k] # None
          /\ fallen' = fallen \ {q} /\ Return(q) /\ UNCHANGED <<config, blurred>>
    /\ UNCHANGED <<account, session, report, log>>

\* The audit entry, and the end of the request.
AuditInsert(q) ==
    /\ req[q].pc = "audit"
    /\ log' = [log EXCEPT ![req[q].row] = req[q].flag]
    /\ fallen' = fallen \ {q}
    /\ Return(q)
    /\ UNCHANGED <<account, session, report, config, blurred>>

\* A failure; after the write it leaves a change without an entry.
AccountAbort(q) ==
    /\ q \in At({"insertUser", "writeProfile", "deleteUser", "writeUser", "writeReport", "insertConfig",
                 "writeConfig", "audit"})
    /\ blurred' = IF req[q].pc = "audit" THEN blurred \cup {req[q].row} ELSE blurred
    /\ fallen' = fallen \ {q}
    /\ Return(q)
    /\ UNCHANGED <<account, session, report, config, log>>

-----------------------------------------------------------------------------
(* The jobs.                                                               *)

\* cleanup-reports: dismissed reports, those filed more than ninety days ago,
\* by one DELETE.  When they were dismissed does not matter.
CleanupReports ==
    /\ \E old \in SUBSET {r \in Reports : report[r].status = "Dismissed"} :
          report' = [r \in ReportIds |-> IF r \in old THEN NoReport ELSE report[r]]
    /\ UNCHANGED <<requests, account, session, config, log, blurred, fallen>>

\* cleanup-audit-logs: entries of more than sixty days, by one DELETE.
CleanupAuditLogs ==
    /\ \E old \in SUBSET {s \in Subjects : log[s] # None} :
          log' = [s \in Subjects |-> IF s \in old THEN None ELSE log[s]]
    /\ UNCHANGED <<requests, account, session, report, config, blurred, fallen>>

-----------------------------------------------------------------------------

UserRequests ==
    \/ \E q \in Requests :
          \/ \E n \in Names : UserCheck(q, n)
          \/ \E m, u \in Users : UserDeleteFind(q, m, u) \/ ProfileFind(q, m, u)
          \/ UserInsert(q) \/ UserDelete(q) \/ ProfileWrite(q)
    \/ \E n \in Names : Login(n)
    \/ \E u \in Users : Logout(u)

Moderation ==
    \E q \in Requests :
        \/ \E m, u \in Users :
              \/ \E status \in Statuses : ModerateFind(q, m, <<"status", u>>, status)
              \/ \E role \in Roles : ModerateFind(q, m, <<"role", u>>, role)
        \/ \E m \in Users :
              \/ \E r \in ReportIds, status \in ReportStatuses : ReportFind(q, m, r, status)
              \/ \E k \in ConfigKeys : ConfigFind(q, m, k)
        \/ ModerateWrite(q) \/ ReportWrite(q) \/ ConfigWrite(q)
        \/ AuditInsert(q) \/ AccountAbort(q)

AccountJobs == CleanupReports \/ CleanupAuditLogs

AccountsNext == UserRequests \/ Moderation \/ AccountJobs

-----------------------------------------------------------------------------
(* Properties.                                                             *)

\* Among them the constraint of the table: no two accounts share a name.
AccountTypeOK ==
    /\ account \in [Users -> [state : {"none", "exists", "deleted"}, name : Names \cup {None},
                              status : Statuses, role : Roles,
                              profile : Users \cup {None}]]
    /\ \A u \in Users : account[u].name # None <=> u \in Accounts
    /\ \A u, v \in Accounts : account[u].name = account[v].name => u = v
    /\ session \subseteq Users
    /\ report \in [ReportIds -> [status : ReportStatuses \cup {None},
                                 handler : Users \cup {None}]]
    /\ config \in [ConfigKeys -> Users \cup {None}]
    /\ \A m \in Users :
          /\ \A u \in MaySee(m) : account[u].name # None
          /\ \A r \in ShownReports(m, "Dismissed") : report[r].handler # None
    /\ fallen \subseteq {q \in Requests : req[q].user # None}

Value(s) ==
    CASE s[1] = "status" -> account[s[2]].status
      [] s[1] = "role"   -> account[s[2]].role
      [] s[1] = "report" -> report[s[2]].status
      [] s[1] = "config" -> config[s[2]]
      [] s[1] = "profile" -> account[s[2]].profile

\* The newest entry that the audit log shows of a subject says what it is,
\* unless its change is still under way, failed before the entry was made, or
\* overlapped with another change of the same subject (admin.rs:288, :419 and
\* :571 write before they log).  A change of the status is no excuse for the
\* role, nor is the deletion of the account.  A key that the log names has a row.
LogExplainsState ==
    \A m \in Users : \A s \in ShownLog(m) :
        /\ Writers(s) = {} /\ s \notin blurred /\ Value(s) # None => log[s] = Value(s)
        /\ s[1] = "config" => s[2] \in ShownConfig(m)

\* Who changes a status, a role, a report, the configuration or the profile of
\* another holds the office for it, or lost it after his request had begun: the
\* role is read at its start and used to the end (admin.rs:373, users.rs:191).
PowerIsHeld ==
    [][\A s \in Subjects \cup ({"profile"} \X Users) :
          Value(s)' # Value(s) /\ Value(s)' # None =>
             \E q \in At({"writeUser", "writeReport", "insertConfig", "writeConfig",
                          "writeProfile"}) :
                /\ req[q].row = s
                /\ q \in fallen \/ /\ req[q].user \in Accounts
                                   /\ \/ account[req[q].user].role = "Admin"
                                      \/ /\ account[req[q].user].role = "Moderator"
                                         /\ s[1] \in {"report", "profile"}
                                      \/ s = <<"profile", req[q].user>>]_accountVars

=============================================================================
