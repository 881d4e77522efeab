------------------------------- MODULE Exports -------------------------------
(***************************************************************************)
(* Table data_export_requests: the handlers of src/src/api/exports.rs and  *)
(* the cron job src/src/jobs/cleanup/export_files.rs.  An action is one    *)
(* statement.                                                              *)
(*                                                                         *)
(* expires_at, seven days after the completion, is abstracted to "valid",  *)
(* "expired" and, seven days later, "stale".  file_path is left out: no    *)
(* code sets it, so the job finds no file to remove.                       *)
(***************************************************************************)
EXTENDS Handlers

CONSTANT ExportIds   \* ids of rows (bounds how many are made)

ASSUME ExportIdsAssumption ==
    /\ IsFiniteSet(ExportIds)
    /\ None \notin ExportIds \cup Requests \cup {"valid", "expired", "stale"}

VARIABLES
    export,     \* export[e]: [state, owner, expires]
    cleanup,    \* the cleanup job: [on, todo]
    \* history
    overtaken   \* <<reader, e>>: the request, or None for the job, read e before
                \* it was completed

exportVars == <<requests, export, cleanup, overtaken>>
exportTables == <<export, cleanup, overtaken>>

NoExport(state) == [state |-> state, owner |-> None, expires |-> None]
IdleCleanup == [on |-> FALSE, todo |-> {}]
Stored == {e \in ExportIds : export[e].state \in {"Pending", "Completed"}}
PendingOf(u) == {e \in ExportIds : export[e].state = "Pending" /\ export[e].owner = u}

ExportsInit ==
    /\ export = [e \in ExportIds |-> NoExport("none")]
    /\ cleanup = IdleCleanup
    /\ overtaken = {}

-----------------------------------------------------------------------------
(* The handlers.                                                           *)

\* request_data_export: the user has no pending request.
ExportCheck(q, u) ==
    /\ PendingOf(u) = {}
    /\ Start(q, "insertExport", u, None, None, None)
    /\ UNCHANGED exportTables

ExportInsert(q) ==
    /\ req[q].pc = "insertExport"
    /\ \E e \in ExportIds :
          /\ export[e].state = "none"
          /\ export' = [export EXCEPT ![e] = [state |-> "Pending", owner |-> req[q].user,
                                              expires |-> None]]
    /\ Return(q)
    /\ UNCHANGED <<cleanup, overtaken>>

\* get_export_requests
ExportsOf(u, status) == {e \in Stored : export[e].owner = u /\ export[e].state = status}

\* download_export
Downloadable(u) == {e \in ExportsOf(u, "Completed") : export[e].expires = "valid"}

\* Mistake: the status is not looked at.
Mutant_CancelAny(q, u, e) ==
    /\ e \in Stored /\ export[e].owner = u
    /\ Start(q, "deleteExport", u, e, None, None)
    /\ UNCHANGED exportTables

\* cancel_export_request: the row is the user's and not completed ...
CancelFind(q, u, e) ==
    /\ e \in Stored /\ export[e].owner = u /\ export[e].state # "Completed"
    /\ Start(q, "deleteExport", u, e, None, None)
    /\ UNCHANGED exportTables

\* ... and is deleted by its id, whatever it is by now.
CancelDelete(q) ==
    /\ req[q].pc = "deleteExport"
    /\ export' = [export EXCEPT ![req[q].row] = NoExport("gone")]
    /\ overtaken' = overtaken \ {<<q, req[q].row>>}
    /\ Return(q)
    /\ UNCHANGED cleanup

\* complete_export, for administrators: the row exists, in any state ...
CompleteFind(q, a, e) ==
    /\ a \in office /\ e \in Stored
    /\ Start(q, "complete", a, e, None, None)
    /\ UNCHANGED exportTables

Readers(e) == {p \in At({"deleteExport"}) : req[p].row = e}
                 \cup (IF e \in cleanup.todo THEN {None} ELSE {})

\* Mistake: the expiry is not set.
Mutant_NeverExpires(q) ==
    /\ req[q].pc = "complete"
    /\ export' = IF req[q].row \in Stored
                    THEN [export EXCEPT ![req[q].row].state = "Completed"] ELSE export
    /\ Return(q)
    /\ UNCHANGED <<cleanup, overtaken>>

\* ... and is completed, or completed again with a new date; one that is gone
\* is an error.
CompleteWrite(q) ==
    /\ req[q].pc = "complete"
    /\ LET e == req[q].row IN
       \/ /\ e \in Stored
          /\ export' = [export EXCEPT ![e] = [@ EXCEPT !.state = "Completed",
                                                       !.expires = "valid"]]
          /\ overtaken' = overtaken \cup (Readers(e) \X {e})
       \/ e \notin Stored /\ UNCHANGED <<export, overtaken>>
    /\ Return(q)
    /\ UNCHANGED cleanup

ExportAbort(q) ==
    /\ q \in At({"insertExport", "deleteExport", "complete"})
    /\ overtaken' = overtaken \ {<<q, req[q].row>>}
    /\ Return(q)
    /\ UNCHANGED <<export, cleanup>>

-----------------------------------------------------------------------------
(* The job.                                                                *)

\* Seven days pass.
ExportAges(e) ==
    /\ e \in Stored /\ export[e].expires \in {"valid", "expired"}
    /\ export' = [export EXCEPT ![e].expires = IF @ = "valid" THEN "expired" ELSE "stale"]
    /\ UNCHANGED <<requests, cleanup, overtaken>>

\* Mistake: the selection looks for a status that no row has.
Mutant_SelectExpired ==
    /\ ~cleanup.on
    /\ cleanup' = [on |-> TRUE, todo |-> {e \in ExportIds : export[e].state = "Expired"}]
    /\ UNCHANGED <<requests, export, overtaken>>

\* The job selects what was completed and expired more than seven days ago ...
CleanupSelect ==
    /\ ~cleanup.on
    /\ cleanup' = [on |-> TRUE, todo |-> {e \in ExportIds : /\ export[e].state = "Completed"
                                                            /\ export[e].expires = "stale"}]
    /\ UNCHANGED <<requests, export, overtaken>>

\* ... and deletes one row after the other, by its id.
CleanupDelete(e) ==
    /\ e \in cleanup.todo
    /\ export' = [export EXCEPT ![e] = NoExport("gone")]
    /\ cleanup' = [cleanup EXCEPT !.todo = @ \ {e}]
    /\ overtaken' = overtaken \ {<<None, e>>}
    /\ UNCHANGED requests

CleanupDone ==
    /\ cleanup.on /\ cleanup.todo = {}
    /\ cleanup' = IdleCleanup
    /\ UNCHANGED <<requests, export, overtaken>>

CleanupExports == CleanupSelect \/ (\E e \in ExportIds : CleanupDelete(e)) \/ CleanupDone

ExportsNext ==
    \/ \E q \in Requests :
          \/ \E u \in Users : ExportCheck(q, u)
          \/ ExportInsert(q)
          \/ \E u \in Users, e \in ExportIds : CancelFind(q, u, e) \/ CompleteFind(q, u, e)
          \/ CancelDelete(q) \/ CompleteWrite(q) \/ ExportAbort(q)
    \/ \E e \in ExportIds : ExportAges(e)
    \/ \E u \in Users : ChangeRole(u) /\ UNCHANGED exportTables
    \/ CleanupExports

ExportsSpec == HandlersInit(0) /\ ExportsInit /\ [][ExportsNext]_exportVars

-----------------------------------------------------------------------------
(* Properties.                                                             *)

ExportTypeOK ==
    /\ export \in [ExportIds -> [state : {"none", "Pending", "Completed", "gone"},
                                 owner : Users \cup {None},
                                 expires : {None, "valid", "expired", "stale"}]]
    /\ \A e \in Stored : export[e].expires # None <=> export[e].state = "Completed"
    /\ \A q \in At({"deleteExport", "complete"}) : export[req[q].row].state # "none"
    /\ \A q \in At({"deleteExport"}) :
          req[q].row \in Stored => export[req[q].row].owner = req[q].user
    /\ ~cleanup.on => cleanup.todo = {}

\* Requests that have found no pending export of the user.
ExportHolders(u) == {q \in At({"insertExport"}) : req[q].user = u}

\* What is completed stays until it is stale, and what a user may download
\* until it expires, except in a race: a cancel or the job read the row before
\* it was completed (exports.rs:385 and export_files.rs:35 delete by id what
\* they found earlier).
ExportIsKept ==
    [][\A u \in Users : \A e \in ExportsOf(u, "Completed") :
          \/ e \in ExportsOf(u, "Completed")'
                /\ (e \in Downloadable(u) => e \in Downloadable(u)' \/ export'[e].expires = "expired")
          \/ export[e].expires = "stale"
          \/ \E p \in Readers(e) : <<p, e>> \in overtaken]_exportVars

\* What the text of each export promises, "Export files are retained for 7 days
\* after generation" (exports.rs:562): a run of the job takes up all that was
\* completed more than seven days ago.  The code does not keep to it, as the
\* job waits for seven days more (export_files.rs:11).
RetentionIsSevenDays ==
    [][~cleanup.on /\ cleanup'.on =>
          \A e \in ExportIds :
              export[e].state = "Completed" /\ export[e].expires \in {"expired", "stale"}
                  => e \in cleanup'.todo]_exportVars

\* An export that was completed fourteen days ago does not stay: it is removed
\* or completed again.  That is twice the time which exports.rs:562 promises;
\* the expiry is set seven days ahead (exports.rs:619), and the job waits for
\* seven days after it (export_files.rs:11).
StaleExportIsRemoved ==
    \A e \in ExportIds :
        e \in Stored /\ export[e].expires = "stale"
            ~> e \notin Stored \/ export[e].expires # "stale"

=============================================================================
