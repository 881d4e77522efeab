------------------------------ MODULE Handlers ------------------------------
(***************************************************************************)
(* What the HTTP handlers of lobbies, bots, exports and accounts have in   *)
(* common.  A handler runs in a request slot, one database statement at a  *)
(* time and without a transaction, so that others run in between; it may   *)
(* stop after any statement.                                               *)
(***************************************************************************)
EXTENDS Integers, FiniteSets

CONSTANTS
    Users,      \* user ids
    Admins,     \* users who have the role Admin at the start
    Names,      \* names of lobbies, bots and users
    Requests,   \* slots for requests in flight
    None,       \* "no value"
    MaxRequests \* bounds the requests of a behaviour

ASSUME UsersAssumption == IsFiniteSet(Users) /\ None \notin Users
ASSUME AdminsAssumption == Admins \subseteq Users
ASSUME NamesAssumption == None \notin Names
ASSUME RequestsAssumption == IsFiniteSet(Requests) /\ Requests # {} /\ MaxRequests \in Nat

VARIABLES
    req,   \* req[q]: [pc, user, row, name, flag]: the next statement, who asks,
           \* the row read, the name asked for, another value asked for
    begun, \* number of requests so far
    office \* users who have the role Admin, where other modules ask for it

requests == <<req, begun, office>>

Request == [pc |-> "idle", user |-> None, row |-> None, name |-> None, flag |-> None]
Flags == {TRUE, FALSE, None}

HandlersInit(made) ==
    req = [q \in Requests |-> Request] /\ begun = made /\ office = Admins

Start(q, next, u, r, n, f) ==
    /\ req[q].pc = "idle" /\ begun < MaxRequests
    /\ begun' = begun + 1
    /\ req' = [req EXCEPT ![q] = [pc |-> next, user |-> u, row |-> r, name |-> n, flag |-> f]]
    /\ UNCHANGED office

Goto(q, next) == req' = [req EXCEPT ![q].pc = next] /\ UNCHANGED <<begun, office>>
Return(q) == req' = [req EXCEPT ![q] = Request] /\ UNCHANGED <<begun, office>>

\* moderate_user, as far as bots and exports are concerned: an administrator
\* makes another or takes the role away, while requests are on their way that
\* have read it.  It counts as a request; Accounts has its statements.
ChangeRole(u) ==
    /\ office # {} /\ begun < MaxRequests
    /\ begun' = begun + 1
    /\ office' = IF u \in office THEN office \ {u} ELSE office \cup {u}
    /\ UNCHANGED req

At(pcs) == {q \in Requests : req[q].pc \in pcs}

=============================================================================
