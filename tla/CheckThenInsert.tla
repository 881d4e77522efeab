--------------------------- MODULE CheckThenInsert ---------------------------
(***************************************************************************)
(* What a check followed by an insert promises, when nothing else guards   *)
(* the table: the code's substitute for a unique index (names of lobbies   *)
(* and bots, one pending export per user, one seat per player) and for a   *)
(* capacity (the seats of a room).                                         *)
(*                                                                         *)
(* A request that finds fewer than Limit[k] rows of a key has passed, and  *)
(* holds the key until it inserts or gives up.  A row that such a request  *)
(* is about to write again is not counted.                                 *)
(***************************************************************************)
EXTENDS Integers, FiniteSets

CONSTANTS
    Keys,       \* what must not exist too often
    Requests,
    Limit       \* Limit[k]: how often

\* What must be true of the constants.
ConstantsOK ==
    Limit \in [Keys -> Nat \ {0}] /\ IsFiniteSet(Requests) /\ Requests # {}

VARIABLES
    rows,      \* rows[k]: number of rows of the key
    holders    \* holders[k]: requests that have passed the check

vars == <<rows, holders>>

Init ==
    /\ rows \in [Keys -> Nat] /\ \A k \in Keys : rows[k] <= Limit[k]
    /\ holders = [k \in Keys |-> {}]

Pass(k, q) ==
    /\ q \notin holders[k]
    /\ rows'[k] \in 0 .. Limit[k] - 1 /\ rows'[k] <= rows[k]
    /\ holders'[k] = holders[k] \cup {q}

\* The request inserts, or stops.
Leave(k, q) ==
    /\ q \in holders[k]
    /\ rows'[k] \in {rows[k], rows[k] + 1}
    /\ holders'[k] = holders[k] \ {q}

Remove(k) ==
    /\ rows'[k] \in 0 .. rows[k]
    /\ holders'[k] = holders[k]

KeyStep(k) == Remove(k) \/ \E q \in Requests : Pass(k, q) \/ Leave(k, q)

\* A step may concern several keys: a renamed row leaves one for another.
Next == \A k \in Keys : KeyStep(k)

Spec == Init /\ [][Next]_vars

-----------------------------------------------------------------------------

TypeOK ==
    \A k \in Keys : rows[k] \in Nat /\ holders[k] \subseteq Requests

\* The limit is exceeded, by no more than the requests that overlap but one:
\* what the check is worth without an index.
Budget ==
    \A k \in Keys : rows[k] + Cardinality(holders[k]) <= Limit[k] - 1 + Cardinality(Requests)

=============================================================================
