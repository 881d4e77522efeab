------------------------------ MODULE MCFriends ------------------------------
(***************************************************************************)
(* Friends and Notifications for TLC, as a sum of two workloads that share *)
(* no request: two requests that make, answer and remove friendships; and  *)
(* two that mark, delete and count notifications, one of which may count   *)
(* (a reader changes nothing, so one stands for all).                      *)
(***************************************************************************)
EXTENDS Friends, TLC

CONSTANT MaxNotes   \* notifications made while they are marked or counted

VARIABLE work

mcVars == <<socialVars, work>>

MCInit == SocialInit /\ work \in {"friends", "notifications"}

Counting == {q \in Requests : req[q].pc \in {"summary", "list", "listUnread"}}

MCNext ==
    /\ UNCHANGED work
    /\ \/ work = "friends" /\ \E q \in Requests : Befriending(q)
       \/ /\ work = "notifications"
          /\ (\E q \in Requests : Reading(q) \/ Marking(q)) \/ AtOnce
          /\ Cardinality(Counting') <= 1
          /\ Cardinality(FreshNotes') >= Cardinality(NoteIds) - MaxNotes
          /\ UNCHANGED friendVars

MCSpec == MCInit /\ [][MCNext]_mcVars

Symmetry == Permutations(Users) \cup Permutations(Requests)
=============================================================================
