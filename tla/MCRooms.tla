------------------------------ MODULE MCRooms ------------------------------
(***************************************************************************)
(* Instances of Rooms for TLC.  The ids are model values; request slots    *)
(* are interchangeable, and so are the users who get no invitation, which  *)
(* the safety runs exploit (row ids are not: InsertJoined picks them in a  *)
(* fixed order).                                                           *)
(***************************************************************************)
EXTENDS Rooms, TLC

Symmetry ==
    Permutations(Users \ Invitees) \cup Permutations(Requests)
=============================================================================
