------------------------------- MODULE Lobbies -------------------------------
(***************************************************************************)
(* Table lobby_pool and the handlers of src/src/api/lobbies.rs.  All that  *)
(* write are for administrators.  An action is one statement; name and     *)
(* active are modelled, description and preset are left out.               *)
(***************************************************************************)
EXTENDS Handlers

CONSTANT LobbyIds   \* ids of rows of lobby_pool (bounds how many are made)

ASSUME LobbyIdsAssumption == IsFiniteSet(LobbyIds) /\ None \notin LobbyIds

VARIABLE lobby   \* lobby[l]: [name, active]; the name is None before the insert

lobbyVars == <<requests, lobby>>

Lobbies == {l \in LobbyIds : lobby[l].name # None}
LobbiesNamed(n) == {l \in Lobbies : lobby[l].name = n}

LobbiesInit == lobby = [l \in LobbyIds |-> [name |-> None, active |-> FALSE]]

\* get_lobbies, and get_all_lobbies, whose parameter counts for administrators
\* only.
ActiveLobbies == {l \in Lobbies : lobby[l].active}
AllLobbies(includeInactive) == IF includeInactive THEN Lobbies ELSE ActiveLobbies

\* Mistake: only active lobbies are looked at for the name.
Mutant_ActiveNames(q, n) ==
    /\ LobbiesNamed(n) \cap ActiveLobbies = {}
    /\ Start(q, "insertLobby", None, None, n, None)
    /\ UNCHANGED lobby

\* create_lobby: no lobby has the name, active or not.
LobbyCheck(q, n) ==
    /\ LobbiesNamed(n) = {}
    /\ Start(q, "insertLobby", None, None, n, None)
    /\ UNCHANGED lobby

LobbyInsert(q) ==
    /\ req[q].pc = "insertLobby"
    /\ \E l \in LobbyIds \ Lobbies :
          lobby' = [lobby EXCEPT ![l] = [name |-> req[q].name, active |-> TRUE]]
    /\ Return(q)

\* update_lobby: the row exists; n or a is None if the request leaves the
\* column out.
LobbyFind(q, l, n, a) ==
    /\ l \in Lobbies
    /\ Start(q, IF n = None THEN "writeLobby" ELSE "checkLobby", None, l, n, a)
    /\ UNCHANGED lobby

\* No other lobby has the new name.
LobbyRenameCheck(q) ==
    /\ req[q].pc = "checkLobby"
    /\ IF LobbiesNamed(req[q].name) \subseteq {req[q].row}
          THEN Goto(q, "writeLobby") ELSE Return(q)
    /\ UNCHANGED lobby

\* delete_lobby: the row exists and is then made inactive.
LobbyDeactivate(q, l) == LobbyFind(q, l, None, FALSE)

\* Mistake: the row is written as it was found, active unless told otherwise.
Mutant_WriteWhole(q) ==
    /\ req[q].pc = "writeLobby"
    /\ lobby' = [lobby EXCEPT ![req[q].row] =
                    [name |-> IF req[q].name = None THEN @.name ELSE req[q].name,
                     active |-> req[q].flag # FALSE]]
    /\ Return(q)

\* The UPDATE of the columns that the request names, and of no other.
LobbyWrite(q) ==
    /\ req[q].pc = "writeLobby"
    /\ lobby' = [lobby EXCEPT ![req[q].row] =
                    [name |-> IF req[q].name = None THEN @.name ELSE req[q].name,
                     active |-> IF req[q].flag = None THEN @.active ELSE req[q].flag]]
    /\ Return(q)

LobbyAbort(q) ==
    /\ q \in At({"insertLobby", "checkLobby", "writeLobby"})
    /\ Return(q)
    /\ UNCHANGED lobby

LobbiesNext ==
    \E q \in Requests :
        \/ \E n \in Names : LobbyCheck(q, n)
        \/ LobbyInsert(q)
        \/ \E l \in LobbyIds, n \in Names \cup {None}, a \in Flags : LobbyFind(q, l, n, a)
        \/ LobbyRenameCheck(q)
        \/ \E l \in LobbyIds : LobbyDeactivate(q, l)
        \/ LobbyWrite(q)
        \/ LobbyAbort(q)

LobbiesSpec == HandlersInit(0) /\ LobbiesInit /\ [][LobbiesNext]_lobbyVars

-----------------------------------------------------------------------------

LobbyTypeOK ==
    /\ lobby \in [LobbyIds -> [name : Names \cup {None}, active : BOOLEAN]]
    /\ \A q \in At({"insertLobby"}) : req[q].name \in Names
    /\ \A q \in At({"checkLobby", "writeLobby"}) : req[q].row \in Lobbies

\* Requests that have passed the check of the name n, and lobbies of that name
\* other than those they are about to write.
LobbyNamers(n) == {q \in At({"insertLobby", "writeLobby"}) : req[q].name = n}
LobbyRows(n) == LobbiesNamed(n) \ {req[q].row : q \in LobbyNamers(n)}

\* A lobby that an administrator is shown becomes active or inactive only by a
\* request that says so: renaming one while another request deactivates it does
\* not bring it back (lobbies.rs:310 writes the row that :280 read, but only the
\* columns set).
ActiveFollowsRequest ==
    [][\A l \in AllLobbies(TRUE) :
          lobby'[l].active # lobby[l].active =>
            \E q \in At({"writeLobby"}) :
                req[q].row = l /\ req[q].flag = lobby'[l].active]_lobbyVars

=============================================================================
