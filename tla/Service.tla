------------------------------ MODULE Service ------------------------------
(***************************************************************************)
(* The handlers of lobbies, bots, exports and accounts, with the jobs and  *)
(* messages that touch the same tables.  They meet in no table, so a       *)
(* behaviour is about one of the parts, chosen at the start.               *)
(***************************************************************************)
EXTENDS Lobbies, Bots, Exports, Accounts

VARIABLE part

serviceVars == <<part, requests, lobby, botTables, exportTables, accountTables>>

ServiceInit ==
    /\ part \in {"lobbies", "bots", "exports", "accounts"}
    /\ LobbiesInit /\ ExportsInit /\ AccountsInit
    /\ \/ BotsInit({}) /\ HandlersInit(0)
       \/ part = "bots" /\ BotsInit(BotIds) /\ HandlersInit(1)

LobbiesPart ==
    /\ part = "lobbies" /\ LobbiesNext
    /\ UNCHANGED <<part, botTables, exportTables, accountTables>>

BotsPart ==
    /\ part = "bots" /\ BotsNext
    /\ UNCHANGED <<part, lobby, exportTables, accountTables>>

ExportsPart ==
    /\ part = "exports" /\ ExportsNext
    /\ UNCHANGED <<part, lobby, botTables, accountTables>>

AccountsPart ==
    /\ part = "accounts" /\ AccountsNext
    /\ UNCHANGED <<part, lobby, botTables, exportTables>>

ServiceNext == LobbiesPart \/ BotsPart \/ ExportsPart \/ AccountsPart

\* Cron goes on to run the jobs.
BotsJobPart == part = "bots" /\ Job /\ UNCHANGED <<part, lobby, exportTables, accountTables>>
ExportsJobPart ==
    part = "exports" /\ CleanupExports /\ UNCHANGED <<part, lobby, botTables, accountTables>>
ServiceFairness == WF_serviceVars(BotsJobPart) /\ WF_serviceVars(ExportsJobPart)

ServiceSpec == ServiceInit /\ [][ServiceNext]_serviceVars /\ ServiceFairness

-----------------------------------------------------------------------------
(* Properties.                                                             *)

ServiceTypeOK == LobbyTypeOK /\ BotTypeOK /\ ExportTypeOK /\ AccountTypeOK

\* What is looked for before it is inserted and has no unique index: the names
\* of lobbies and of a user's bots, and a user's pending export.  The names of
\* users have one.
CheckedKeys ==
    ({"lobby"} \X Names) \cup ({"bot"} \X Users \X Names) \cup ({"export"} \X Users)

RowsOf(k) ==
    CASE k[1] = "lobby"  -> LobbyRows(k[2])
      [] k[1] = "bot"    -> BotRows(k[2], k[3])
      [] k[1] = "export" -> PendingOf(k[2])

HoldersOf(k) ==
    CASE k[1] = "lobby"  -> LobbyNamers(k[2])
      [] k[1] = "bot"    -> BotNamers(k[2], k[3])
      [] k[1] = "export" -> ExportHolders(k[2])

Checks == INSTANCE CheckThenInsert WITH
    Keys    <- CheckedKeys,
    Limit   <- [k \in CheckedKeys |-> 1],
    rows    <- [k \in CheckedKeys |-> Cardinality(RowsOf(k))],
    holders <- [k \in CheckedKeys |-> HoldersOf(k)]

\* These checks are backed by no index, but each is worth what CheckThenInsert
\* says: a step of any handler passes the check, inserts or gives up, or
\* removes; never a row without a check (lobbies.rs:121, :289, bots.rs:99,
\* :201, exports.rs:183).
ChecksAreKept == Checks!Spec

\* What follows for lobbies, bots and exports: no more rows of a key than there
\* were requests at once.  A bot that somebody other than its owner renamed does
\* not count: its name was looked for among the bots of the one who renames.
NoMoreThanRequests == Checks!Budget

=============================================================================
