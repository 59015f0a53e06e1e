---------------------------- MODULE HomeConnection ----------------------------
(***************************************************************************)
(* The connection of the frontend, and the list of chats that Home loads   *)
(* and recovers over it. HomeSync has a connection of its own, with what   *)
(* Home does from inside its notifications, so they share no state.        *)
(***************************************************************************)
EXTENDS Transport

CONSTANTS Chats, Retries, MaxPages, MaxEffort           \* of HomeSync

VARIABLES home, chats, moves                            \* of HomeSync

homeVars == <<home, chats, moves>>

Lists == INSTANCE HomeSync WITH w <- home, server <- chats, spent <- moves

\* The list, the selected chat, the loading signs and the recovery agree: a list
\* is of the mode that is shown, and a recovery that waits is answered; where no
\* list is overtaken, the selected chat is in the list, a loading sign has a
\* request, and a page continues the list shown; a ready connection has caught up or
\* has the list of its recovery to come, but for what ReadyIsCaughtUp names
\* (home.component.ts:1249, :1253, :1299).
ListAgrees ==
    /\ Lists!TypeOK
    /\ Lists!ListIsOfMode /\ Lists!RecoveryIsAnswered
    /\ Lists!SelectedIsListed /\ Lists!LoadingIsOwned /\ Lists!PageContinuesList
    /\ Lists!ReadyIsCaughtUp

\* What is shown comes of the newest list that was asked for, and a chat that was
\* started stays open, unless a move overtakes a list (home.component.ts:1249, :1412).
NewestListWins == [][Lists!NewestListWins /\ Lists!StartedStaysOpen]_homeVars
=============================================================================
