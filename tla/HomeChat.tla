------------------------------- MODULE HomeChat -------------------------------
(***************************************************************************)
(* What HomeComponent keeps of the chat that is open: its messages, its    *)
(* read state and the groups it may show; the alerts that announce what is *)
(* new, and the session all of it runs in. The parts share no state: each  *)
(* takes its own steps, between those of the others.                       *)
(***************************************************************************)
EXTENDS Integers, FiniteSets

CONSTANTS
    Chats, Mine, Theirs, Page, Rejects,     \* of HomeMessages
    MaxSeq, Others, Calls,                  \* of HomeReads
    MaxTokens,                              \* of Session
    MaxChoices, MaxPages,                   \* of Alerts
    MaxRevision, MaxRequests,               \* of GroupAccess
    MaxEffort                               \* moves and faults, for each of the first three

VARIABLES
    view, log, awaited, moves,              \* of HomeMessages
    reads, cursors, alone, readMoves,       \* of HomeReads
    tab, out, cookie, auth, signedOut, refreshes, lost, effort,     \* of Session
    alerts, asks, browser, phase, choices,                          \* of Alerts
    member, events, leaving, edit, access, accessMoves              \* of GroupAccess

messageVars == <<view, log, awaited, moves>>
readVars == <<reads, cursors, alone, readMoves>>
sessionVars == <<tab, out, cookie, auth, signedOut, refreshes, lost, effort>>
alertVars == <<alerts, asks, browser, phase, choices>>
accessVars == <<member, events, leaving, edit, access, accessMoves>>

homeVars == <<messageVars, readVars, sessionVars, alertVars, accessVars>>

Messages == INSTANCE HomeMessages WITH w <- view, spent <- moves
Reads == INSTANCE HomeReads WITH w <- reads, server <- cursors, spent <- readMoves
Session == INSTANCE Session WITH spent <- effort
Alerting == INSTANCE Alerts WITH spent <- choices
Groups == INSTANCE GroupAccess WITH h <- access, spent <- accessMoves

HomeChatAssumption ==
    /\ Messages!HomeMessagesAssumption /\ Reads!HomeReadsAssumption
    /\ Session!SessionAssumption /\ Alerting!AlertsAssumption /\ Groups!GroupAccessAssumption

Init == Messages!Init /\ Reads!Init /\ Session!Init /\ Alerting!Init /\ Groups!Init

Next ==
    \/ Messages!Next /\ UNCHANGED <<readVars, sessionVars, alertVars, accessVars>>
    \/ Reads!Next /\ UNCHANGED <<messageVars, sessionVars, alertVars, accessVars>>
    \/ Session!Next /\ UNCHANGED <<messageVars, readVars, alertVars, accessVars>>
    \/ Alerting!Next /\ UNCHANGED <<messageVars, readVars, sessionVars, accessVars>>
    \/ Groups!Next /\ UNCHANGED <<messageVars, readVars, sessionVars, alertVars>>

Spec == Init /\ [][Next]_homeVars

(* Properties.                                                             *)

\* Of the messages that are sent, repeated, stored, loaded and reconciled, the view
\* shows each once and those of the open chat alone, and says of one that it
\* is being sent only while a timer will end that (home.component.ts:1907, :1972).
ChatAgrees == Messages!ShownOnce /\ Messages!ViewIsOfChat /\ Messages!PendingIsTimed

\* When a lost connection is ready again, every message of a peer in the selected
\* chat is shown or on its way, whatever was delivered to the socket that died,
\* unless a reconciliation of the chat was rejected (home.component.ts:1341).
RecoveryIsComplete == [][Messages!RecoveryIsComplete]_messageVars

\* Badge, cursor and messages agree once nothing is under way: for a user with no other
\* device and no call a chat with a badge has a message that was not read, and a chat that
\* is seen, with no call in front of it, is read at the server as far as it is shown and,
\* shown as a whole, has no badge (home.component.ts:1139, :2020). Excepted are the chats
\* whose badge came late, with a list read before a cursor that was told of sooner, or
\* stayed because the list of a recovery failed (home.component.ts:1275, :1290).
ReadsAgree == Reads!BadgeHasCause /\ Reads!SelectedIsRead

\* It rings only while a call is incoming in Home (home-notification.service.ts:24).
RingsForCall == Alerting!RingsForCall

\* A refresh token is used once, a sign-out is undone by no answer of before but that of a
\* login, of which several may be on their way, nobody waits for a refresh that is over, Home
\* is shown to a signed-in user unless an answer is lost or an older login is refused there
\* (auth.service.ts:52, auth-interceptor.service.ts:48), and the ringtone is off without a
\* call that is incoming there.
SessionAgrees ==
    /\ Session!RefreshedOnce /\ Session!SignedOutStays
    /\ Session!NobodyWaits /\ Session!HomeNeedsSession
    /\ RingsForCall

\* A group follows its membership: once nothing is under way no departure, lookup
\* or busy sign is left; a quarantined group comes back on the screen by a list
\* alone; but for the answers to the user's own edits, what is shown never goes back,
\* except that a list whose entry is refused takes over what the open chat shows, and a
\* removed group returns by a newer revision only
\* (home-group-access-facade.service.ts:223, :338).
GroupFollowsMembership ==
    [][/\ Groups!Settled'
       /\ Groups!UnverifiedOnlyFromLists
       /\ Groups!NeverShowsOlder
       /\ Groups!ReturnsNewer]_accessVars
=============================================================================
