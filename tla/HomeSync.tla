------------------------------ MODULE HomeSync ------------------------------
(***************************************************************************)
(* How Home keeps the list of chats and the selected one up to date: the   *)
(* requests of the list that home.component.ts makes for the first load,   *)
(* for a recovery of the connection and for a refresh, their retries and   *)
(* generations, pages, the archive, and the reconciliation that decides    *)
(* with the presence snapshot when a reopened connection is ready. The     *)
(* connection is that of module Connection, here with the calls Home makes *)
(* from inside its notifications. Chats are direct; how groups of a list   *)
(* are authorized is in module GroupAccess.                                *)
(***************************************************************************)
EXTENDS Integers, FiniteSets

CONSTANTS
    Chats,          \* direct conversations
    Retries,        \* of a list request, 2 in the code
    MaxPages,       \* reconciliation pages of one opening
    MaxEffort       \* moves of the user, the peers and the faults, see Spend

HomeSyncAssumption ==
    /\ IsFiniteSet(Chats) /\ "none" \notin Chats
    /\ {Retries, MaxPages, MaxEffort} \subseteq Nat

VARIABLES
    w,          \* Home, its connection and what they have asked for, see World
    server,     \* where each chat is, and how often that has changed
    spent       \* of MaxEffort

vars == <<w, server, spent>>

Modes == {"active", "archived"}
Other(mode) == IF mode = "active" THEN "archived" ELSE "active"
ChatOrNone == Chats \cup {"none"}

\* A request of the list, or the timer that will make it again.
List == [kind : {"initial", "recovery", "refresh", "page"}, gen : Nat, left : 0 .. Retries,
         mode : Modes, proj : Nat, at : {"sent", "answered", "timer"},
         has : SUBSET Chats, ver : Nat]

\* A request to archive or restore a chat, or to create one.
Move == [kind : {"archive", "create"}, chat : Chats, mode : Modes, ver : Nat]

\* What history keeps, see Noted.
Notes == {"moves", "errors", "rejected", "early"}

\* A reconciliation on its way, and what Home remembers of the last one.
Ask == [gen : Nat, id : Nat, chat : ChatOrNone]
NoAsk == [gen |-> 0, id |-> 0, chat |-> "none"]

World ==
    [state : {"offline", "connecting", "recovering", "ready", "failed"},
     snapshot : BOOLEAN, awaited : Nat,
     established : BOOLEAN, initial : {"pending", "ready", "failed"},
     refreshGen : Nat, recoveryGen : Nat, proj : Nat,
     mode : Modes, isLoading : BOOLEAN, snapLoading : BOOLEAN, error : BOOLEAN,
     listed : SUBSET Chats,
     ver : Nat,             \* of the server when it gave what is listed
     gone : Nat,            \* of the server when a chat of it was archived
     from : Modes,          \* archiveMode when that was asked for
     cursor : Nat,          \* groupNextCursor: the list it continues, 0 when null
     tail : Nat,            \* the list that the page shown below it continues
     selected : ChatOrNone, saved : ChatOrNone,
     behind : BOOLEAN,      \* the chat selected may lack messages of the time offline
     ask : Ask, lastID : Nat, asks : SUBSET Ask, pages : Nat,
     lists : SUBSET List, moves : SUBSET Move,
     upset : SUBSET Notes]  \* history

TypeOK ==
    /\ w \in World
    /\ server \in [at : [Chats -> Modes \cup {"nowhere"}], ver : Nat]
    /\ spent \in 0 .. MaxEffort

IsOpen(h) == h.state \in {"recovering", "ready"}
Spend == spent < MaxEffort /\ spent' = spent + 1

\* A list that belongs to the present is being fetched.
Fetching(h, kinds) ==
    \E r \in h.lists : /\ r.kind \in kinds
                       /\ r.gen = IF r.kind = "recovery" THEN h.recoveryGen ELSE h.refreshGen

\* History: a move of the user or an error has overtaken a list, the reconciliation of the
\* chat selected was rejected, or the connection was ready before the first list with a chat
\* that the user had started.
Noted(h, what, overtakes) == IF overtakes THEN [h EXCEPT !.upset = @ \cup {what}] ELSE h
Moving(h) == Noted(h, "moves", Fetching(h, {"recovery"}))

(* The connection, as Home uses it.                                        *)

\* Faulty: an open recovery request is not waited for.
CompletedEarly(h) ==
    IF IsOpen(h) /\ h.snapshot THEN [h EXCEPT !.state = "ready", !.established = TRUE] ELSE h

\* completeRecoveryIfReady, and what Home does when the connection is ready.
Completed(h) ==
    IF IsOpen(h) /\ h.awaited = 0 /\ h.snapshot
      THEN [h EXCEPT !.state = "ready", !.established = TRUE] ELSE h

Finish(h) == Completed([h EXCEPT !.awaited = 0])
FailRecovery(h) == [h EXCEPT !.state = "failed"]

\* reconcileSelectedConversation.
Reconcile(h, gen) ==
    IF h.selected = "none" \/ h.state # "recovering" THEN h
    ELSE LET ask == [gen |-> gen, id |-> h.lastID + 1, chat |-> h.selected]
         IN  [h EXCEPT !.lastID = @ + 1, !.awaited = ask.id, !.ask = ask,
                       !.asks = @ \cup {ask}, !.recoveryGen = gen]

(* The selection.                                                          *)

Selected(h, c) ==
    Reconcile([h EXCEPT !.selected = c, !.saved = c, !.behind = h.state = "recovering"],
              h.recoveryGen)

\* closeConversation.
Closed(h) ==
    LET g == [h EXCEPT !.selected = "none", !.saved = "none", !.behind = FALSE,
                       !.recoveryGen = @ + 1]
    IN  IF h.state = "recovering" THEN Finish(g) ELSE g

\* restoreSelectedConversation.
Restored(h) ==
    IF h.saved \in h.listed THEN Selected(h, h.saved) ELSE [h EXCEPT !.saved = "none"]

(* Requests of the list.                                                   *)

Requested(h, kind, gen, left) ==
    [h EXCEPT !.lists = @ \cup {[kind |-> kind, gen |-> gen, left |-> left, mode |-> h.mode,
                                 proj |-> h.proj, at |-> "sent", has |-> {}, ver |-> 0]}]

WithoutPages(h) == [h EXCEPT !.lists = {r \in @ : r.kind # "page"}]

\* A retry after 250 ms.
Later(h, r) ==
    [h EXCEPT !.lists = @ \cup {[r EXCEPT !.at = "timer", !.left = @ - 1, !.has = {}, !.ver = 0]}]

\* Faulty: what is under way is not superseded.
RefreshedInPlace(h) == Requested([h EXCEPT !.snapLoading = TRUE], "refresh", h.refreshGen, Retries)

\* refreshConversations.
Refreshed(h) ==
    LET g == [WithoutPages(h) EXCEPT !.refreshGen = @ + 1, !.snapLoading = TRUE]
    IN  Requested(g, "refresh", g.refreshGen, Retries)

\* refreshConversationsForRecovery, but for its default generation.
RefreshedForRecovery(h, gen, left) ==
    LET g == IF left = Retries
               THEN [WithoutPages(h) EXCEPT !.refreshGen = @ + 1, !.snapLoading = TRUE] ELSE h
    IN  Requested(g, "recovery", gen, left)

\* completeInitialRecovery.
InitialCompleted(h) ==
    IF h.state # "recovering" \/ h.established \/ h.initial = "pending" THEN h
    ELSE IF h.initial = "failed" THEN FailRecovery(h)
    ELSE IF h.selected # "none" THEN Reconcile(h, h.recoveryGen) ELSE Finish(h)

\* The list that came replaces the one that is shown.
Shown(h, r) ==
    [h EXCEPT !.listed = r.has, !.ver = r.ver, !.from = r.mode, !.cursor = r.ver, !.tail = 0,
              !.isLoading = FALSE, !.error = FALSE]

\* loadInitialConversations.
InitialCame(h, r) ==
    CASE r.gen # h.refreshGen -> h
      [] r.gen = h.refreshGen /\ r.proj # h.proj -> Requested(h, "initial", r.gen, r.left)
      [] r.gen = h.refreshGen /\ r.proj = h.proj /\ r.has = {} /\ r.left > 0 -> Later(h, r)
      [] OTHER -> InitialCompleted([Restored(Shown(h, r)) EXCEPT !.initial = "ready"])

InitialFailed(h, r) ==
    CASE r.gen # h.refreshGen -> h
      [] r.gen = h.refreshGen /\ r.left > 0 -> Later(h, r)
      [] OTHER -> [InitialCompleted([h EXCEPT !.initial = "failed"])
                     EXCEPT !.isLoading = FALSE, !.error = TRUE]

\* Faulty: the list of an earlier recovery is taken too.
RecoveryCameLate(h, r) ==
    IF r.has = {} /\ r.left > 0 THEN Later(h, r)
    ELSE LET g == Restored([Shown(h, r) EXCEPT !.snapLoading = FALSE])
         IN  IF g.selected = "none" THEN Finish(g)
             ELSE IF g.selected \in g.listed THEN Reconcile(g, r.gen)
             ELSE Finish(Closed(g))

\* refreshConversationsForRecovery.
RecoveryCame(h, r) ==
    CASE r.gen # h.recoveryGen \/ ~IsOpen(h) -> h
      [] r.gen = h.recoveryGen /\ IsOpen(h) /\ r.proj # h.proj ->
           RefreshedForRecovery(h, r.gen, r.left)
      [] r.gen = h.recoveryGen /\ IsOpen(h) /\ r.proj = h.proj /\ r.has = {} /\ r.left > 0 ->
           Later(h, r)
      [] OTHER ->
           LET g == Restored([Shown(h, r) EXCEPT !.snapLoading = FALSE])
           IN  IF g.selected = "none" THEN Finish(g)
               ELSE IF g.selected \in g.listed THEN Reconcile(g, r.gen)
               ELSE Finish(Closed(g))

RecoveryFailed(h, r) ==
    IF r.gen # h.recoveryGen THEN h
    ELSE LET g == [h EXCEPT !.snapLoading = @ /\ r.left # 0]
         IN  IF h.state = "recovering" THEN FailRecovery(g) ELSE g

\* Faulty: the chat selected stays when it is not listed any more.
RefreshCameAlone(h, r) ==
    IF r.gen # h.refreshGen THEN h ELSE [Shown(h, r) EXCEPT !.snapLoading = FALSE]

\* Faulty: the chat selected is closed before the list is looked at.
RefreshCameClosing(h, r) ==
    IF r.gen # h.refreshGen THEN h ELSE Closed([Shown(h, r) EXCEPT !.snapLoading = FALSE])

\* refreshConversationsAttempt: it does not touch the recovery, and closes a chat
\* that is not listed any more.
RefreshCame(h, r) ==
    CASE r.gen # h.refreshGen -> h
      [] r.gen = h.refreshGen /\ r.proj # h.proj -> Requested(h, "refresh", r.gen, r.left)
      [] OTHER ->
           LET g == [Shown(h, r) EXCEPT !.snapLoading = FALSE]
           IN  IF g.selected \in g.listed \cup {"none"} THEN g ELSE Closed(g)

\* Faulty: one retry too many.
RefreshFailedAgain(h, r) ==
    CASE r.gen # h.refreshGen -> h
      [] r.gen = h.refreshGen /\ r.left >= 0 -> Later(h, r)
      [] OTHER -> [h EXCEPT !.snapLoading = FALSE, !.isLoading = FALSE, !.error = TRUE]

RefreshFailed(h, r) ==
    CASE r.gen # h.refreshGen -> h
      [] r.gen = h.refreshGen /\ r.left > 0 -> Later(h, r)
      [] OTHER -> [h EXCEPT !.snapLoading = FALSE, !.isLoading = FALSE, !.error = TRUE]

\* loadMoreGroups: a page that is overtaken by a change of a group is lost, for the
\* request it would be repeated with is still under way.
PageCame(h, r) ==
    IF r.gen # h.refreshGen \/ r.proj # h.proj THEN h
    ELSE [h EXCEPT !.cursor = 0, !.tail = r.ver]

Came(h, r) ==
    CASE r.kind = "initial" -> InitialCame(h, r)
      [] r.kind = "recovery" -> RecoveryCame(h, r)
      [] r.kind = "refresh" -> RefreshCame(h, r)
      [] r.kind = "page" -> PageCame(h, r)

Failed(h, r) ==
    CASE r.kind = "initial" -> InitialFailed(h, r)
      [] r.kind = "recovery" -> RecoveryFailed(h, r)
      [] r.kind = "refresh" -> RefreshFailed(h, r)
      [] r.kind = "page" -> h

Without(h, r) == [h EXCEPT !.lists = @ \ {r}]

(* Home starts: whatever chat was selected in the last session.            *)

Fresh(saved) ==
    [state |-> "offline", snapshot |-> FALSE, awaited |-> 0,
     established |-> FALSE, initial |-> "pending", refreshGen |-> 1, recoveryGen |-> 0, proj |-> 0,
     mode |-> "active", isLoading |-> TRUE, snapLoading |-> FALSE, error |-> FALSE,
     listed |-> {}, ver |-> 0, gone |-> 0, from |-> "active", cursor |-> 0, tail |-> 0,
     selected |-> "none", saved |-> saved, behind |-> FALSE,
     ask |-> NoAsk, lastID |-> 0, asks |-> {}, pages |-> 0, lists |-> {}, moves |-> {}, upset |-> {}]

Init ==
    /\ w \in {Requested(Fresh(c), "initial", 1, Retries) : c \in ChatOrNone}
    /\ server \in [at : [Chats -> {"active", "nowhere"}], ver : {1}]
    /\ spent = 0

(* HTTP.                                                                   *)

ServerLists(r) ==
    /\ r.at = "sent"
    /\ LET ver == IF r.kind = "page" THEN r.ver ELSE server.ver
           has == {c \in Chats : server.at[c] = r.mode}
       IN  w' = [Without(w, r) EXCEPT !.lists = @ \cup
                   {[r EXCEPT !.at = "answered", !.has = has, !.ver = ver]}]
    /\ UNCHANGED <<server, spent>>

ListCame(r) ==
    /\ r.at = "answered"
    /\ w' = Came(Without(w, r), r)
    /\ UNCHANGED <<server, spent>>

ListFailed(r) ==
    /\ r.at = "sent" /\ Spend
    /\ w' = Failed(Noted(Without(w, r), "errors", r.kind = "recovery" /\ w.state # "recovering"), r)
    /\ UNCHANGED server

\* The timer of a retry, which makes the request of the function that set it.
TimerFires(r) ==
    /\ r.at = "timer"
    /\ w' = IF r.kind = "recovery" THEN RefreshedForRecovery(Without(w, r), r.gen, r.left)
                                   ELSE Requested(Without(w, r), r.kind, r.gen, r.left)
    /\ UNCHANGED <<server, spent>>

(* The connection.                                                         *)

Connect ==
    /\ w.state \in {"offline", "failed"}
    /\ w' = [w EXCEPT !.state = "connecting"]
    /\ UNCHANGED <<server, spent>>

\* Faulty: the request of the last opening is still waited for.
OpensWaiting ==
    /\ w.state = "connecting"
    /\ w' = LET h == [w EXCEPT !.state = "recovering", !.snapshot = FALSE,
                               !.asks = {}, !.pages = 0, !.behind = w.selected # "none"]
            IN  IF h.established
                  THEN RefreshedForRecovery([h EXCEPT !.recoveryGen = @ + 1],
                                            h.recoveryGen + 1, Retries)
                  ELSE InitialCompleted(h)
    /\ UNCHANGED <<server, spent>>

\* The connection opens: connectionStateChanges gives 'recovering'.
Opens ==
    /\ w.state = "connecting"
    /\ w' = LET h == [w EXCEPT !.state = "recovering", !.snapshot = FALSE, !.awaited = 0,
                               !.asks = {}, !.pages = 0, !.behind = w.selected # "none"]
            IN  IF h.established
                  THEN RefreshedForRecovery([h EXCEPT !.recoveryGen = @ + 1],
                                            h.recoveryGen + 1, Retries)
                  ELSE InitialCompleted(h)
    /\ UNCHANGED <<server, spent>>

Drop ==
    /\ IsOpen(w) /\ Spend
    /\ w' = [FailRecovery(w) EXCEPT !.asks = {}]
    /\ UNCHANGED server

PresenceSnapshot ==
    /\ IsOpen(w)
    /\ w' = Completed([Noted(w, "early", w.initial # "ready" /\ w.behind) EXCEPT !.snapshot = TRUE])
    /\ UNCHANGED <<server, spent>>

\* applyReconciliation, of the last page.
Applied(h, ask) ==
    IF h.ask.id # ask.id \/ h.ask.gen # h.recoveryGen \/ h.ask.chat # h.selected THEN h
    ELSE [h EXCEPT !.ask = NoAsk, !.behind = FALSE]

\* Faulty: Home has the reply and the connection does not notice.
ReconciledQuietly(ask) ==
    /\ ask \in w.asks /\ IsOpen(w)
    /\ w' = Applied([w EXCEPT !.asks = @ \ {ask}], ask)
    /\ UNCHANGED <<server, spent>>

\* The reply is given to Home first, and then closes the recovery.
Reconciled(ask) ==
    /\ ask \in w.asks /\ IsOpen(w)
    /\ w' = LET h == Applied([w EXCEPT !.asks = @ \ {ask}], ask)
            IN  IF ask.id = h.awaited THEN Finish(h) ELSE h
    /\ UNCHANGED <<server, spent>>

\* There are more pages: Home asks for the next one.
PageReconciled(ask) ==
    /\ ask \in w.asks /\ IsOpen(w) /\ w.pages < MaxPages
    /\ w' = LET h == [w EXCEPT !.asks = @ \ {ask}, !.pages = @ + 1]
            IN  IF h.ask.id # ask.id \/ h.ask.gen # h.recoveryGen \/ h.ask.chat # h.selected THEN h
                ELSE Reconcile([h EXCEPT !.ask = NoAsk], ask.gen)
    /\ UNCHANGED <<server, spent>>

\* The realtime service rejects it: Home asks for the newest page of the history, and the
\* recovery is over before that comes, or makes up for what a page does not hold.
ReconcileRejected(ask) ==
    /\ ask \in w.asks /\ IsOpen(w) /\ Spend
    /\ w' = LET mine == w.ask.id = ask.id
                h == [Noted(w, "rejected", mine) EXCEPT
                        !.asks = @ \ {ask}, !.ask = IF mine THEN NoAsk ELSE @]
            IN  IF ask.id = h.awaited THEN Finish(h) ELSE h
    /\ UNCHANGED server

(* The user and the peers.                                                 *)

Select(c) ==
    /\ c \in w.listed /\ c # w.selected /\ Spend
    /\ w' = Selected(w, c)
    /\ UNCHANGED server

Close ==
    /\ w.selected # "none" /\ Spend
    /\ w' = Closed(Moving(w))
    /\ UNCHANGED server

\* refreshChats; and retryConversationList, which a failed list offers.
RefreshChats ==
    /\ Spend
    /\ w' = LET h == Refreshed(Moving(w))
            IN  IF h.error THEN [h EXCEPT !.isLoading = TRUE, !.error = FALSE] ELSE h
    /\ UNCHANGED server

LoadMoreGroups ==
    /\ ~w.snapLoading /\ w.cursor # 0 /\ ~\E r \in w.lists : r.kind = "page"
    /\ Spend
    /\ w' = [w EXCEPT !.lists = @ \cup {[kind |-> "page", gen |-> w.refreshGen, left |-> 0,
               mode |-> w.mode, proj |-> w.proj, at |-> "sent", has |-> {}, ver |-> w.cursor]}]
    /\ UNCHANGED server

\* Faulty: a refresh of the other mode is still shown as loading.
InModeLoading(h, mode) ==
    IF h.mode = mode THEN h
    ELSE LET g == [WithoutPages(Closed([h EXCEPT !.mode = mode])) EXCEPT
                     !.listed = {}, !.ver = 0, !.gone = 0, !.from = mode, !.cursor = 0, !.tail = 0,
                     !.isLoading = TRUE, !.error = FALSE, !.refreshGen = @ + 1]
         IN  Requested(g, "initial", g.refreshGen, 0)

\* changeArchiveMode.
InMode(h, mode) ==
    IF h.mode = mode THEN h
    ELSE LET g == [WithoutPages(Closed([h EXCEPT !.mode = mode])) EXCEPT
                     !.listed = {}, !.ver = 0, !.gone = 0, !.from = mode, !.cursor = 0, !.tail = 0,
                     !.isLoading = TRUE, !.error = FALSE, !.snapLoading = FALSE,
                     !.refreshGen = @ + 1]
         IN  Requested(g, "initial", g.refreshGen, 0)

SetArchiveMode ==
    /\ Spend
    /\ w' = InMode(Moving(w), Other(w.mode))
    /\ UNCHANGED server

ToggleArchive(c) ==
    /\ c \in w.listed /\ ~\E m \in w.moves : m.chat = c /\ m.kind = "archive"
    /\ Spend
    /\ w' = [Noted(w, "moves", \E m \in w.moves : m.chat = c) EXCEPT
               !.moves = @ \cup {[kind |-> "archive", chat |-> c, mode |-> w.mode, ver |-> 0]}]
    /\ UNCHANGED server

\* startConversation with a user there is no chat with.
StartConversation(c) ==
    /\ server.at[c] = "nowhere" /\ ~\E m \in w.moves : m.chat = c
    /\ Spend
    /\ w' = [w EXCEPT !.moves = @ \cup {[kind |-> "create", chat |-> c, mode |-> w.mode, ver |-> 0]}]
    /\ UNCHANGED server

\* The chat service does it.
ServerMoves(m) ==
    /\ m.ver = 0
    /\ LET to == IF m.kind = "create" THEN "active" ELSE Other(m.mode)
       IN  server' = [at |-> [server.at EXCEPT ![m.chat] = to], ver |-> server.ver + 1]
    /\ w' = [w EXCEPT !.moves = (@ \ {m}) \cup {[m EXCEPT !.ver = server.ver + 1]}]
    /\ UNCHANGED spent

\* Faulty: a chat that was archived is taken out of the list alone.
ArchivedPlainly(h, m) ==
    LET g == IF h.selected = m.chat THEN Closed(h) ELSE h
    IN  IF h.mode # m.mode THEN Refreshed(g)
        ELSE [g EXCEPT !.listed = @ \ {m.chat}, !.gone = m.ver,
                       !.snapLoading = FALSE, !.isLoading = FALSE]

Archived(h, m) ==
    LET g == IF h.selected = m.chat THEN Closed(h) ELSE h
    IN  IF h.mode # m.mode THEN Refreshed(g)
        ELSE [WithoutPages(g) EXCEPT !.refreshGen = @ + 1, !.listed = @ \ {m.chat}, !.gone = m.ver,
                                     !.snapLoading = FALSE, !.isLoading = FALSE]

\* A chat is created while archived ones are shown, or a list from before is taken.
Elsewhere(m) == w.mode # "active" \/ \E r \in w.lists : r.ver < m.ver /\ r.at # "sent"

MoveAnswered(m) ==
    /\ m.ver # 0
    /\ w' = LET h == [w EXCEPT !.moves = @ \ {m}]
            IN  IF m.kind = "archive" THEN Archived(Moving(h), m)
                ELSE Selected([Noted(h, "moves", Elsewhere(m)) EXCEPT !.listed = @ \cup {m.chat}],
                              m.chat)
    /\ UNCHANGED <<server, spent>>

ArchiveFails(m) ==
    /\ m.ver = 0 /\ m.kind = "archive" /\ Spend
    /\ w' = InMode(Moving([w EXCEPT !.moves = @ \ {m}]), m.mode)
    /\ UNCHANGED server

\* A peer creates a chat: conversation.created, unless the connection is down.
PeerCreates(c) ==
    /\ server.at[c] = "nowhere" /\ ~\E m \in w.moves : m.chat = c
    /\ Spend
    /\ server' = [at |-> [server.at EXCEPT ![c] = "active"], ver |-> server.ver + 1]
    /\ w' \in {w} \cup (IF IsOpen(w) THEN {Refreshed(Moving(w))} ELSE {})

\* The groups that may be shown change: projectionGeneration.
ProjectionChanges ==
    /\ w.proj = 0 /\ Spend
    /\ w' = [w EXCEPT !.proj = 1]
    /\ UNCHANGED server

Next ==
    \/ \E r \in w.lists : ServerLists(r)
    \/ \E r \in w.lists : ListCame(r)
    \/ \E r \in w.lists : ListFailed(r)
    \/ \E r \in w.lists : TimerFires(r)
    \/ Connect \/ Opens \/ Drop \/ PresenceSnapshot
    \/ \E ask \in w.asks : Reconciled(ask)
    \/ \E ask \in w.asks : PageReconciled(ask)
    \/ \E ask \in w.asks : ReconcileRejected(ask)
    \/ \E c \in Chats : Select(c)
    \/ \E c \in Chats : ToggleArchive(c)
    \/ \E c \in Chats : StartConversation(c)
    \/ \E c \in Chats : PeerCreates(c)
    \/ Close \/ RefreshChats \/ LoadMoreGroups \/ SetArchiveMode \/ ProjectionChanges
    \/ \E m \in w.moves : ServerMoves(m)
    \/ \E m \in w.moves : MoveAnswered(m)
    \/ \E m \in w.moves : ArchiveFails(m)

Spec == Init /\ [][Next]_vars

\* Requests are answered, timers fire, the connection is opened again and the
\* realtime service answers; nobody has to fail or to move.
ListsGoOn == \E r \in w.lists : ServerLists(r) \/ ListCame(r) \/ TimerFires(r)
Reconnects == Connect \/ Opens
LiveSpec ==
    /\ Spec
    /\ WF_vars(ListsGoOn)
    /\ WF_vars(Reconnects)
    /\ WF_vars(PresenceSnapshot)
    /\ WF_vars(\E ask \in w.asks : Reconciled(ask))

(* Properties.                                                             *)

\* What is listed was asked for in the mode that is shown: no list, retry, page or
\* failed action of the other mode gets there.
ListIsOfMode == w.listed # {} => w.from = w.mode

\* A recovery waits only for a reply that is on its way, so it cannot wait for ever.
RecoveryIsAnswered ==
    w.state = "recovering" /\ w.awaited # 0 => \E ask \in w.asks : ask.id = w.awaited

\* The chat selected is one of the list, unless the user is just archiving it: none
\* of the three ways in which a list comes leaves a chat selected that it omits.
SelectedIsListed ==
    "moves" \notin w.upset =>
       w.selected = "none" \/ w.selected \in w.listed \/ \E m \in w.moves : m.chat = w.selected

\* Whatever says "loading" is waiting for something: a request or a retry of the
\* present, or the next opening of the connection.
LoadingIsOwned ==
    w.upset \cap {"moves", "errors"} = {} =>
       /\ w.isLoading =>
             Fetching(w, {"initial", "refresh", "recovery"}) \/ (w.established /\ ~IsOpen(w))
       /\ w.snapLoading => Fetching(w, {"refresh", "recovery"}) \/ (w.established /\ ~IsOpen(w))

\* A list that was answered earlier does not replace a later one, nor what the user
\* has archived meanwhile.
NewestListWins ==
    "moves" \notin w'.upset /\ w'.mode = w.mode /\ w'.ver # w.ver =>
       w'.ver > w.ver /\ w'.ver >= w.gone

\* A page is shown below the list it continues.
PageContinuesList == "moves" \notin w.upset /\ w.tail # 0 => w.tail = w.ver

\* While the connection is ready, the chat selected was reconciled or opened anew since it
\* was lost, or the list of this recovery, which opens it anew, is still to come, as it is
\* when the presence snapshot comes first. Three things leave the chat as it is: a list that
\* fails then, a reconciliation that is rejected, and a chat the user has started that the
\* first list is too late or too old for.
ReadyIsCaughtUp ==
    w.upset \cap {"errors", "rejected", "early"} = {} /\ w.saved # "none" /\ w.state = "ready" =>
       ~w.behind \/ Fetching(w, {"recovery"})

\* A chat the user has just started stays selected until the user moves on.
StartedStaysOpen ==
    \A r \in w.lists : w'.lists = w.lists \ {r} /\ "moves" \notin w'.upset /\ w.selected # "none"
       /\ server.at[w.selected] = w.mode => w'.selected = w.selected

\* A recovery is over in the end.
RecoveryEnds == w.state = "recovering" ~> w.state # "recovering"
=============================================================================
