---------------------------- MODULE HomeMessages ----------------------------
(***************************************************************************)
(* The messages of the chat that is selected, in home.component.ts: what   *)
(* the user sends and its acknowledgement, timeout, rejection and replay,  *)
(* the pages of history, the pages of a reconciliation, and the messages   *)
(* the socket brings. A recovery fetches the list of chats, selects the    *)
(* chat again and reconciles it, as module HomeSync has it in full; here   *)
(* the presence snapshot comes last, and some chat is always selected.     *)
(***************************************************************************)
EXTENDS Integers, Sequences, FiniteSets, SequencesExt

CONSTANTS
    Chats,          \* direct conversations
    Mine,           \* client ids of what the user may write, on this device only
    Theirs,         \* messages of the peers
    Page,           \* messages in a page of history or of a reconciliation
    MaxEffort,      \* faults and moves of the user, see Spend
    Rejects         \* whether the service rejects a request: its rate limit

HomeMessagesAssumption ==
    /\ IsFiniteSet(Chats) /\ IsFiniteSet(Mine) /\ IsFiniteSet(Theirs)
    /\ Mine \cap Theirs = {}
    /\ Page \in Nat \ {0} /\ MaxEffort \in Nat /\ Rejects \in BOOLEAN

VARIABLES
    w,          \* Home, its connection and what is on its way, see World
    log,        \* the messages of each chat in the order of their sequences
    awaited,    \* messages of the peers with a delivery row for this device
    spent       \* of MaxEffort

vars == <<w, log, awaited, spent>>

Ids == Mine \cup Theirs

\* A message as Home shows it; its sequence is 0 until it is known to be stored.
Message == [id : Ids, seq : Nat, pending : BOOLEAN, uncertain : BOOLEAN]

\* A message.send, named by its message and by how often that was sent before, and
\* whether the connection it was made on is still open.
Request == [id : Mine, try : Nat, chat : Chats, live : BOOLEAN]

\* message.accepted, message.rejected or message.created.
Event == [kind : {"accepted", "rejected", "created"}, id : Ids, try : Nat, seq : Nat, chat : Chats]

\* A request for a page of history: "before" is the cursor, 0 for the newest.
Load == [id : Nat, chat : Chats, before : Nat, at : {"sent", "answered"},
         msgs : Seq(Message), next : Nat]

\* A conversation.reconcile on its way there and back.
Ask == [id : Nat, chat : Chats, after : Nat, at : {"sent", "answered"},
        msgs : Seq(Message), more : BOOLEAN]

World ==
    [state : {"offline", "recovering", "ready"}, established : BOOLEAN,
     listing : BOOLEAN,          \* the list of a recovery has not come yet
     selected : Chats, view : Seq(Message),
     cursor : Nat, loading : BOOLEAN, loadID : Nat, loads : SUBSET Load,
     askID : Nat, asking : BOOLEAN, asks : SUBSET Ask,
     cut : BOOLEAN,              \* history: a reconciliation of the selection was rejected
     tries : [Mine -> 0 .. MaxEffort + 1],
     pend : SUBSET (Mine \X Nat), \* pendingRequests, each with its timer
     net : SUBSET Request, inbox : SUBSET Event]

TypeOK ==
    /\ w \in World
    /\ log \in [Chats -> Seq(Ids)]
    /\ awaited \subseteq Theirs
    /\ spent \in 0 .. MaxEffort

Spend == spent < MaxEffort /\ spent' = spent + 1
Shown(h) == {h.view[i] : i \in 1 .. Len(h.view)}

\* toMessage of the messages first .. last of chat c.
Stored(c, first, last) ==
    [i \in 1 .. last - first + 1 |-> [id |-> log[c][first + i - 1], seq |-> first + i - 1,
                                      pending |-> FALSE, uncertain |-> FALSE]]

(* What Home does with messages.                                           *)

\* What s has at the places, by their keys, and as in s where these are equal.
Arranged(s, places, key) ==
    LET Before(i, j) == key[i] < key[j] \/ (key[i] = key[j] /\ i < j)
    IN  [k \in 1 .. Cardinality(places) |->
            s[CHOOSE i \in places : Cardinality({j \in places : Before(j, i)}) = k - 1]]

\* mergeHistoryMessages: what is shown and not in the page stays, and what is not
\* stored comes last.
Merged(view, page) ==
    LET known == {page[i].id : i \in DOMAIN page}
        all == page \o view
        seqs == [i \in DOMAIN all |-> all[i].seq]
        kept == {i \in DOMAIN all : i > Len(page) => all[i].id \notin known}
    IN  Arranged(all, {i \in kept : seqs[i] > 0}, seqs)
          \o Arranged(all, {i \in kept : seqs[i] = 0}, seqs)

\* The view without what has the id.
Without(view, id) ==
    Arranged(view, {i \in DOMAIN view : view[i].id # id}, [i \in DOMAIN view |-> i])

\* The messages of h with id m, changed by F.
Mapped(h, ids, F(_)) ==
    [h EXCEPT !.view = [i \in DOMAIN @ |-> IF @[i].id \in ids THEN F(@[i]) ELSE @[i]]]

\* loadHistory.
Loaded(h, before) ==
    [h EXCEPT !.loadID = @ + 1, !.loading = TRUE,
              !.loads = @ \cup {[id |-> h.loadID + 1, chat |-> h.selected, before |-> before,
                                 at |-> "sent", msgs |-> <<>>, next |-> 0]}]

\* reconcileSelectedConversation.
Reconcile(h, after) ==
    IF h.state # "recovering" THEN h
    ELSE [h EXCEPT !.askID = @ + 1, !.asking = TRUE,
                   !.asks = @ \cup {[id |-> h.askID + 1, chat |-> h.selected, after |-> after,
                                     at |-> "sent", msgs |-> <<>>, more |-> FALSE]}]

\* selectConversationInternal.
Selected(h, c) ==
    Reconcile(Loaded([h EXCEPT !.selected = c, !.view = <<>>, !.cursor = 0, !.cut = FALSE], 0), 0)

\* The cursor a reconciliation starts from.
Newest(h) ==
    LET seqs == {m.seq : m \in {n \in Shown(h) : ~n.pending}} \cup {0}
    IN  CHOOSE s \in seqs : \A t \in seqs : t <= s

\* Requests for the messages ids, each with a timer of its own.
Sent(h, ids) ==
    [h EXCEPT !.tries = [m \in Mine |-> IF m \in ids THEN @[m] + 1 ELSE @[m]],
              !.pend = @ \cup {<<m, h.tries[m] + 1>> : m \in ids},
              !.net = @ \cup {[id |-> m, try |-> h.tries[m] + 1, chat |-> h.selected,
                               live |-> TRUE] : m \in ids}]

\* Faulty: what is pending is replayed too.
ReplayedAll(h) ==
    LET ids == {m.id : m \in {n \in Shown(h) : n.id \in Mine /\ n.uncertain}}
    IN  Mapped(Sent(h, ids), ids, LAMBDA m : [m EXCEPT !.pending = TRUE])

\* Faulty: the replay is not entered in pendingRequests.
ReplayedUntimed(h) ==
    LET ids == {m.id : m \in {n \in Shown(h) : n.id \in Mine /\ n.uncertain /\ ~n.pending}}
    IN  [Mapped(Sent(h, ids), ids, LAMBDA m : [m EXCEPT !.pending = TRUE]) EXCEPT !.pend = h.pend]

\* replayUncertainMessages.
Replayed(h) ==
    LET ids == {m.id : m \in {n \in Shown(h) : n.id \in Mine /\ n.uncertain /\ ~n.pending}}
    IN  Mapped(Sent(h, ids), ids, LAMBDA m : [m EXCEPT !.pending = TRUE])

\* Faulty: a message that is shown already is added again.
ArrivedTwice(h, e) ==
    LET m == [id |-> e.id, seq |-> e.seq, pending |-> FALSE, uncertain |-> FALSE]
    IN  IF e.id \in Mine /\ \E n \in Shown(h) : n.id = e.id THEN Mapped(h, {e.id}, LAMBDA n : m)
        ELSE [h EXCEPT !.view = Append(@, m)]

\* handleSocketEvent with a message of the chat selected: an own message takes the
\* place of the pending one.
Arrived(h, e) ==
    LET m == [id |-> e.id, seq |-> e.seq, pending |-> FALSE, uncertain |-> FALSE]
        known == \E n \in Shown(h) : n.id = e.id
    IN  CASE e.id \in Mine /\ known -> Mapped(h, {e.id}, LAMBDA n : m)
          [] e.id \notin Mine /\ known -> h
          [] ~known -> [h EXCEPT !.view = Append(@, m)]

(* Home starts: a chat is restored from the last session, and its history  *)
(* asked for.                                                              *)

Fresh(c) ==
    [state |-> "offline", established |-> FALSE, listing |-> FALSE, selected |-> c, view |-> <<>>,
     cursor |-> 0, loading |-> FALSE, loadID |-> 0, loads |-> {}, askID |-> 0, asking |-> FALSE,
     asks |-> {}, cut |-> FALSE, tries |-> [m \in Mine |-> 0], pend |-> {}, net |-> {}, inbox |-> {}]

Init ==
    /\ w \in {Selected(Fresh(c), c) : c \in Chats}
    /\ log = [c \in Chats |-> <<>>]
    /\ awaited = {}
    /\ spent = 0

(* The user.                                                               *)

\* sendMessage. The request is on its way while the connection is open.
SendMessage(m) ==
    /\ w.state = "ready" /\ w.tries[m] = 0
    /\ w' = [Sent(w, {m}) EXCEPT !.view = Append(@, [id |-> m, seq |-> 0, pending |-> TRUE,
                                                     uncertain |-> FALSE])]
    /\ UNCHANGED <<log, awaited, spent>>

\* selectConversation.
SelectConversation(c) ==
    /\ c # w.selected /\ Spend
    /\ w' = Selected(w, c)
    /\ UNCHANGED <<log, awaited>>

LoadOlderMessages ==
    /\ w.cursor # 0 /\ ~w.loading
    /\ w' = Loaded(w, w.cursor)
    /\ UNCHANGED <<log, awaited, spent>>

(* The connection.                                                         *)

\* The connection opens: the first time the chat is reconciled at once, later on when
\* the list has come.
Opens ==
    /\ w.state = "offline"
    /\ w' = LET h == [w EXCEPT !.state = "recovering"]
            IN  IF h.established THEN [h EXCEPT !.listing = TRUE] ELSE Reconcile(h, Newest(h))
    /\ UNCHANGED <<log, awaited, spent>>

\* refreshConversationsForRecovery selects the chat of the last selection again.
ListCame ==
    /\ w.listing
    /\ w' = [Selected(w, w.selected) EXCEPT !.listing = FALSE]
    /\ UNCHANGED <<log, awaited, spent>>

\* The presence snapshot of an opening whose reconciliation is over.
Ready ==
    /\ w.state = "recovering" /\ ~w.listing /\ ~w.asking
    /\ w' = Replayed([w EXCEPT !.state = "ready", !.established = TRUE])
    /\ UNCHANGED <<log, awaited, spent>>

\* A later snapshot, of a presence.refresh, gives 'ready' again.
ReadyAgain ==
    /\ w.state = "ready"
    /\ w' = Replayed(w)
    /\ UNCHANGED <<log, awaited, spent>>

\* What was on its way here is lost, and so are the answers to what is on its way.
Drop ==
    /\ w.state # "offline" /\ Spend
    /\ w' = [w EXCEPT !.state = "offline", !.listing = FALSE, !.asking = FALSE, !.asks = {},
                      !.inbox = {}, !.net = {[r EXCEPT !.live = FALSE] : r \in @}]
    /\ UNCHANGED <<log, awaited>>

(* The services.                                                           *)

Position(c, m) == IF \E i \in DOMAIN log[c] : log[c][i] = m
                    THEN CHOOSE i \in DOMAIN log[c] : log[c][i] = m ELSE Len(log[c]) + 1

\* A client id is stored once, and accepted whenever it comes.
ServerAccepts(r) ==
    /\ log' = [log EXCEPT ![r.chat] = IF Position(r.chat, r.id) <= Len(@) THEN @
                                      ELSE Append(@, r.id)]
    /\ w' = [w EXCEPT !.net = @ \ {r},
                      !.inbox = @ \cup (IF r.live
                         THEN {[kind |-> "accepted", id |-> r.id, try |-> r.try,
                                seq |-> Position(r.chat, r.id), chat |-> r.chat]} ELSE {})]
    /\ UNCHANGED <<awaited, spent>>

\* The rate limit comes before the client id is looked up.
ServerRejects(r) ==
    /\ Rejects /\ r.live /\ Spend
    /\ w' = [w EXCEPT !.net = @ \ {r},
                      !.inbox = @ \cup {[kind |-> "rejected", id |-> r.id, try |-> r.try,
                                         seq |-> 0, chat |-> r.chat]}]
    /\ UNCHANGED <<log, awaited>>

PeerSends(c, m) ==
    /\ \A d \in Chats : m \notin Range(log[d])
    /\ log' = [log EXCEPT ![c] = Append(@, m)]
    /\ awaited' = awaited \cup {m}
    /\ UNCHANGED <<w, spent>>

\* message.created, live or as a replay. One that is handed out and not marked in time
\* is handed out again.
Deliver(c, m) ==
    /\ w.state # "offline" /\ m \in awaited \cap Range(log[c])
    /\ w' = [w EXCEPT !.inbox = @ \cup {[kind |-> "created", id |-> m, try |-> 0,
                                         seq |-> Position(c, m), chat |-> c]}]
    /\ \/ awaited' = awaited \ {m} /\ UNCHANGED spent
       \/ awaited' = awaited /\ Spend
    /\ UNCHANGED log

\* The newest messages before the cursor.
ServerLoads(l) ==
    /\ l.at = "sent"
    /\ LET last == IF l.before = 0 THEN Len(log[l.chat]) ELSE l.before - 1
           first == IF last > Page THEN last - Page + 1 ELSE 1
       IN  w' = [w EXCEPT !.loads = (@ \ {l}) \cup
                   {[l EXCEPT !.at = "answered", !.msgs = Stored(l.chat, first, last),
                              !.next = IF first > 1 THEN first ELSE 0]}]
    /\ UNCHANGED <<log, awaited, spent>>

\* The oldest messages after the cursor.
ServerReconciles(a) ==
    /\ a.at = "sent"
    /\ LET last == IF Len(log[a.chat]) > a.after + Page THEN a.after + Page ELSE Len(log[a.chat])
       IN  w' = [w EXCEPT !.asks = (@ \ {a}) \cup
                   {[a EXCEPT !.at = "answered", !.msgs = Stored(a.chat, a.after + 1, last),
                              !.more = last < Len(log[a.chat])]}]
    /\ UNCHANGED <<log, awaited, spent>>

(* What comes back.                                                        *)

\* Faulty: isCurrentHistoryLoad looks at nothing.
IsAnyLoad(l) == TRUE

\* isCurrentHistoryLoad.
IsCurrentLoad(l) == l.id = w.loadID /\ l.chat = w.selected

HistoryCame(l) ==
    /\ l.at = "answered"
    /\ w' = LET h == [w EXCEPT !.loads = @ \ {l}]
            IN  IF IsCurrentLoad(l)
                  THEN [h EXCEPT !.view = Merged(@, l.msgs), !.cursor = l.next, !.loading = FALSE]
                  ELSE h
    /\ UNCHANGED <<log, awaited, spent>>

HistoryFails(l) ==
    /\ l.at = "sent" /\ Spend
    /\ w' = [w EXCEPT !.loads = @ \ {l}, !.loading = @ /\ ~IsCurrentLoad(l)]
    /\ UNCHANGED <<log, awaited>>

\* Faulty: the first page is taken for all of them.
ReconciledOnce(a) ==
    /\ a.at = "answered"
    /\ w' = IF a.id # w.askID \/ ~w.asking THEN [w EXCEPT !.asks = @ \ {a}]
            ELSE [w EXCEPT !.asks = @ \ {a}, !.asking = FALSE, !.view = Merged(@, a.msgs),
                           !.cursor = IF a.more THEN a.after + Page ELSE 0]
    /\ UNCHANGED <<log, awaited, spent>>

\* applyReconciliation, which asks for the next page.
Reconciled(a) ==
    /\ a.at = "answered"
    /\ w' = LET h == [w EXCEPT !.asks = @ \ {a}]
                g == [h EXCEPT !.asking = FALSE, !.view = Merged(@, a.msgs),
                               !.cursor = IF a.more THEN a.after + Page ELSE 0]
            IN  CASE a.id # w.askID \/ ~w.asking -> h
                  [] a.id = w.askID /\ w.asking /\ a.more -> Reconcile(g, a.after + Page)
                  [] OTHER -> g
    /\ UNCHANGED <<log, awaited, spent>>

\* message.rejected for a reconciliation: history is loaded instead.
ReconcileRejected(a) ==
    /\ Rejects /\ a.at = "sent" /\ a.id = w.askID /\ w.asking /\ Spend
    /\ w' = Loaded([w EXCEPT !.asks = @ \ {a}, !.asking = FALSE, !.cut = TRUE], 0)
    /\ UNCHANGED <<log, awaited>>

\* message.accepted and message.created; what is not of the chat selected only counts
\* for the list. resolvePendingMessage comes first.
MessageCame(e) ==
    /\ e.kind # "rejected"
    /\ w' = LET h == [w EXCEPT !.inbox = @ \ {e}, !.pend = @ \ {<<e.id, e.try>>}]
            IN  IF e.chat = h.selected THEN Arrived(h, e) ELSE h
    /\ UNCHANGED <<log, awaited, spent>>

\* rejectPendingMessage.
MessageRejected(e) ==
    /\ e.kind = "rejected"
    /\ w' = IF <<e.id, e.try>> \in w.pend
              THEN [w EXCEPT !.inbox = @ \ {e}, !.pend = @ \ {<<e.id, e.try>>},
                             !.view = Without(@, e.id)]
              ELSE [w EXCEPT !.inbox = @ \ {e}]
    /\ UNCHANGED <<log, awaited, spent>>

\* markMessageUncertain, ten seconds after the request.
TimesOut(p) ==
    /\ Spend
    /\ w' = Mapped([w EXCEPT !.pend = @ \ {p}], {p[1]},
                   LAMBDA m : [m EXCEPT !.pending = FALSE, !.uncertain = TRUE])
    /\ UNCHANGED <<log, awaited>>

Next ==
    \/ \E m \in Mine : SendMessage(m)
    \/ \E c \in Chats : SelectConversation(c)
    \/ LoadOlderMessages \/ Opens \/ ListCame \/ Ready \/ ReadyAgain \/ Drop
    \/ \E r \in w.net : ServerAccepts(r)
    \/ \E r \in w.net : ServerRejects(r)
    \/ \E c \in Chats, m \in Theirs : PeerSends(c, m)
    \/ \E c \in Chats, m \in Theirs : Deliver(c, m)
    \/ \E l \in w.loads : ServerLoads(l)
    \/ \E l \in w.loads : HistoryCame(l)
    \/ \E l \in w.loads : HistoryFails(l)
    \/ \E a \in w.asks : ServerReconciles(a)
    \/ \E a \in w.asks : Reconciled(a)
    \/ \E a \in w.asks : ReconcileRejected(a)
    \/ \E e \in w.inbox : MessageCame(e)
    \/ \E e \in w.inbox : MessageRejected(e)
    \/ \E p \in w.pend : TimesOut(p)

Spec == Init /\ [][Next]_vars

(* Properties.                                                             *)

\* No message is shown twice, however its acknowledgement, a page of history, a page of
\* a reconciliation and a repeated delivery of it interleave.
ShownOnce == \A i, j \in DOMAIN w.view : w.view[i].id = w.view[j].id => i = j

\* What is shown belongs to the chat selected, and where it is stored: no answer that
\* was overtaken by a change of the chat gets into the view.
ViewIsOfChat ==
    \A m \in Shown(w) :
        /\ m.seq # 0 => m.seq \in DOMAIN log[w.selected] /\ log[w.selected][m.seq] = m.id
        /\ \A c \in Chats \ {w.selected} : m.id \notin Range(log[c])

\* "Sending" is shown only while a timer will end it.
PendingIsTimed ==
    \A m \in Shown(w) : m.pending => \E p \in w.pend : p[1] = m.id

\* When a lost connection is ready again, every message of a peer in the chat selected is
\* shown or on its way, whatever was delivered to the socket that died, unless a
\* reconciliation of the chat was rejected.
RecoveryIsComplete ==
    w.state = "recovering" /\ w.established /\ w'.state = "ready" =>
       \/ w.cut
       \/ \A x \in Theirs \cap Range(log[w.selected]) :
             \/ \E m \in Shown(w') : m.id = x
             \/ x \in awaited
             \/ \E e \in w.inbox : e.id = x
=============================================================================
