------------------------------ MODULE HomeReads ------------------------------
(***************************************************************************)
(* What Home takes for read and unread, in home.component.ts: the badge of *)
(* each chat, the read cursor it reports, the cursors it is told of, and   *)
(* the call surface that covers the messages of a chat. Of the messages    *)
(* shown only the newest sequence matters here; how they get there is in   *)
(* module HomeMessages. All messages are of the peers of direct chats.     *)
(***************************************************************************)
EXTENDS Integers, FiniteSets

CONSTANTS
    Chats,          \* direct conversations, all of them listed
    MaxSeq,         \* messages in a chat
    MaxEffort,      \* moves of the user, the peers' devices and the faults
    Others,         \* whether another device of the user reads as well
    Calls           \* whether a call covers a chat

HomeReadsAssumption ==
    /\ IsFiniteSet(Chats) /\ "none" \notin Chats /\ {MaxSeq, MaxEffort} \subseteq Nat
    /\ {Others, Calls} \subseteq BOOLEAN

VARIABLES
    w,          \* Home and what is on its way, see World
    server,     \* messages, cursors and delivery rows
    alone,      \* no other device has read, and no call has begun
    spent       \* of MaxEffort

vars == <<w, server, alone, spent>>

Seqs == 0 .. MaxSeq
ChatOrNone == Chats \cup {"none"}

\* A read cursor or a message on its way here.
Event == [kind : {"created", "ownRead", "peerRead"}, chat : Chats, seq : 1 .. MaxSeq]

\* A page of history or a reconciliation of the chat selected.
PageState == [at : {"none", "sent", "answered"}, last : Seqs, own : Seqs, peer : Seqs]
NoPage == [at |-> "none", last |-> 0, own |-> 0, peer |-> 0]
Asked == [NoPage EXCEPT !.at = "sent"]

\* The list of chats that a recovery asks for, and the one the user or a new conversation
\* does: the unread counts the server has found for each.
Lists == {"recovery", "refresh"}
ListState == [at : {"none", "sent", "answered"}, unread : [Chats -> Nat]]
NoList == [at |-> "none", unread |-> [c \in Chats |-> 0]]
ListAsked == [NoList EXCEPT !.at = "sent"]

World ==
    [state : {"offline", "recovering", "ready"}, established : BOOLEAN,
     lists : [Lists -> ListState], selected : ChatOrNone, shown : Seqs, load : PageState, ask : PageState,
     call : ChatOrNone, minimized : BOOLEAN,
     covered : SUBSET Seqs,     \* came under the call surface, which is still there
     late : SUBSET Chats,       \* have a badge of a list that came after all was read, or one
                                \* that the list of a recovery would have ended
     unread : [Chats -> Nat], ownRead : [Chats -> Seqs], peerRead : [Chats -> Seqs],
     net : SUBSET (Chats \X (1 .. MaxSeq)), inbox : SUBSET Event]

TypeOK ==
    /\ w \in World
    /\ server \in [sent : [Chats -> Seqs], own : [Chats -> Seqs], peer : [Chats -> Seqs],
                   awaited : [Chats -> SUBSET Seqs]]
    /\ alone \in BOOLEAN /\ spent \in 0 .. MaxEffort

Spend == spent < MaxEffort /\ spent' = spent + 1
Larger(i, j) == IF i > j THEN i ELSE j
Unread(c) == server.sent[c] - server.own[c]

(* What Home does.                                                         *)

\* isCallSurfaceVisible.
Covers(h) == h.call # "none" /\ ~h.minimized

\* clearConversationUnreadCount.
Cleared(h, c) == [h EXCEPT !.unread[c] = 0, !.late = @ \ {c}]

\* Of these badges those without a message that was not read.
Causeless(counts) == {c \in Chats : counts[c] > 0 /\ Unread(c) = 0}

\* The badges of a list that has come.
Listed(h, k) ==
    [h EXCEPT !.lists[k] = NoList, !.unread = h.lists[k].unread,
              !.late = Causeless(h.lists[k].unread)]

\* Faulty: a chat without messages is marked read too.
CanMarkEmpty(h) == h.state = "ready" /\ h.selected # "none"

\* What markSelectedConversationRead returns.
CanMark(h) == h.state = "ready" /\ h.selected # "none" /\ h.shown > 0

\* markSelectedConversationRead.
Marked(h) ==
    IF ~CanMark(h) THEN h
    ELSE [h EXCEPT !.net = @ \cup {<<h.selected, h.shown>>},
                   !.ownRead[h.selected] = Larger(@, h.shown)]

\* Where its success is followed by clearSelectedConversationUnreadCount.
MarkedAndCleared(h) == IF CanMark(h) THEN Cleared(Marked(h), h.selected) ELSE h

\* selectConversationInternal, as far as it goes here.
Selected(h, c) ==
    [h EXCEPT !.selected = c, !.shown = 0, !.load = Asked,
              !.ask = IF h.state = "recovering" THEN Asked ELSE @,
              !.covered = {}]

\* Faulty: what was read counts too.
BackgroundedAlways(h, e) == [h EXCEPT !.unread[e.chat] = @ + 1]

\* updateBackgroundConversationActivity.
Backgrounded(h, e) ==
    [h EXCEPT !.unread[e.chat] = @ + (IF e.seq > h.ownRead[e.chat] THEN 1 ELSE 0)]

\* message.created of the chat selected: under the call surface it counts as unread.
Arrived(h, e) ==
    LET g == [h EXCEPT !.shown = Larger(@, e.seq)]
    IN  IF Covers(h) /\ h.call = e.chat
          THEN [g EXCEPT !.unread[e.chat] = @ + 1, !.covered = @ \cup {e.seq}]
          ELSE Marked(g)

(* Home starts.                                                            *)

Init ==
    /\ server = [sent |-> [c \in Chats |-> 0], own |-> [c \in Chats |-> 0],
                 peer |-> [c \in Chats |-> 0], awaited |-> [c \in Chats |-> {}]]
    /\ w = [state |-> "offline", established |-> FALSE, lists |-> [k \in Lists |-> NoList],
            selected |-> "none", shown |-> 0, load |-> NoPage, ask |-> NoPage, call |-> "none",
            minimized |-> FALSE, covered |-> {}, late |-> {}, unread |-> [c \in Chats |-> 0], ownRead |-> [c \in Chats |-> 0],
            peerRead |-> [c \in Chats |-> 0], net |-> {}, inbox |-> {}]
    /\ alone = TRUE /\ spent = 0

(* The user.                                                               *)

SelectConversation(c) ==
    /\ c # w.selected /\ Spend
    /\ w' = [Selected(w, c) EXCEPT !.minimized = w.call # "none"]
    /\ UNCHANGED <<server, alone>>

\* A call of the chat selected begins.
CallBegins ==
    /\ Calls /\ w.call = "none" /\ w.selected # "none" /\ Spend
    /\ w' = [w EXCEPT !.call = w.selected, !.minimized = FALSE]
    /\ alone' = FALSE
    /\ UNCHANGED server

\* minimizeCall.
MinimizeCall ==
    /\ Covers(w)
    /\ w' = [MarkedAndCleared(w) EXCEPT !.minimized = TRUE, !.covered = {}]
    /\ UNCHANGED <<server, alone, spent>>

\* handleCallState, when the call is over.
CallEnds ==
    /\ w.call # "none"
    /\ w' = [MarkedAndCleared(w) EXCEPT !.call = "none", !.minimized = FALSE, !.covered = {}]
    /\ UNCHANGED <<server, alone, spent>>

(* The connection.                                                         *)

\* A connection that was lost asks for a list, and an older refresh of it is not awaited.
Opens ==
    /\ w.state = "offline"
    /\ w' = [w EXCEPT !.state = "recovering",
                      !.lists = IF w.established THEN [k \in Lists |-> IF k = "recovery"
                                                         THEN ListAsked ELSE NoList] ELSE @,
                      !.ask = IF ~w.established /\ w.selected # "none" THEN Asked ELSE NoPage]
    /\ UNCHANGED <<server, alone, spent>>

\* The list of a recovery selects the chat again, and reconciles it unless the connection
\* is ready: only a reconciliation on its way keeps it from that.
ListCame ==
    /\ w.lists["recovery"].at = "answered"
    /\ w' = LET h == Listed(w, "recovery")
            IN  IF h.selected = "none" THEN h
                ELSE [Selected(h, h.selected) EXCEPT !.covered = w.covered]
    /\ UNCHANGED <<server, alone, spent>>

\* refreshChats, and conversation.created.
RefreshChats ==
    /\ Spend
    /\ w' = [w EXCEPT !.lists["refresh"] = ListAsked]
    /\ UNCHANGED <<server, alone>>

RefreshCame ==
    /\ w.lists["refresh"].at = "answered"
    /\ w' = Listed(w, "refresh")
    /\ UNCHANGED <<server, alone, spent>>

\* A list that fails is given up, but for that of a recovery, which ends the connection.
ListFails(k) ==
    /\ w.lists[k].at # "none" /\ (k = "recovery" => w.state = "ready") /\ Spend
    /\ w' = [w EXCEPT !.lists[k] = NoList,
                      !.late = @ \cup (IF k = "recovery" THEN Causeless(w.unread) ELSE {})]
    /\ UNCHANGED <<server, alone>>

\* Faulty: nothing is marked read when the connection is ready.
ReadySilently ==
    /\ w.state = "recovering" /\ w.ask.at = "none"
    /\ w' = [w EXCEPT !.state = "ready", !.established = TRUE]
    /\ UNCHANGED <<server, alone, spent>>

Ready ==
    /\ w.state = "recovering" /\ w.ask.at = "none"
    /\ w' = MarkedAndCleared([w EXCEPT !.state = "ready", !.established = TRUE])
    /\ UNCHANGED <<server, alone, spent>>

\* A later presence snapshot gives 'ready' again.
ReadyAgain ==
    /\ w.state = "ready"
    /\ w' = MarkedAndCleared(w)
    /\ UNCHANGED <<server, alone, spent>>

Drop ==
    /\ w.state # "offline" /\ Spend
    /\ w' = [w EXCEPT !.state = "offline", !.lists["recovery"] = NoList, !.ask = NoPage,
                      !.net = {}, !.inbox = {}]
    /\ UNCHANGED <<server, alone>>

(* The services.                                                           *)

PeerSends(c) ==
    /\ server.sent[c] < MaxSeq
    /\ server' = [server EXCEPT !.sent[c] = @ + 1, !.awaited[c] = @ \cup {server.sent[c] + 1}]
    /\ UNCHANGED <<w, alone, spent>>

Deliver(c, s) ==
    /\ w.state # "offline" /\ s \in server.awaited[c]
    /\ server' = [server EXCEPT !.awaited[c] = @ \ {s}]
    /\ w' = [w EXCEPT !.inbox = @ \cup {[kind |-> "created", chat |-> c, seq |-> s]}]
    /\ UNCHANGED <<alone, spent>>

\* A cursor advances, and all devices of the reader and of the peer are told.
Advanced(h, c, s) ==
    IF h.state = "offline" THEN h
    ELSE [h EXCEPT !.inbox = @ \cup {[kind |-> "ownRead", chat |-> c, seq |-> s]}]

ServerReads(r) ==
    /\ server' = [server EXCEPT !.own[r[1]] = Larger(@, r[2])]
    /\ w' = Advanced([w EXCEPT !.net = @ \ {r}], r[1], server'.own[r[1]])
    /\ UNCHANGED <<alone, spent>>

OtherDeviceReads(c) ==
    /\ Others /\ server.own[c] < server.sent[c] /\ Spend
    /\ server' = [server EXCEPT !.own[c] = server.sent[c]]
    /\ w' = Advanced(w, c, server.sent[c])
    /\ alone' = FALSE

PeerReads(c) ==
    /\ server.peer[c] < server.sent[c] /\ Spend
    /\ server' = [server EXCEPT !.peer[c] = @ + 1]
    /\ w' = IF w.state = "offline" THEN w
            ELSE [w EXCEPT !.inbox = @ \cup {[kind |-> "peerRead", chat |-> c,
                                              seq |-> server.peer[c] + 1]}]
    /\ UNCHANGED alone

Answer(c) == [at |-> "answered", last |-> server.sent[c], own |-> server.own[c],
              peer |-> server.peer[c]]

ServerLists(k) ==
    /\ w.lists[k].at = "sent"
    /\ w' = [w EXCEPT !.lists[k] = [at |-> "answered", unread |-> [c \in Chats |-> Unread(c)]]]
    /\ UNCHANGED <<server, alone, spent>>

ServerLoads ==
    /\ w.load.at = "sent"
    /\ w' = [w EXCEPT !.load = Answer(w.selected)]
    /\ UNCHANGED <<server, alone, spent>>

ServerReconciles ==
    /\ w.ask.at = "sent"
    /\ w' = [w EXCEPT !.ask = Answer(w.selected)]
    /\ UNCHANGED <<server, alone, spent>>

(* What comes back.                                                        *)

\* loadHistory.
HistoryCame ==
    /\ w.load.at = "answered"
    /\ w' = MarkedAndCleared([w EXCEPT !.load = NoPage, !.shown = Larger(@, w.load.last)])
    /\ UNCHANGED <<server, alone, spent>>

\* applyReconciliation: the cursors are those of the answer.
Reconciled ==
    /\ w.ask.at = "answered"
    /\ w' = Cleared([w EXCEPT !.ask = NoPage, !.shown = Larger(@, w.ask.last),
                              !.ownRead[w.selected] = w.ask.own,
                              !.peerRead[w.selected] = w.ask.peer], w.selected)
    /\ UNCHANGED <<server, alone, spent>>

MessageCame(e) ==
    /\ e.kind = "created"
    /\ w' = LET h == [w EXCEPT !.inbox = @ \ {e}]
            IN  IF e.chat = w.selected THEN Arrived(h, e) ELSE Backgrounded(h, e)
    /\ UNCHANGED <<server, alone, spent>>

\* conversation.read: an own one clears the badge, whatever its sequence is.
ReadCame(e) ==
    /\ e.kind # "created"
    /\ w' = LET h == [w EXCEPT !.inbox = @ \ {e}]
            IN  IF e.kind = "ownRead"
                  THEN Cleared([h EXCEPT !.ownRead[e.chat] = Larger(@, e.seq)], e.chat)
                  ELSE [h EXCEPT !.peerRead[e.chat] = Larger(@, e.seq)]
    /\ UNCHANGED <<server, alone, spent>>

Next ==
    \/ \E c \in Chats : SelectConversation(c)
    \/ CallBegins \/ MinimizeCall \/ CallEnds
    \/ Opens \/ ListCame \/ RefreshChats \/ RefreshCame
    \/ \E k \in Lists : ListFails(k)
    \/ Ready \/ ReadyAgain \/ Drop
    \/ \E c \in Chats : PeerSends(c)
    \/ \E c \in Chats, s \in Seqs : Deliver(c, s)
    \/ \E r \in w.net : ServerReads(r)
    \/ \E c \in Chats : OtherDeviceReads(c)
    \/ \E c \in Chats : PeerReads(c)
    \/ \E k \in Lists : ServerLists(k)
    \/ ServerLoads \/ ServerReconciles \/ HistoryCame \/ Reconciled
    \/ \E e \in w.inbox : MessageCame(e)
    \/ \E e \in w.inbox : ReadCame(e)

Spec == Init /\ [][Next]_vars

(* Properties.                                                             *)

\* Nothing is on its way, and the connection has caught up.
Quiet ==
    /\ w.state = "ready" /\ w.net = {} /\ w.inbox = {} /\ w.load.at = "none"
    /\ \A k \in Lists : w.lists[k].at = "none"
    /\ \A c \in Chats : server.awaited[c] = {}

\* No badge is left over: once all is quiet a chat with a badge has a message that no
\* device of the user has read. (Messages that come under a call, or after another device
\* has read them, count until the next list; a list that is read before a cursor advances and
\* comes after the event of it, or one that a recovery asked for and did not get, leaves a
\* badge until the next cursor or list.)
BadgeHasCause == alone /\ Quiet =>
    \A c \in Chats \ w.late : w.unread[c] > 0 => Unread(c) > 0

\* What is shown, and not covered by a call, is read in the end: the server knows it, and
\* unless messages are missing from it, or a list came late, its badge is gone.
SelectedIsRead ==
    Quiet /\ w.selected # "none" /\ ~Covers(w) /\ w.shown > 0 =>
        /\ server.own[w.selected] >= w.shown
        /\ w.shown = server.sent[w.selected] /\ w.selected \notin w.late =>
              w.unread[w.selected] = 0
=============================================================================
