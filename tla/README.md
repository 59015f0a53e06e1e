# Zwei: a verification project for p2p-webchat

This directory holds TLA+ models of the Zwei chat, the TLC runs that check them
and the TLAPS proofs about them. Paths below are relative to `src/`.

## 1. Inventory

Zwei is an Angular client, four Go modules (auth, chat, realtime and a shared
library), PostgreSQL for what must last, Redis for what is shared between
replicas and may be lost, and a TURN server for media.

| Component | State it keeps | Operations | Talks to |
|---|---|---|---|
| Conversation storage (`services/chat/internal/persistence/postgres/conversation_repository.go`, `services/shared/messaging/sender.go`) | `conversations`, `conversation_members`, `messages`, `message_delivery`, `user_read_cursors`, `outbox_events` | create, add, remove, rename, change role, transfer, leave, delete, send | called by the chat HTTP API and the realtime hub; read by the outbox consumer |
| Read cursors (`services/realtime/internal/infrastructure/postgres/read_cursor_repository.go`) | `user_read_cursors` | advance | same rows as the sender and the membership changes |
| Direct calls (`services/realtime/internal/infrastructure/redis/calls.go`, `application/hub.go`) | call hashes, user, device and admission keys, an expiry set | start, accept, decline, cancel, end, disconnect cleanup, sweep | reads presence leases and the reservations of group calls |
| Group rooms (`redis/group_rooms.go`, `postgres/group_call_repository.go`, `hub.go`) | room hashes, participants, connections, presenter, user keys, expiry set | start, join, leave, end, present, end by membership change, abort, sweep | membership lease in PostgreSQL, projections of the outbox |
| Presence and budgets (`redis/presence.go`) | leases per socket, members per user, connection budgets | connect, disconnect, heartbeat, count, allow | read by both kinds of calls |
| Outbox consumer (`postgres/outbox_repository.go`, `main.go`) | claims on `outbox_events` | claim, mark, release | notifies the hub of every replica through Redis |
| Delivery (`shared/messaging/delivery.go`, `hub.go`, `transport/websocket/handler.go`) | send queue of a socket, `message_delivery.delivered_at` | live fan-out, replay, mark, reconcile | conversation storage, Redis pub/sub |
| Auth (`services/auth`) | users, devices, sessions, invitations, KYC state | register, log in, refresh, revoke, redeem, approve | session checks of the chat and realtime services |
| Chat HTTP API (`services/chat/internal/transport/http`) | page cursors | list, page, search, archive | conversation storage |
| Frontend transport (`frontend-app/src/app/home/data-provider.service.ts`) | the one socket, its generation, backoff timer, recovery request | connect, retry, send, recover, close | tickets over HTTP, the realtime service; Home and the facades listen |
| Home list and recovery (`home.component.ts`) | list, selected chat, loading signs, generations | load, page, refresh, archive, start, recover | chat HTTP API, transport |
| Home messages and read state (`home.component.ts`) | messages shown, pending sends, unread badges, read positions | send, repeat, page, reconcile, mark read | transport, call surface |
| Group access (`home-group-access-facade.service.ts`) | what is known of a group's membership, departures, quarantine | look up, leave, apply events and lists | chat HTTP API, Home |
| Call facades (`call-facade.service.ts`, `group-call-facade.service.ts`) | call or room, generation, captures, peer connections, queued operations | start, accept, hang up, mute, share, join, leave, discover, synchronise | transport, media devices, WebRTC |
| Session and routes (`auth/auth.service.ts`, guards, interceptor) | access token, the shared refresh, the page | log in, refresh, log out, navigate | auth service |
| Alerts, member list (`notifications/notification.service.ts`, `group-member-list.component.ts`) | alert mode, ringtone; tooltips and their frames and timers | choose, ring; focus, hover, scroll, remove | browser |

What is hard here:

* Transactions of different services change one conversation at once, and one of
  them, the sender, does not read under the lock what it decides by.
* Counters are kept twice: unread counts next to the messages they count,
  reservations next to the calls and rooms they stand for.
* A Redis script is atomic, a command is not: it is several scripts, clock
  readings and database statements, with a socket that may be removed at any
  point in between.
* Everything in Redis lapses, each key at its own time.
* Events travel by pub/sub and an at-least-once outbox: lost, repeated, late.
* In the browser everything waits for something: an answer, a permission, a device,
  a frame. What is answered may be of a call, list, chat or socket left long ago.

What makes each part correct: conversation storage: exactly one owner, a gapless
log, exact counters, cursors that only advance, replay that covers a membership
and nothing before it, events that converge. Direct and group calls: a user is in
at most one call, one device wins, no reservation outlives its call, cleanup is
bound to a socket, no room outlives the membership of its seats. Outbox: every
event is delivered at least once, by claims that never overlap unless they lapse.
Delivery: nothing is marked delivered that was not queued, nothing pending is
skipped. Frontend: what an old generation learns does not touch the new one, no
device or request is left behind, and what is shown is what the server has once
nothing is under way.

## 2. Plan

| Order | Module | Subject | Abstract specification, proofs |
|---|---|---|---|
| 1 | `Conversation` | conversation storage and read cursors (done) | inductive invariant (proved) |
| 2 | `DirectCall` | direct call reservations and the socket's life (done) | inductive invariant (proved) |
| 3 | `Outbox` | claims, lapses, releases (done) | `AtLeastOnce` (safety proved, liveness model-checked); inductive invariant (proved) |
| 4 | `Transport` | the frontend's connection (done) | `Connection` (refinement proved), inductive invariant (proved) |
| 5 | `CallFacade`, `GroupCall`, `GroupPresentation`, `Facades` | the call facades (done) | `CallFacade`, `GroupCall`: inductive invariants (proved); `GroupPresentation` model-checked |
| 6 | `HomeSync`, `GroupAccess`, `HomeMessages`, `HomeReads` | what Home shows (done) | `HomeSync` uses the states of `Connection`; inductive invariants of each (proved) |
| 7 | `Session`, `MemberTooltips`, `Alerts`, `HomeChat` | session, tooltips, alerts, and what Home keeps of a chat together (done) | `HomeChat`: invariants of messages, read state, groups, session and alerts (proved) |
| 8 | `GroupRoom` | rooms, capacity, presenter, leases, membership changes (done) | inductive invariant (proved); `StaleRoomsEnd` (model-checked) |
| 9 | `Delivery` | fan-out, replay, socket queue, marks (done) | `AtLeastOnce` (safety proved), inductive invariant (proved) |
| - | presence leases, auth service, keyset paging | not begun | see section 7 |

## 3. Modules

A module of the backend has one action per transaction, script or handler step. A
module of the frontend has one action per callback, because the event loop runs a
callback to its end; what interleaves is which promise, timer, frame, request or event
is next. Operators commented as faulty (`SetErrorUnfenced`, `FreedBlindly` and the
like) are used by no specification: each is a plausible mistake in the definition
after it, kept to see that the property it breaks notices.

Modules that share no state are checked together in *scenes*: the MC module has a
variable `scene` that says which of them a behaviour is of, with which constants
(`INSTANCE ... WITH`), while the variables of the others rest. A property of the MC
module is the conjunction of those of its scenes; one of the module it extends
(`Outbox` in `MCOutbox`, `HomeConnection` in `MCConnection`, `CallFacade` in `MCCalls`,
`Facades` in `MCGroupCalls`) is that module's own. The scenes of `MCCalls` are all of `CallFacade`, with tighter bounds
than the module itself. `MCGroupRoom` has scenes of one module too: `Bounds[scene]`
keeps users, sockets and commands at rest, and every step stays `Within` it.

### Conversation

`Conversation.tla` has one variable per column of one conversation and one action
per transaction. All transactions but `Sender.Send` take the `conversations` row
and read the membership under that lock, so each is one action. `Send`'s first
statement has `FOR UPDATE OF c`: the membership row it joins is the snapshot's,
taken before the wait, so `SendSnapshot` (that statement begins) and `SendLocked`
(lock granted, the rest of the transaction) are two actions, and any other
transaction may come between them. `SendFails` is every way to roll back.
`AppendMessage` is what sends and system entries write in common;
`writeGroupEvent` is the outbox row. `Advance` is the capped, monotone cursor
update with its recount.

Abstractions: one conversation (a client id used in two conversations is refused
and changes nothing); every user has one registered device; bodies, names,
mentions, retention and archive flags are absent because a refusal because of
them changes nothing. Message expiry is not modelled: no code in the repository
deletes rows by it.

Properties: `UnreadIsExact`, `ReplayCoversMembership`, `SendIsIdempotent`,
`EventsConverge` (the newest event of a group is its roster, and a deletion is the
last one), and of steps `ChangeIsAnnounced` and `CursorNeverMovesBack`. `IInv` is the
inductive invariant of the proofs; one owner, a gapless log, cursors and deliveries
within the log and events that have happened are parts of it. `SendsSerializeWithRemoval` is what a comment says and the code
does not do.

### DirectCall

`DirectCall.tla` has the call hashes, the user, device, admission and group
reservation keys and the expiry set of Redis, and per socket its phase, its
presence lease and the command its read pump is in.

| Action | Code |
|---|---|
| `StartAdmitted`, `StartScript`, `StartFails`, `StartReleases` | `call.start` of `handleCall`: the admission script, the start script with its recovery of a stale call, the deferred release |
| `AcceptReadsClock`, `AcceptScript` | `transitionCall` reads the replica's clock, then the accept script judges by it |
| `Decline`, `Cancel`, `End` | one script each |
| `Remove`, `GetDeviceKey`, `EndDeviceCall`, `GetUserKey`, `EndUserCall`, `CleanupFails` | `Hub.Remove`: the presence disconnect, the reads and scripts of `EndByDevice`, a Redis failure in between |
| `Crash`, `LeaseLapses` | a replica dies, its leases lapse at any later time |
| `GroupReserve`, `GroupRelease` | what group calls do to the keys a start reads |
| `Tick`, `ExpireCalls` | the clock; the sweep every replica runs each second |

Lifetimes are countdowns in the order of the code's (admission 2 s, ring 30 s,
ended hash 60 s, active 2 h). `expires_in` is both `expires_at` and the score in
`zwei:calls:expires`, which the scripts always write together. `Punctual` says
that no lifetime unit passes between an accept's clock reading and its script;
the passing runs assume it and `direct_call_two_winners` drops it. The write pump
may remove the socket whose read pump is in a command, so a command goes on after
`Remove`. A connection id and a call id are fresh uuids and never come back. An
accept that is refused a TURN credential is an `End` right after it. `EndByDevice`
reads a key and ends, in another round trip, the call the key named: what it read is
in `cleanup`, and the key may name another call by the time the script runs.

Properties: `ReservationIsLive` (a key names a live call its user or device takes
part in), `NoDoubleBooking`, `FirstAcceptWins`, `CleanupEndsCalls`. The last is of
the calls there were when the user's key was read for the last time (`Asked`): a
`call.start` of the removed socket that is still in its handler may reserve a call after
that, and nobody ends it but its ring time, the peer, or a later start. `NoDoubleBooking` without punctual accepts is stated by a comment and does not hold.

### Outbox

`Outbox.tla` has the status and the claim of the rows of `outbox_events`, and per
replica its place in `processConversationEvents`: the rest of its batch, the event it
works on and the time left for it. `Write` is another service's commit. `Claim` is
the claim statement (`skipped` are rows locked by another transaction), `ClaimLost`
the same with its answer lost. `Take`, `Notify`, `Mark` and `Release` are the loop;
`Notify` is the whole of `NotifyConversationCreated` or `NotifyGroupProjection` as
one call that succeeds or fails. `Stop`, `Exit`, `Die` and `Restart` are the
process. A call fails by a fault, and faults are counted up to `MaxFaults`, or
because the process context is cancelled. A mark may fail after it took effect.

The order in which a batch is processed is open, because `RETURNING` has none. A
claim token is the replica that drew it: a replica has one batch at a time and
nobody uses the token of an abandoned one.

`AtLeastOnce.tla` is what the writers of a queue rely on: what is written is
delivered at least once and then acknowledged, one by one or a batch at once.
`NotifiedBeforeProcessed` and `ImplementsQueue` say that `Outbox` implements its
safety part and all of it; `HeadClaimHolds` that a claim lasts for the first event of
its batch, which is why two slow replicas make progress.

### Delivery

`Delivery.tla` is how committed messages reach the sockets of one device. A message's
row is absent, pending or delivered; `Commit` and `Publish` are the sender, `FanOut`
and `Mark` are `DeliverMessageCreated` on a replica, `Connect`, `Snapshot`, `Read`,
`ReplayOne` and `ReplayMarks` are `Hub.Add` from the moment the client is in
`h.clients`, `Write` and `Close` the write pump, `Crash` a replica that dies, `Leave`
and `Return` what changes the membership that `Pending` reads. `SendJSON` admits a
frame or refuses it and asks for the close, which only a socket that has its pumps can
carry out. A batch is a set of the oldest pending messages, `created_at` being the
number of a message: messages commit in any order, so a later batch may hold older
ones. A fault is a publication or subscription that fails, a statement that fails
(before or after it took effect) or a replica that dies; `missed` remembers it for
the sockets it may have concerned.

`NothingIsMissed` says that a socket whose replay is over, that refused no frame and
met no fault, leaves nothing pending once nothing is under way: the socket is heard of
before its replay reads. `DeliveredWasQueued` is the safety of `AtLeastOnce`; and
`QueuesServe`, in `MCOutbox`, adds that a device that goes on reconnecting gets all
messages queued and marked, however short its queue, whatever marks fail.

Three properties of the code that one may not expect, and that are kept out of what
the properties claim: the live fan-out and a batch already read reach a user who was
removed meanwhile (the recipients are those of the send transaction); a publication
that is lost leaves the message pending until the next connection; and frames in the
queue of a socket that closes are marked and never written. The client reconciles
after every reconnection (`HomeMessages`), which is what makes up for the last.

### GroupRoom

`GroupRoom.tla` has the room hashes, the conversation and user keys, the admission
keys and the direct calls that the scripts of `group_rooms.go` read, the membership
and its revision, the lease on the conversation row, the outbox events of membership
changes with the notifications they cause, and the life of a socket.

| Action | Code |
|---|---|
| `Command` | `handleGroupRoom` up to the script: admission, `BeginGroupCall`, the row lock with revision and membership |
| `StartScript`, `StartCommits`, `StartFails`, `StartAborts` | the start script, its commit, its compensation by `AbortGroupRoomStart` |
| `JoinScript`, `LeaveScript`, `EndScript`, `PresentScript`, `StopScript`, `DiscoverScript` | one script each, under the lease |
| `LeaseLost`, `Done` | the lease's transaction is lost while the command goes on; it ends |
| `ChangeMembership`, `NotifyReads`, `NotifyEnds`, `NotifyFails` | `changeMembership` with its event; the outbox's notification, which reads a room and later ends it if it is still what was read |
| `Vanish`, `Remove`, `RemoveLeaves` | the removal of a socket, its lookup and its leave |
| `RoomFallsDue`, `Expire`, `RoomLapses`, `AdmissionLapses` | time: the sweep and the lifetimes |
| `DirectCallStarts`, `DirectCallEnds` | what direct calls do to the keys a room reads |

`SeatsAreExclusive`: room hashes and reservation keys agree, a user has one seat and
no direct call. `RoomsFollowMembership`: a live room seats members only, or an event
that ends it is still to be processed, or it is *astray*, started by a command whose
lease had been lost. `CleanupFreesSeat`: a socket whose removal is over has no seat,
unless a command of it was under way (*overtaken*). `RoomsOnlyAdvance`: the number by
which clients order the states of a room never goes back and two states never share
one. `StaleRoomsEnd`: a room of an older membership ends, astray ones excepted.

### Transport and Connection

`Transport.tla` is `DataProviderService`: `connect` with its ticket, the socket's
events, the backoff timer, the presence snapshot, recovery requests and their answers,
`retryNow`, `stop`. An attempt and its socket are named by the `connectionGeneration`
drawn for them. `Connection.tla` is what the rest of the frontend sees: the published
state and when a reopened connection is ready. `ImplementsConnection` says that the
sockets, tickets and timers implement it. `OneConnection`: one of ticket request,
opening socket, open socket and timer of the current attempt, and an open
socket is the service's or about to be closed; `ReadyIsEarned`: ready means that the
snapshot came on this socket and no recovery is open; `NewestSpeaks`: no event of an
older socket is emitted after one of a newer; `Reopens`: a started service gets an open
socket or is closed.

### CallFacade

`CallFacade.tla` is the direct call of one tab: phases, generations, captures, peer
connections, the chain of signalling operations and the promises (microphone,
replacement of a track, screen picker, TURN credentials) the facade waits for. The
server holds at most one call of the user, answers in order and its events arrive in
any order. Generations are numbered from 1, so that a connection of generation 0 is
none. `MediaIsOwned`: every capture and every open peer connection is the present
call's or about to be stopped; where no two microphone selections overlap
(`Switches <= 1`), that is, because `TracksStop`, that nothing is captured once a call is
over, fails where they do (section 6). `CallsStayOver`: a call that was left never comes back,
by late events or the timer of a notice. `NoCallIsStranded` (in the run
`NobodyIsStranded`, of three scenes): once nothing is under way, the call the server
holds is the one shown. `OlderFailuresAreFenced`: no callback of
an older generation fails the present call. `MutedIsSilent` does not hold (section 6).

### GroupCall and GroupPresentation

`GroupCall.tla` is the room of `GroupCallFacade`: discovery, start, join, leave, end,
the revision fence of socket frames, refusals and their reconciliation, the periodic
sync. `GroupPresentation.tla` is the screen: the queue of operations, one sender of
video and of audio per peer, the presenter of the room. `CallsAgree`: microphone,
seat, room, capture and senders agree once nothing runs. `RoomHolds`: a microphone is
captured for the room of now, a room that ended does not come back, an established room
neither goes back nor becomes another by a late frame, and a microphone granted to an
earlier call changes nothing. One frame is excepted, the end of another room that comes
with its roster (`EndIsShown`), and nothing is said of a microphone that is *denied* to
an earlier call: the code's comments claim both (`RoomNeverSwitches`,
`OlderMediaIsFenced`) and neither holds (section 6). `NothingIsForgotten`: a room that
ended while its event was lost is noticed, and a transition of the screen ends.
`Facades.tla` puts `GroupCall` beside `CallFacade`, for the runs and the proofs.

### HomeSync, GroupAccess, MemberTooltips

`HomeSync.tla` is how Home loads, pages, refreshes and archives its list, keeps the
selected chat and recovers a reopened connection: requests with kinds and generations,
retries on timers, answers in any order. The history variable `upset` says what has
overtaken a list: a move of the user that comes while a recovery fetches the list, or
is answered for another mode or with an older list under way (`"moves"`), a list of a
recovery that fails after the connection is ready (`"errors"`), a presence snapshot that
comes before the list (`"presence"`). Of what these break, the properties claim nothing,
and each names the ones it does without; `ListIsOfMode` and `RecoveryIsAnswered` need no
such condition. `HomeConnection.tla` puts the list beside `Transport`, with names for
what the run checks and the proofs are about. `GroupAccess.tla` is one group as the frontend
may show it: list pages, lookups, events and the answer of a departure decide whether
its private projection may be on the screen; the server is the history of the user's
membership and an answer was read at some revision between request and delivery.
`MemberTooltips.tla` is focus, pointer, scroll, animation frames and timers of the
member list. Their properties are `ListAgrees`, `NewestListWins`, `HomeSettles` and, for
groups, `GroupFollowsMembership` of `HomeChat`.

### HomeMessages, HomeReads, Session, Alerts

`HomeMessages.tla` is the open chat: sends with acknowledgement, timeout, rejection and
repetition, history pages, reconciliation pages, live messages. `HomeReads.tla` is the
badges and read positions, this device's and others', also under the call surface.
`Session.tla` is the access token, the one refresh that guards and resolvers share,
login, logout and the interceptor. `Alerts.tla` is the alert mode and the ringtone.
`HomeChat.tla` composes them and `GroupAccess`: they share no state, so a step of one is
a step of the whole. Three history variables say which promises hold: `lost` of a session
in which an answer of the server was lost (the page may then keep showing Home), `alone`
of a user with no other device and no call (a badge may otherwise wait for what another
device reads), and `cut` of an open chat one of whose reconciliations was rejected: Home
then loads the newest page of history only and asks for nothing else, so a recovery of
more than a page may leave a gap. The sort of `mergeHistoryMessages` is `Arranged`: a
place is given by the number of those that come before, ties by where they were, which
is what a stable sort returns. Properties: `ChatAgrees`, `ReadsAgree`, `SessionAgrees`,
`RecoveryIsComplete` and `GroupFollowsMembership`.

## 4. Runs

| Run | Instance | Properties | Result |
|---|---|---|---|
| `conversation` | 3 users, 2 send handlers, 2 client ids, at most 2 members, 3 messages, 4 revisions | `IInv`, `UnreadIsExact`, `ReplayCoversMembership`, `EventsConverge`, `SendIsIdempotent`, `ChangeIsAnnounced`, `CursorNeverMovesBack` | holds |
| `direct_call` | 2 users, one with two sockets of one device, 2 calls, one fragile caller, one group user | `ReservationIsLive`, `NoDoubleBooking`, `FirstAcceptWins` | holds, 3.1 million states |
| `direct_call_cleanup` | the same users and sockets, both call, shorter lives | `CleanupEndsCalls` | holds, 2.8 million states |
| `outbox` | events: 2 replicas, 3 events in batches of 2 that may outlive their claim, 2 faults; messages in three scenes: *overflowing* (1 socket, 3 messages, queue and batch of 2, 1 fault), *leaving* (1 socket, 2 messages, batch of 1, 1 fault, another event, leave and return), *racing* (2 sockets, 2 messages, batch of 1) | `HeadClaimHolds`, `NothingIsMissed`, `NotifiedBeforeProcessed`, `QueuesServe` | holds, 355 thousand states |
| `connection` | *connecting* (3 faults, 2 recovery requests), *anytime* and *orderly* lists, *hovering* over 3 tooltips with 8 inputs | `OneConnection`, `ReadyIsEarned`, `ListAgrees`, `Reopens`, `NewestSpeaks`, `ImplementsConnection`, `NewestListWins`, `HomeSettles` | holds, 462 thousand states |
| `calls` | four scenes: *calling* (2 calls, device selection), *dropping* (lost connection, 2 chats), *capturing* (3 captures and failures), *hanging up* (before the server has named the call); 3 or 4 generations | `MediaIsOwned`, `CallsStayOver`, `NobodyIsStranded`, `OlderFailuresAreFenced` | holds, 2.3 million states |
| `group_calls` | *calling*, *dropping*, *losing* (lost events, refusals), *anything*, *ending* (4 generations, little under way); *presenting*, *competing* (other presenters, late joins) | `CallsAgree`, `RoomHolds`, `NothingIsForgotten` | holds, 1.3 million states |
| `home_chat` | *writing* (2 chats, a rate limit), *recovering* (2 messages, pages of 1), *reading* (2 chats), *sharing* (another device, calls), *session* (3 tokens), *alerting*, *groups* (3 revisions, 3 requests) | `ChatAgrees`, `ReadsAgree`, `SessionAgrees`, `RecoveryIsComplete`, `GroupFollowsMembership` | holds, 2 million states |
| `group_rooms` | capacity 2; *changing* (2 revisions, 1 fault), *returning* (3 revisions), *moving* (two sockets of a user), *calling* (2 conversations, direct calls), *full* (3 users, a screen) | `SeatsAreExclusive`, `RoomsFollowMembership`, `CleanupFreesSeat`, `RoomsOnlyAdvance`, `StaleRoomsEnd` | holds, 384 thousand states |
| `direct_call_two_winners` | 3 users with a socket each, two of them callers, accepts may be late | `NoDoubleBooking` | violated: a user in two calls |
| `conversation_stale_sender` | 3 users, 1 send handler, 1 client id | `SendsSerializeWithRemoval` | violated: a message of a removed sender is stored |
| `calls_muted` | 1 call, 1 microphone selection at a time, 3 captures | `MutedIsSilent` | violated: shown as muted, heard |
| `calls_overlapping` | 1 call, 2 microphone selections at a time, 3 captures | `TracksStop` | violated: a microphone is captured after the call |
| `late_ends` | 2 rooms, 4 generations, ends come with their roster | `RoomNeverSwitches` | violated: the end of the room before is shown for the present one |
| `late_denials` | 2 rooms, 4 generations, 1 failure | `OlderMediaIsFenced` | violated: a microphone denied to the call before ends the present one |

Bounds. Two members and three users make a group full, let a member leave,
another take the place and the first return. Two handlers are needed for two sends
of one client id. Two call ids are a call and the one that replaces it while keys
of the first are still there; the second socket of a user is the one that loses
the race or stays when its sibling goes. `Callers`, `Frail` and `GroupUsers` are
bounds on who starts calls, whose replica or Redis link may fail and who is in
group calls. For the outbox, three events in batches of two make `LIMIT` and waiting
in a batch matter; a claim of two units and an event of one make the second event of a
slow batch lapse, as the code's fourth does (30 s, 10 s). For messages, three with a
queue of two (one slot of it taken by the presence snapshot) overflow a replay, a batch
of one makes it read again and again, and two sockets race for one delivery row. In
`group_rooms` the capacity of two is reached by two of three users; two rooms are the
one that ended and its successor; each scene has only the commands that make its kind
of trouble. In the frontend, every `MaxEffort` bounds what the user, the peers and
faults do, and the generations, captures and queues follow from it; two calls, rooms or
chats are needed for something to be late, a third never adds a fence that two do not
pass. The proofs of section 5 do without bounds.

Scenes also switch off behaviours. What follows was seen to break a property when it
is allowed and is excluded in the scene that checks it, so the properties do not claim
anything of it: selecting a microphone while another selection is running; a cancel
that the accept was ahead of, a call that rang when the connection was lost, a hang-up
before the server has named the call (for `NoCallIsStranded`); of group calls, an end
before the room is named, an end that comes with a whole roster, refused leaves, a peer's
room that is announced while one's own is being started (for the seat properties of
`CallsAgree`, which also claim nothing after a failure of an older generation has ended a
call, noted in the history variable `late`; `RoomHolds` excludes none of this); of
presentations, another participant who presents in between, a peer who joins while
ended audio is taken back; of rooms, a start whose lease was lost and a socket removed with a command under
way. The list excludes nothing: *anytime* has two moves, which may overtake a list, and
*orderly* three of which none does, so that three moves in a row are met where all
properties apply; what `upset` holds is noted, not forbidden.

Conversation, frontend and room runs stop at their bounds, so deadlock is not checked
there; it is checked for calls, where the clock always runs, and for the two queues.
The symmetries permute model values that no property or constant tells apart: users,
handlers and client ids of a conversation; call ids and the two sockets of one device;
for three users, the two callers together with their users and devices.

Fairness. Conversations, direct calls, `calls` and `home_chat` have safety properties
only and assume none.

* `outbox`: weak fairness of a replica's loop, whose ticker fires every half second and
  whose calls all have deadlines, and of time. Stopping, dying, failing and restarting
  are never fair: one replica that goes on is enough. Time passes only in claims,
  notifications and marking (`Prompt`): the loop's own instructions take none.
* `outbox`, messages: a committed send publishes, a subscription handles what reached
  it and marks, `Hub.Add` runs to its end, a socket asked to close is closed: goroutines
  that wait for calls with an answer. Nobody has to send, connect, leave or write;
  that pending messages are served is therefore claimed only if the device reconnects
  again and again.
* `connection`, transport: browser and server answer a ticket request, open or fail a socket, the
  timer fires (`Fairness` in `Transport.tla`).
* `group_calls`: the sync timer fires and is answered; the queue of operations and the
  senders of the browser go on, a screen picker does not have to.
* `connection`, list and tooltips: list requests are answered or their timers fire, the transport
  reconnects, the snapshot comes after an opening, reconciliations are answered; frames
  are drawn and timers fire.
* `group_rooms`: weak fairness of `Notifying`: the outbox loop of some replica reads and
  ends rooms, which `outbox` shows of it. No bound of the scenes can refuse such a step.

## 5. Proofs

`ConversationProofs.tla` proves about `Conversation`, for every finite set of
users, any handlers, client ids and bounds, from `ConversationAssumption` only:
`TypeCorrect`, `OneOwner`, `MemberLimit`, `DenseLog`, `ExactUnread`,
`CursorInHistory`, `CursorMonotone`, `Idempotent`, `ReplayIsComplete`,
`EventsLeadToRoster` and `ChangesAreAnnounced`.

The argument is one inductive invariant, `IInv`. The exact unread count needs the
dense log (a new message lies above every cursor), the cursor bound (so it is
unread by whom it is counted for) and finiteness of the log (so that counts are
numbers). The owner needs `OwnerIsMember`: `SingleOwner` alone does not say that
the role column of a non-owner is not "owner". `NothingStored` says a creation
starts from nothing. `ReplayCoversMembership` is inductive only with
`DeliveryWithinLog` (a delivery row is of a stored message) and `EventsConverge` with
`EventsArePast` (an event's revision is one the conversation had), so that a new event
outranks all others. The proof has a typing lemma, one lemma per shape of step for
the log, the counters and the roster, and `StepInv` combines them;
`CursorStep` and `IdempotentStep` use the invariant for the rest.

`DirectCallProofs.tla` proves about `DirectCall`, for every set of users, sockets,
devices and call ids and every choice of lifetimes, from `DirectCallAssumption` only
(the order of the lifetimes, a device has one user, `None` is no value):
`TypeCorrect`, `ReservationsAreLive` and `OneWinner` for all accepts, and
`NobodyDoubleBooked` and `CleanedUp` where accepts are punctual.

`NoDoubleBooking` is not inductive. Its invariant says more: both parties' keys name
a holding call, with the call's own remaining time (`PartiesReserved`), so that a
user in two of them would need a key that names both; an accept whose clock reading
was in time meets a call that still holds its users (`AcceptsInTime`), so that the
keys it writes are theirs already; a user in a group call has no key
(`GroupUsersFree`). The first two fail without punctual accepts, which is the
finding. `ReservationIsLive` needs `KeysLapseFirst` (a key dies before the hash it
names, whichever way the clock ticks) and `CallsInOrder` (a new call's id is named by
no key; a ringing call has no second device). The start script writes the store
twice in one step, recovery then reservation: the store part is therefore stated over
values, `Agree(C, U, D)`, and proved of every store a script computes (`EndedAgrees`,
`RecoveredAgrees`, `ReservedAgrees`, `AcceptAgrees`); `QuietStep` and `EndingStep`
are the steps that leave the store alone or only end calls. `CleanedUp` (no call is left
of a socket whose removal is over) needs two more facts: the recipient's socket of an
accepted call is one of its user (`AcceptedByRecipient`), and the two lookups of a
removal find whatever call the socket holds, because a holding call is named by the keys
of both parties. `CleanupInv` adds that a call is between two users (`CallsOthers`) and
what a removal knows between its reads and its scripts (`Removals`): the call its device
key named cannot be bound to the socket any more once the script has run, and of the calls
there were when the user key was read, only the one it named can hold the user.

`OutboxProofs.tla` proves `NotifiedBeforeProcessed` (`Refinement`) for any replicas,
events, batch size, lifetimes and faults: each step of `Outbox` is a step of
`AtLeastOnce` or leaves its variables alone. It needs an invariant (`IInv`) because
delivery and mark are two steps of a replica: what is being marked was delivered,
and what is worked on is committed. `HeadIsNotLost` proves `HeadClaimHolds` where time
passes in calls only (`Prompt`): `HeadIsHeld` says that the claims of an untouched
batch are whole and that the first event's outlives the time its calls have left.

`DeliveryProofs.tla` proves about `Delivery`, for any sockets, messages, queue and batch
sizes and faults that `DeliveryAssumption` allows, `NoMessageMissed` and
`MarkedWasQueued` (each step is one of `AtLeastOnce` or leaves its variables alone). The
invariant: what is marked was queued and what is queued was committed
(`MarksFollowQueues`), a replay that is over holds nothing (`ReplaysEnd`), and
`Accounted`: for a socket that has read the last of its batches, refused nothing and met
no fault, every pending message is at its sender, on the wire to its replica, being
marked, or in what its replay has read or sent. The last is `NothingIsMissed` when all
of these are empty; it is inductive because committing adds to the sender's, and every
step moves a message from one of the places to the next or marks it (`AccountKept`,
`HubAccounted`, `SocketAccounted`).

`TransportProofs.tla` proves about `Transport`, for any number of faults and requests,
`TypeCorrect`, `OneConnectionAtATime`, `ReadyEarned` and
`NewestIsHeard`. `IInv` adds that generations in use were drawn (`Drawn`), that the
socket field names an open or opening socket of the current attempt (`SocketIsOpen`)
and that state, flags and timer agree (`FieldsAgree`). `ConnectionKept`: each step of
`Transport` is a step of `Connection` or a stutter; for that it needs one more invariant,
`Announced`, that the published state is not ahead of the fields it is computed from.

The second part of `TransportProofs.tla` is of `HomeConnection`'s list: `ListHolds` and
`ListFollows`, for any chats and any numbers of retries, pages and moves (of the
constants, only that `"none"` is no chat and the numbers are naturals). `ListInv` says
what the properties leave open about what is under way. Of the connection: a
reconciliation has an id of its own (`Asking`), the one a recovery waits for is Home's
newest and of the chat selected (`Awaiting`), and while the chat selected lacks messages
there is a list, a first load or a reconciliation to come (`Catching`, `Timely`), which
is why the recovery cannot be over before. Of the list: a request is not ahead of its
generation, and those of the present are of the mode shown (`Requested`); the present
waits for one list, or for pages of the one that is shown (`Single`); nothing is newer
than the server (`Versions`); a chat has one move at a time, and a list that was answered
after the server did it has the chat (`Moves`); and a list the present waits for, once
answered, is newer than the one that is shown and has all of it that is still there
(`Answers`). The last is what keeps the chat selected listed whichever list comes. `Leaving`
is the one exception, a chat the server has archived and Home does not know of yet. The
callbacks are sequences of assignments to `home`, so each part is proved of every value
they pass through (`Connects`, `Turns`, `Adds`, `ShowsFrom`, `ErrsFrom`: what a stretch of
a callback may do), with one lemma `...Keeps` for each operator; and each of these says as
well that the step leaves what is shown alone or shows something newer (`Rests`,
`Follows`), which is `ListFollows`.

The attempt changed the model. Until then the scene that checked `SelectedIsListed`
allowed three moves and excluded what overtakes a list. The invariant did not stay:
a chat being created, met in a list, opened and archived before the answer to its
creation arrives is opened by that answer, and the next list omits it. That takes more
than three moves, so the bound had hidden it. The exclusions became the history variable `upset`, which has this case
too, and the theorems are of every behaviour.

`GroupRoomProofs.tla` proves about `GroupRoom`, for any users, sockets, conversations,
rooms, capacity and bounds, `SeatsExclusive`, `RoomsFollow`, `CleanupFrees` and
`RoomsAdvanceOnly`. Its invariant has ten parts. `OnlyIssued`: what no command has drawn
no key or hash names. `SeatsAreExclusive` needs nothing else, but is a statement about
three maps, so the store part is proved per script: `Becomes` for one room that
changes, `OverAgrees`, `SeatLeftAgrees`, `SeatTakenAgrees` and `SameSeatsAgree` for the
keys that go with it. `CommandsKnow` (a command holds a revision the conversation had
and the room it started), `LeasesAreCurrent` (who holds the row knows the current
revision, since a membership change needs the row too), `EventsArePast` and
`NoticesAreRead` (what is to be processed has happened; what a notification has read is
not newer than the room) are what `RoomsFollowMembership` needs: a room whose revision is
older than the conversation's has an event to come, because the change wrote it and the
event is only removed after the room was seen to be gone or newer. `RemovalsAreQuiet`
says what a removal still has to do, for `CleanupFreesSeat`. `Shrinks` collects what all
scripts but start and join do to a room; frame lemmas (`StoreStep`, `BookStep`,
`CommandStep`, `OutboxStep`, `PhaseStep`, `HistoryStep`) say which variables an action
leaves alone, and then there is one lemma per conjunct.

`CallFacadeProofs.tla` proves about `CallFacade`, for any conversations and any numbers
of calls, generations, captures and failures, with lost connections and early hang-ups,
`CallsLeftStayLeft` and `OlderFailuresEndNothing`; and `MediaStaysOwned` and
`EveryTrackStops` where no two microphone selections overlap (`Switches <= 1`), which is
what `calls_overlapping` shows to be necessary. A callback of the facade is a sequence of
assignments, which the model writes as operators on the record `f`. So the invariants are
stated over a value: `Shape(g)` (types, and which fields go together), `Fence(g)` (what is
waited for was begun in a generation that was drawn, and what is of the present one is of
a call that is still on) and `Media(g)` (captures and connections have an owner). Each
is proved of every value a handler passes through, by lemmas on the operators that are
then cited by every action that uses them. `OlderFailuresAreFenced` is of steps: `Spares`
says of the operators that do not end a call that they do not, and there is one lemma
`...Fenced` per handler for the rest. Proving it showed that the model had begun to
count generations at 0, which is also its number for "no connection"; TLC cannot see the
difference within its bounds.

The second part of `CallFacadeProofs.tla` is of the rooms, by `GroupInv`: `RoomsHold`, for
any rooms, revisions and generations, with lost connections and events, refusals, early
and late ends and failures of any generation. That an ended room stays ended is not a
matter of the facade alone: a discovery, the answer of a reconciliation or an event that
is still on its way may show it again. So `GroupInv` has the wire and the server with it.
`Wired`: nothing on the wire is of a generation to come, and the answer to a
reconciliation is of an earlier one. `Serving` and `RoomsNamed`: a room that is known was
named by the server, which numbers them. `Final`: a room ends once and its end is the
last that is told of it, all that is known of it anywhere is of a lower revision
(`Limited`), and what has ended is retired. `Capture` and `Waiting` are of the microphone
and of the controls that wait for an answer. Each callback is of one of three shapes:
it closes the call (`Closes`), begins a generation (`Begins`) or hears of a room within
one (`Turns`), and each shape has one lemma that keeps the invariant.

`HomeChatProofs.tla` proves about `HomeChat`, for any chats and any numbers of messages,
tokens, revisions, pages and moves, `RingsOnlyForCalls`, `SessionHolds`, `ReadsStayTrue`,
`GroupsFollow`, `ChatHolds` and `RecoveriesComplete`. The parts share
no state, so each has an invariant of its own that the steps of the others leave alone.
`SessionInv`: the refresh of a page is the only request of the page that waits for it
(`OneRestore`); who logs in has no token and one request (`OneLogin`); and Home without a
token is left by an answer that is still to come, that of the logout or of a request that
bears no token (`HomeIsLeft`), which is what "unless an answer is lost" means. `ReadsInv`:
nothing is read, loaded or announced that was not sent before (`InBounds`), what goes on
in which state of the connection (`Staged`), a badge has messages (`Badged`) and an empty
open chat none (`EmptyIsClear`); for a user who is alone, Home never knows less than the
server, and a badge without an unread message has the event, list or reconnection
to come that takes it away (`Lonely`); for a chat that is seen, what is shown is read or
about to be (`MarkedRead`) and its badge is gone once the page is loaded (`BadgeIsGone`).
`MarkedRead` has to hold of the record in the middle of a callback, so it is proved of
the operators on it, as for `CallFacade`.

`GroupsFollow` is of the steps of a group. `AccessInv` says that the facade never shows,
in the list or in the open chat, a revision newer than the newest it has seen, nor in the
open chat one newer than in the list (`Ordered`), and that a lookup, a departure and a
busy sign that is thought to be under way is (`Tracked`). A callback composes operators
on the record of the facade, and each only ever does one of three things: it lets what
is shown rest or disappear (`Fades`: quarantine, removal, departure, a lookup begun or
over), it shows one revision newer than all that was seen and removed, in a group that
is no longer quarantined (`Shows`: an authorization), or it merges a list (`Lists`).
These relations compose (`FadesOn`, `ShowsOn`), so one lemma for each operator and one
for each handler give the properties of the step (`Turn`). `Verified` of a list needs no
more than that a list was answered: it is the one answer that may show a group the
facade keeps quarantined.

`ChatHolds` and `RecoveriesComplete` are of the open chat, by `MessageInv`. That a
message is shown once is not inductive: an answer that is still on its way may bring it
again. So all that is under way is related to the chats as they are stored: a page, of
history or of a reconciliation, copies the chat it was asked for (`Fetching`), an event
names a stored place (`Told`), a message is in one chat once (`Logged`), and all requests
of an own message are for the chat it was written in (`Written`); the newest request
alone is waited for, and it is of the open chat. An own message may be in the view, in a
request, in an event and in a page at once, and `ViewOf` says what each may do to the
view. `Tried` bounds the requests of a message by the moves, one more than there were
timeouts. For the recovery, what the open chat holds of the peers is `Covered` (shown, or
with the socket) or `ToCome`: after the cursor of a request that is not answered yet, in
the answer, or behind an answer that says there is more. The step that ends the recovery
is the last page, and nothing is to come then; after a connection lost between two pages
the list selects the chat again, and it is reconciled from its start. All of it rests on what the merge returns, which is
proved without induction: ranks by counting are a bijection between the kept places and
`1 .. n` (`ArrangedIs`, by cardinalities), hence `MergedIs` and `WithoutIs`: each message
of the page and each one of the view that the page has not, once.

The inductive invariants of all proofs were checked by TLC on the runs' instances;
`IInv` of `conversation` and of the scenes of `Delivery` still is.

Only model-checked: all liveness (`QueuesServe`, `Reopens`, `NothingIsForgotten`,
`HomeSettles`, `StaleRoomsEnd`), which is beyond the prover, as is ENABLED;
`NobodyIsStranded`, which relates the facade to everything that is on the wire;
`NothingIsMissed` of `MCOutbox`, the conjunction over its scenes of what
`DeliveryProofs` proves of each; `CallsAgree` of `GroupCall` and `GroupPresentation`; and
`MemberTooltips`.

## 6. Findings

* A send waiting for the conversation row behind the removal of its sender is
  stored (`services/shared/messaging/sender.go:52` against the comment at
  `services/realtime/internal/infrastructure/postgres/read_cursor_repository.go:28`).
  What holds all the same: the message is numbered, counted and delivered for the
  members at that moment, so every other property is kept.
* An accept judged by a clock read before the ring time ended can activate a call
  whose reservations are gone and put a user in two calls
  (`services/realtime/internal/infrastructure/redis/calls.go:90` against line 235).
* Mute, pressed while another microphone is being selected, silences the old track only:
  the new one was enabled by the value of before and is sent
  (`frontend-app/src/app/home/call-facade.service.ts:331` against line 139).
* Of two microphone selections that overlap, each stops the stream that was current when
  it was begun; the first replacement is overwritten by the second and captured on after
  the call has ended (`call-facade.service.ts:309` and `:339` against
  `.opencode/skills/zwei-angular/SKILL.md:32`, "stop every track and close the connection
  on every terminal route").

* The end of a group room that is delivered after the user has joined the next one
  replaces the room that is shown, because an end with a roster is shown before it is
  asked what room it is of (`group-call-facade.service.ts:479` against the comment at
  `:592`); if its revision is the higher one it ends the call.
* A microphone that is denied after its group call is over ends the call that is on by
  then: the rejected branch of `microphone()` does not compare generations, as the granted
  one does (`group-call-facade.service.ts:790` against the comment at `:590`). The timer
  of a discovery (`:157`) does the same.

Two more divergences were met that no run states: a command that runs on while its
socket is removed binds a call to a connection that no longer exists
(`services/realtime/internal/transport/websocket/handler.go:118`; the next `call.start`
of one of the parties recovers it, and `CleanupEndsCalls` and `CleanupFreesSeat` except
it); and a replica that is shut down in a batch releases the event it has reached and
leaves the rest claimed for up to 30 s (`services/realtime/main.go:196`), after which
they are delivered.

## 7. Not modelled

* Presence leases and the connection budget (`redis/presence.go`): keys with a lifetime
  that single scripts renew and count. `DirectCall` has a socket's lease as far as the
  call scripts read it.
* The reconcile query: it reads. Its client is `HomeMessages`.
* WebSocket framing, deadlines and tickets; `Delivery` has queue, refusal and close.
* The chat HTTP API, history and paging: validation and keyset queries without state;
  their client is in `HomeSync` and `HomeMessages`.
* The auth service: sequential transactions of one user on rows of their own. The
  browser's side is `Session`.
* Rate limiting, TURN credentials, encryption and e-mail: one script with one window,
  pure functions, I/O.
* Of group rooms: signals between peers, the fan-out of room events, renamings and
  deletions as causes of a membership event (they end rooms by the same projection).
  Of direct calls: signalling and the fan-out of call events.
* Of the frontend: rendering, search, typing indicators, the wire mapper's shape checks,
  the contents of offers and answers, playback and speakers, the PWA prompt, and the
  admin, registration and activation pages, which send one request and show its answer.
* Process start and health endpoints.
