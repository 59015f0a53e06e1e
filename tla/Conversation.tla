---------------------------- MODULE Conversation ----------------------------
(***************************************************************************)
(* One conversation as PostgreSQL stores it: its members and their roles,  *)
(* the numbered message log, the per-user read cursors, the per-device     *)
(* delivery rows and the outbox events, and every transaction of the chat  *)
(* and realtime services that changes them.                                *)
(*                                                                         *)
(* Every one of those transactions takes the conversations row FOR UPDATE, *)
(* so what it does after taking the lock is one atomic action.  All of     *)
(* them read the caller's membership under the lock, except Sender.Send:   *)
(* its first statement locks only the conversations row (FOR UPDATE OF c), *)
(* so the membership row it joined is the one of the statement's snapshot, *)
(* taken before the lock wait.  Send is therefore two actions.             *)
(*                                                                         *)
(* Abstractions.  Users is the set of verified accounts, each with one     *)
(* registered device, so a delivery row is a (user, sequence) pair.        *)
(* Bodies, mentions, names, retention periods and archive flags are left   *)
(* out: a request refused because of them changes nothing.  A missing      *)
(* conversation_members row behaves as an inactive one and a missing       *)
(* cursor row as (visible_from_sequence - 1, 0), which is what the         *)
(* upserts of the code write.                                              *)
(*                                                                         *)
(* An operator marked Faulty is not part of the specification: it is a     *)
(* plausible bug in the operator after it, which some property below must  *)
(* tell from it.                                                           *)
(***************************************************************************)
EXTENDS Naturals, FiniteSets

CONSTANTS
    Users,           \* verified user accounts
    ClientIds,       \* client_message_id values chosen by clients
    Handlers,        \* concurrent message.send handlers over all replicas
    None,            \* NULL: no owner, no request, a generated client id
    MaxGroupMembers, \* conversation.MaxGroupMembers (16 in the code)
    MaxMessages,     \* bound: sequences handed out
    MaxRevision      \* bound: membership revisions

ASSUME ConversationAssumption ==
    /\ IsFiniteSet(Users)
    /\ None \notin Users \cup ClientIds
    /\ MaxGroupMembers \in Nat \ {0}
    /\ MaxMessages \in Nat
    /\ MaxRevision \in Nat

VARIABLES
    kind,                  \* "none", "direct", "group" or "deleted"
    owner_id,
    membership_revision,
    next_sequence,
    role,                  \* conversation_members.role
    active,                \* conversation_members.active
    visible_from_sequence, \* conversation_members.visible_from_sequence
    messages,
    message_delivery,      \* sequences with a delivery row for the user's device
    last_read_sequence,
    unread_count,
    outbox_events,
    sending                \* per handler: a Send waiting for the row lock

roster == <<owner_id, role, active, visible_from_sequence>>
log == <<messages, next_sequence, message_delivery>>
cursors == <<last_read_sequence, unread_count>>
vars == <<kind, membership_revision, roster, log, cursors, outbox_events, sending>>

-----------------------------------------------------------------------------
Roles == {"owner", "admin", "member"}

Message == [sequence : Nat \ {0}, sender_id : Users,
            client_message_id : ClientIds \cup {None}, kind : {"user", "system"}]

OutboxEvent == [event_type : {"conversation.created", "group.membership.changed"},
                membership_revision : Nat, deleted : BOOLEAN,
                user_ids : SUBSET Users, authorized_user_ids : SUBSET Users]

SendRequest == [sender_id : Users, client_message_id : ClientIds]

ActiveMembers == {u \in Users : active[u]}

\* The largest element of a finite nonempty set of numbers (ORDER BY ... DESC LIMIT 1).
Highest(S) == CHOOSE x \in S : \A y \in S : y <= x

\* Messages of others that u may see and has not read: what Advance counts.
UnreadAfter(u, sequence) ==
    {m \in messages : /\ m.sender_id # u
                      /\ m.sequence >= visible_from_sequence[u]
                      /\ m.sequence > sequence}

-----------------------------------------------------------------------------
(* Writes shared by the transactions.                                      *)

\* A row of messages with the next sequence, a delivery row per device of every
\* other member, and one more unread message for each of them.
AppendMessage(sender, client_id, message_kind, members, unread) ==
    /\ next_sequence <= MaxMessages
    /\ messages' = messages \cup
          {[sequence |-> next_sequence, sender_id |-> sender,
            client_message_id |-> client_id, kind |-> message_kind]}
    /\ next_sequence' = next_sequence + 1
    /\ message_delivery' =
          [u \in Users |-> IF u \in members \ {sender}
                             THEN message_delivery[u] \cup {next_sequence}
                             ELSE message_delivery[u]]
    /\ unread_count' =
          [u \in Users |-> IF u \in members \ {sender} THEN unread[u] + 1 ELSE unread[u]]

\* Faulty: system entries without delivery rows or unread counts.
writeGroupSystemEntrySilent(actor, members, unread) ==
    AppendMessage(actor, None, "system", {}, unread)

writeGroupSystemEntry(actor, members, unread) ==
    AppendMessage(actor, None, "system", members, unread)

\* Faulty variants of writeGroupEvent: the departed stay authorized, the departed
\* are not told, the deletion reuses the current revision.
writeGroupEventAuthorizesAll(revision, deleted, members, extra) ==
    outbox_events' = outbox_events \cup
        {[event_type |-> "group.membership.changed", membership_revision |-> revision,
          deleted |-> deleted, user_ids |-> members \cup extra,
          authorized_user_ids |-> members \cup extra]}

writeGroupEventMembersOnly(revision, deleted, members, extra) ==
    outbox_events' = outbox_events \cup
        {[event_type |-> "group.membership.changed", membership_revision |-> revision,
          deleted |-> deleted, user_ids |-> members, authorized_user_ids |-> members]}

writeGroupEventSameRevision(revision, deleted, members, extra) ==
    outbox_events' = outbox_events \cup
        {[event_type |-> "group.membership.changed",
          membership_revision |-> IF deleted THEN revision - 1 ELSE revision,
          deleted |-> deleted, user_ids |-> members \cup extra,
          authorized_user_ids |-> members]}

\* The recipients are the active members, and extra users who just left.
writeGroupEvent(revision, deleted, members, extra) ==
    outbox_events' = outbox_events \cup
        {[event_type |-> "group.membership.changed", membership_revision |-> revision,
          deleted |-> deleted, user_ids |-> members \cup extra,
          authorized_user_ids |-> members]}

BumpRevision ==
    /\ membership_revision < MaxRevision
    /\ membership_revision' = membership_revision + 1

\* DELETE FROM conversations, which cascades to every table but the outbox.
DropConversation ==
    /\ kind' = "deleted"
    /\ owner_id' = None
    /\ membership_revision' = 0
    /\ next_sequence' = 1
    /\ role' = [u \in Users |-> "member"]
    /\ active' = [u \in Users |-> FALSE]
    /\ visible_from_sequence' = [u \in Users |-> 1]
    /\ messages' = {}
    /\ message_delivery' = [u \in Users |-> {}]
    /\ last_read_sequence' = [u \in Users |-> 0]
    /\ unread_count' = [u \in Users |-> 0]

\* Faulty: any active member may act.
groupActorAnyRole(caller, roles) ==
    /\ kind = "group"
    /\ active[caller]

\* The caller's current row, read under the lock of both rows.
groupActor(caller, roles) ==
    /\ kind = "group"
    /\ active[caller]
    /\ role[caller] \in roles

-----------------------------------------------------------------------------
Init ==
    /\ kind = "none"
    /\ owner_id = None
    /\ membership_revision = 0
    /\ next_sequence = 1
    /\ role = [u \in Users |-> "member"]
    /\ active = [u \in Users |-> FALSE]
    /\ visible_from_sequence = [u \in Users |-> 1]
    /\ messages = {}
    /\ message_delivery = [u \in Users |-> {}]
    /\ last_read_sequence = [u \in Users |-> 0]
    /\ unread_count = [u \in Users |-> 0]
    /\ outbox_events = {}
    /\ sending = [h \in Handlers |-> None]

(* Creation.                                                               *)

\* A second Create for the same pair finds the row and writes nothing.
CreateDirect(user, other) ==
    /\ kind = "none"
    /\ user # other
    /\ kind' = "direct"
    /\ membership_revision' = 1
    /\ active' = [u \in Users |-> u \in {user, other}]
    /\ outbox_events' = outbox_events \cup
          {[event_type |-> "conversation.created", membership_revision |-> 0,
            deleted |-> FALSE, user_ids |-> {user, other}, authorized_user_ids |-> {}]}
    /\ UNCHANGED <<owner_id, role, visible_from_sequence, log, cursors, sending>>

CreateGroup(owner, members) ==
    LET everyone == members \cup {owner} IN
    /\ kind = "none"
    /\ Cardinality(everyone) <= MaxGroupMembers
    /\ kind' = "group"
    /\ owner_id' = owner
    /\ membership_revision' = 1
    /\ role' = [role EXCEPT ![owner] = "owner"]
    /\ active' = [u \in Users |-> u \in everyone]
    /\ writeGroupEvent(1, FALSE, everyone, {})
    /\ UNCHANGED <<visible_from_sequence, log, cursors, sending>>

(* Group membership and roles.                                             *)

\* Faulty: a returning member keeps the boundary of the first stay.
AddMemberKeepsBoundary(caller, member) ==
    /\ groupActor(caller, {"owner", "admin"})
    /\ Cardinality(ActiveMembers) < MaxGroupMembers
    /\ ~active[member]
    /\ role' = [role EXCEPT ![member] = "member"]
    /\ active' = [active EXCEPT ![member] = TRUE]
    /\ last_read_sequence' = [last_read_sequence EXCEPT ![member] = next_sequence - 1]
    /\ BumpRevision
    /\ writeGroupSystemEntry(caller, ActiveMembers \cup {member},
                             [unread_count EXCEPT ![member] = 0])
    /\ writeGroupEvent(membership_revision + 1, FALSE, ActiveMembers \cup {member}, {member})
    /\ UNCHANGED <<kind, owner_id, visible_from_sequence, sending>>

AddMember(caller, member) ==
    /\ groupActor(caller, {"owner", "admin"})
    /\ Cardinality(ActiveMembers) < MaxGroupMembers
    /\ ~active[member]
    /\ role' = [role EXCEPT ![member] = "member"]
    /\ active' = [active EXCEPT ![member] = TRUE]
    /\ visible_from_sequence' = [visible_from_sequence EXCEPT ![member] = next_sequence]
    /\ last_read_sequence' = [last_read_sequence EXCEPT ![member] = next_sequence - 1]
    /\ BumpRevision
    /\ writeGroupSystemEntry(caller, ActiveMembers \cup {member},
                             [unread_count EXCEPT ![member] = 0])
    /\ writeGroupEvent(membership_revision + 1, FALSE, ActiveMembers \cup {member}, {member})
    /\ UNCHANGED <<kind, owner_id, sending>>

\* Removal and leaving: the row stays, inactive, with its role and boundary.
Deactivate(actor, member) ==
    /\ active' = [active EXCEPT ![member] = FALSE]
    /\ BumpRevision
    /\ writeGroupSystemEntry(actor, ActiveMembers \ {member}, unread_count)
    /\ writeGroupEvent(membership_revision + 1, FALSE, ActiveMembers \ {member}, {member})
    /\ UNCHANGED <<kind, owner_id, role, visible_from_sequence, last_read_sequence, sending>>

RemoveMember(caller, member) ==
    /\ groupActor(caller, {"owner", "admin"})
    /\ member # owner_id
    /\ active[member]
    /\ Deactivate(caller, member)

RenameGroup(caller) ==
    /\ groupActor(caller, {"owner", "admin"})
    /\ BumpRevision
    /\ writeGroupEvent(membership_revision + 1, FALSE, ActiveMembers, {})
    /\ UNCHANGED <<kind, roster, log, cursors, sending>>

ChangeRole(caller, member, new_role) ==
    /\ groupActor(caller, {"owner", "admin"})
    /\ new_role # "owner"
    /\ member # owner_id
    /\ active[member]
    /\ role' = [role EXCEPT ![member] = new_role]
    /\ BumpRevision
    /\ writeGroupSystemEntry(caller, ActiveMembers, unread_count)
    /\ writeGroupEvent(membership_revision + 1, FALSE, ActiveMembers, {})
    /\ UNCHANGED <<kind, owner_id, active, visible_from_sequence, last_read_sequence, sending>>

TransferOwnership(caller, member) ==
    /\ groupActor(caller, {"owner"})
    /\ caller # member
    /\ active[member]
    /\ role' = [role EXCEPT ![member] = "owner", ![caller] = "admin"]
    /\ owner_id' = member
    /\ BumpRevision
    /\ writeGroupSystemEntry(caller, ActiveMembers, unread_count)
    /\ writeGroupEvent(membership_revision + 1, FALSE, ActiveMembers, {})
    /\ UNCHANGED <<kind, active, visible_from_sequence, last_read_sequence, sending>>

\* The owner may only leave as the last member, and takes the group along.
LeaveGroup(caller) ==
    \/ /\ groupActor(caller, {"admin", "member"})
       /\ Deactivate(caller, caller)
    \/ /\ groupActor(caller, {"owner"})
       /\ Cardinality(ActiveMembers) <= 1
       /\ writeGroupEvent(membership_revision + 1, TRUE, ActiveMembers, {caller})
       /\ DropConversation
       /\ UNCHANGED sending

DeleteGroup(caller) ==
    /\ groupActor(caller, {"owner"})
    /\ writeGroupEvent(membership_revision + 1, TRUE, ActiveMembers, {})
    /\ DropConversation
    /\ UNCHANGED sending

(* Sender.Send.                                                            *)

\* The first statement's snapshot: the sender is an active member now.
SendSnapshot(h, user, client_id) ==
    /\ sending[h] = None
    /\ active[user]
    /\ sending' = [sending EXCEPT ![h] = [sender_id |-> user, client_message_id |-> client_id]]
    /\ UNCHANGED <<kind, membership_revision, roster, log, cursors, outbox_events>>

\* Faulty: no lookup of the client id.
SentNever(request) == FALSE

Sent(request) ==
    \E m \in messages : /\ m.sender_id = request.sender_id
                        /\ m.client_message_id = request.client_message_id

\* The lock is granted: a known client id returns the original message, another
\* one is persisted for the members active now.
SendLocked(h) ==
    /\ sending[h] # None
    /\ kind \in {"direct", "group"}
    /\ sending' = [sending EXCEPT ![h] = None]
    /\ \/ /\ Sent(sending[h])
          /\ UNCHANGED <<log, unread_count>>
       \/ /\ ~Sent(sending[h])
          /\ AppendMessage(sending[h].sender_id, sending[h].client_message_id, "user",
                           ActiveMembers, unread_count)
    /\ UNCHANGED <<kind, membership_revision, roster, last_read_sequence, outbox_events>>

\* Faulty: the sequence of a failed send is spent, as a PostgreSQL SEQUENCE would.
SendFailsSpendsSequence(h) ==
    /\ sending[h] # None
    /\ sending' = [sending EXCEPT ![h] = None]
    /\ next_sequence' = next_sequence + 1
    /\ next_sequence <= MaxMessages
    /\ UNCHANGED <<kind, membership_revision, roster, messages, message_delivery, cursors,
                   outbox_events>>

\* Rolled back: the conversation is gone, a mention is refused, or the database
\* or the request's context fails.
SendFails(h) ==
    /\ sending[h] # None
    /\ sending' = [sending EXCEPT ![h] = None]
    /\ UNCHANGED <<kind, membership_revision, roster, log, cursors, outbox_events>>

(* ReadCursorRepository.Advance.                                           *)

\* Faulty: the client's sequence as reported.
CappedNot(user, sequence) == sequence

Capped(user, sequence) ==
    LET floor == visible_from_sequence[user] - 1
        stored == {m.sequence : m \in messages} \cap {s \in Nat : s > floor}
        highest == Highest(stored \cup {floor})
    IN  IF sequence < floor THEN floor
        ELSE IF sequence < highest THEN sequence ELSE highest

\* Faulty: the latest report wins (no GREATEST).
AdvanceOverwrites(user, sequence) ==
    LET requested == Capped(user, sequence) IN
    /\ active[user]
    /\ last_read_sequence' = [last_read_sequence EXCEPT ![user] = requested]
    /\ unread_count' = [unread_count EXCEPT ![user] = Cardinality(UnreadAfter(user, requested))]
    /\ UNCHANGED <<kind, membership_revision, roster, log, outbox_events, sending>>

Advance(user, sequence) ==
    LET requested == Capped(user, sequence) IN
    /\ active[user]
    /\ \/ /\ requested > last_read_sequence[user]
          /\ last_read_sequence' = [last_read_sequence EXCEPT ![user] = requested]
          /\ unread_count' = [unread_count EXCEPT
                                ![user] = Cardinality(UnreadAfter(user, requested))]
       \/ /\ requested <= last_read_sequence[user]
          /\ UNCHANGED cursors
    /\ UNCHANGED <<kind, membership_revision, roster, log, outbox_events, sending>>

-----------------------------------------------------------------------------
Membership(u) ==
    \/ \E v \in Users : \/ CreateDirect(u, v)
                        \/ AddMember(u, v)
                        \/ RemoveMember(u, v)
                        \/ TransferOwnership(u, v)
    \/ \E v \in Users, r \in Roles : ChangeRole(u, v, r)
    \/ \E S \in SUBSET Users : CreateGroup(u, S)
    \/ RenameGroup(u)
    \/ LeaveGroup(u)
    \/ DeleteGroup(u)

Messaging(h) ==
    \/ \E u \in Users, c \in ClientIds : SendSnapshot(h, u, c)
    \/ SendLocked(h)
    \/ SendFails(h)

Reading(u) == \E s \in 1 .. MaxMessages + 1 : Advance(u, s)

Next ==
    \/ \E u \in Users : Membership(u) \/ Reading(u)
    \/ \E h \in Handlers : Messaging(h)

Spec == Init /\ [][Next]_vars

-----------------------------------------------------------------------------
(* Properties.                                                             *)

TypeOK ==
    /\ kind \in {"none", "direct", "group", "deleted"}
    /\ owner_id \in Users \cup {None}
    /\ membership_revision \in Nat
    /\ next_sequence \in Nat \ {0}
    /\ role \in [Users -> Roles]
    /\ active \in [Users -> BOOLEAN]
    /\ visible_from_sequence \in [Users -> Nat \ {0}]
    /\ messages \subseteq Message
    /\ message_delivery \in [Users -> SUBSET (Nat \ {0})]
    /\ last_read_sequence \in [Users -> Nat]
    /\ unread_count \in [Users -> Nat]
    /\ outbox_events \subseteq OutboxEvent
    /\ sending \in [Handlers -> SendRequest \cup {None}]

\* A group always has exactly one active member in the owner role, and it is the
\* user conversations.owner_id names: TransferOwnership, removal, leaving, role
\* changes and re-adding a former member never leave it without an owner or with
\* two.
SingleOwner ==
    kind = "group" => {u \in ActiveMembers : role[u] = "owner"} = {owner_id}

\* No sequence of concurrent additions takes a group over the member limit.
WithinMemberLimit ==
    kind = "group" => Cardinality(ActiveMembers) <= MaxGroupMembers

\* The stored sequences have no gap and no repetition, whatever transactions
\* failed or were retried in between.
SequencesDense ==
    /\ {m.sequence : m \in messages} = 1 .. next_sequence - 1
    /\ \A m, n \in messages : m.sequence = n.sequence => m = n

\* A retried message.send, on any replica, never stores its message twice.
SendIsIdempotent ==
    \A m, n \in messages :
        /\ m.kind = "user" /\ n.kind = "user"
        /\ m.sender_id = n.sender_id
        /\ m.client_message_id = n.client_message_id
        => m = n

\* The denormalized counter equals the number of messages it stands for, for
\* every member, whatever sends, reads and membership changes were interleaved.
UnreadIsExact ==
    \A u \in ActiveMembers :
        unread_count[u] = Cardinality(UnreadAfter(u, last_read_sequence[u]))

\* A cursor stays between the join boundary and the last stored message.
CursorWithinHistory ==
    \A u \in ActiveMembers :
        /\ last_read_sequence[u] >= visible_from_sequence[u] - 1
        /\ last_read_sequence[u] < next_sequence

\* What a device can have replayed to it is exactly what others sent since its
\* owner joined: nothing from before a rejoin, and nothing missing.
ReplayCoversMembership ==
    \A u \in ActiveMembers :
        {s \in message_delivery[u] : s >= visible_from_sequence[u]}
          = {m.sequence : m \in UnreadAfter(u, 0)}

\* Where no conversation is stored, none of its rows is: a creation starts from
\* nothing and a deletion cascades to everything.
NothingStored ==
    kind \in {"none", "deleted"} =>
        /\ owner_id = None
        /\ next_sequence = 1
        /\ messages = {}
        /\ \A u \in Users : /\ role[u] = "member"
                            /\ ~active[u]
                            /\ visible_from_sequence[u] = 1
                            /\ last_read_sequence[u] = 0
                            /\ unread_count[u] = 0

\* The owner is an active member, and the only one in the owner role: the role
\* column of the others says so too.
OwnerIsMember ==
    kind = "group" => /\ owner_id \in Users
                      /\ active[owner_id]
                      /\ \A u \in ActiveMembers : role[u] = "owner" <=> u = owner_id

\* No join boundary lies beyond the next sequence.
BoundaryWithinLog == \A u \in Users : visible_from_sequence[u] <= next_sequence

\* A delivery row is of a stored message.
DeliveryWithinLog == \A u \in Users : message_delivery[u] \subseteq 1 .. next_sequence - 1

\* No event is ahead of the conversation it announces, and none announces a deletion
\* before it.
EventsArePast ==
    /\ kind = "none" => outbox_events = {}
    /\ kind \in {"direct", "group"} =>
          \A e \in outbox_events : ~e.deleted /\ e.membership_revision <= membership_revision

\* The outbox holds one event per revision, and the newest one carries the
\* roster as it is: a consumer that applies the highest revision converges.
NewestEventIsRoster ==
    kind = "group" =>
        \A r \in 1 .. membership_revision :
            \E e \in outbox_events :
                /\ e.membership_revision = r
                /\ \A f \in outbox_events : f.membership_revision = r => f = e
                /\ r = membership_revision => e.authorized_user_ids = ActiveMembers

\* The event of a deletion outranks every event of the group before it.
DeletionOutranks ==
    \A e, f \in outbox_events :
        e.deleted /\ f # e => f.membership_revision < e.membership_revision

\* A consumer that applies the event of the highest revision it has seen, in
\* whatever order they come, ends with the roster as it is, or without the group
\* (conversation_repository.go:616, :588).
EventsConverge == NewestEventIsRoster /\ DeletionOutranks

\* The inductive invariant.
IInv ==
    /\ TypeOK
    /\ NothingStored
    /\ OwnerIsMember
    /\ WithinMemberLimit
    /\ IsFiniteSet(messages)
    /\ SequencesDense
    /\ BoundaryWithinLog
    /\ CursorWithinHistory
    /\ UnreadIsExact
    /\ DeliveryWithinLog
    /\ ReplayCoversMembership
    /\ EventsArePast
    /\ EventsConverge

\* Whoever gains or loses membership, or sees the owner change, is a recipient of
\* an event written by that very transaction.
ChangeIsAnnounced ==
    [][LET changed == {u \in Users : active'[u] # active[u]} IN
         changed # {} \/ owner_id' # owner_id =>
            \E e \in outbox_events' \ outbox_events :
                changed \cup ActiveMembers' \subseteq e.user_ids]_vars

\* A read cursor never moves backward while its owner stays a member.
CursorNeverMovesBack ==
    [][\A u \in Users : active[u] /\ active'[u] =>
          last_read_sequence'[u] >= last_read_sequence[u]]_vars

\* A message is stored only while its sender is a member, as if a send and a
\* removal took turns on the conversations row.
SendsSerializeWithRemoval ==
    [][\A m \in messages' \ messages : m.kind = "user" => active[m.sender_id]]_vars
=============================================================================
