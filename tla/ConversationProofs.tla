------------------------- MODULE ConversationProofs -------------------------
(***************************************************************************)
(* Proofs that the invariants of Conversation hold for every set of users, *)
(* client ids and handlers, every member limit and every bound.            *)
(***************************************************************************)
EXTENDS Conversation, TLAPS, FiniteSetTheorems

-----------------------------------------------------------------------------
(* Type correctness.                                                       *)

\* Appending a message keeps the types of the log and of the counters.
LEMMA AppendType ==
    ASSUME TypeOK, NEW sender \in Users, NEW cid \in ClientIds \cup {None},
           NEW k \in {"user", "system"}, NEW members \in SUBSET Users,
           NEW unread \in [Users -> Nat],
           AppendMessage(sender, cid, k, members, unread)
    PROVE  /\ next_sequence' \in Nat \ {0}
           /\ messages' \subseteq Message
           /\ message_delivery' \in [Users -> SUBSET (Nat \ {0})]
           /\ unread_count' \in [Users -> Nat]
  BY DEF TypeOK, AppendMessage, Message

\* An event written for known users is a well-formed outbox row.
LEMMA EventType ==
    ASSUME TypeOK, NEW revision \in Nat, NEW deleted \in BOOLEAN,
           NEW members \in SUBSET Users, NEW extra \in SUBSET Users,
           writeGroupEvent(revision, deleted, members, extra)
    PROVE  outbox_events' \subseteq OutboxEvent
  BY DEF TypeOK, writeGroupEvent, OutboxEvent

LEMMA DropType ==
    ASSUME TypeOK, DropConversation, outbox_events' \subseteq OutboxEvent, UNCHANGED sending
    PROVE  TypeOK'
  BY DEF TypeOK, DropConversation, Roles

LEMMA ActiveMembersType == ActiveMembers \in SUBSET Users /\ {} \in SUBSET Users
  BY DEF ActiveMembers

\* Removal and leaving keep the types.
LEMMA DeactivateType ==
    ASSUME TypeOK, NEW actor \in Users, NEW member \in Users, Deactivate(actor, member)
    PROVE  TypeOK'
<1>1. /\ next_sequence' \in Nat \ {0}
      /\ messages' \subseteq Message
      /\ message_delivery' \in [Users -> SUBSET (Nat \ {0})]
      /\ unread_count' \in [Users -> Nat]
  <2>1. AppendMessage(actor, None, "system", ActiveMembers \ {member}, unread_count)
    BY DEF Deactivate, writeGroupSystemEntry
  <2>. QED  BY <2>1, AppendType, ActiveMembersType DEF TypeOK
<1>2. outbox_events' \subseteq OutboxEvent
  <2>1. membership_revision + 1 \in Nat  BY DEF TypeOK
  <2>2. writeGroupEvent(membership_revision + 1, FALSE, ActiveMembers \ {member}, {member})
    BY DEF Deactivate
  <2>. QED  BY <2>1, <2>2, EventType, ActiveMembersType
<1>3. /\ active' \in [Users -> BOOLEAN]
      /\ membership_revision' \in Nat
  BY DEF TypeOK, Deactivate, BumpRevision
<1>4. UNCHANGED <<kind, owner_id, role, visible_from_sequence, last_read_sequence, sending>>
  BY DEF Deactivate
<1>. QED  BY <1>1, <1>2, <1>3, <1>4 DEF TypeOK

\* Every step of a membership transaction keeps the types.
LEMMA MembershipType ==
    ASSUME TypeOK, NEW u \in Users, Membership(u)
    PROVE  TypeOK'
<1>. USE ActiveMembersType
<1>0. membership_revision + 1 \in Nat  BY DEF TypeOK
<1>1. ASSUME NEW v \in Users, CreateDirect(u, v)  PROVE TypeOK'
  <2>1. /\ kind' = "direct"
        /\ membership_revision' = 1
        /\ active' \in [Users -> BOOLEAN]
    BY <1>1 DEF CreateDirect
  <2>2. outbox_events' \subseteq OutboxEvent
    <3>1. {u, v} \in SUBSET Users  OBVIOUS
    <3>2. outbox_events' = outbox_events \cup
             {[event_type |-> "conversation.created", membership_revision |-> 0,
               deleted |-> FALSE, user_ids |-> {u, v}, authorized_user_ids |-> {}]}
      BY <1>1 DEF CreateDirect
    <3>3. [event_type |-> "conversation.created", membership_revision |-> 0, deleted |-> FALSE,
           user_ids |-> {u, v}, authorized_user_ids |-> {}] \in OutboxEvent
      BY <3>1 DEF OutboxEvent
    <3>. QED  BY <3>2, <3>3 DEF TypeOK
  <2>3. UNCHANGED <<owner_id, role, visible_from_sequence, next_sequence, messages,
                    message_delivery, last_read_sequence, unread_count, sending>>
    BY <1>1 DEF CreateDirect, log, cursors
  <2>. QED  BY <2>1, <2>2, <2>3 DEF TypeOK
<1>2. ASSUME NEW v \in Users, AddMember(u, v)  PROVE TypeOK'
  <2>1. [unread_count EXCEPT ![v] = 0] \in [Users -> Nat]  BY DEF TypeOK
  <2>2. AppendMessage(u, None, "system", ActiveMembers \cup {v},
                      [unread_count EXCEPT ![v] = 0])
    BY <1>2 DEF AddMember, writeGroupSystemEntry
  <2>3. /\ next_sequence' \in Nat \ {0}
        /\ messages' \subseteq Message
        /\ message_delivery' \in [Users -> SUBSET (Nat \ {0})]
        /\ unread_count' \in [Users -> Nat]
    BY <2>1, <2>2, AppendType
  <2>4. outbox_events' \subseteq OutboxEvent
    <3>1. writeGroupEvent(membership_revision + 1, FALSE, ActiveMembers \cup {v}, {v})
      BY <1>2 DEF AddMember
    <3>. QED  BY <1>0, <3>1, EventType
  <2>5. /\ role' \in [Users -> Roles]
        /\ active' \in [Users -> BOOLEAN]
        /\ membership_revision' \in Nat
    BY <1>2 DEF TypeOK, AddMember, BumpRevision, Roles
  <2>6. /\ visible_from_sequence' \in [Users -> Nat \ {0}]
        /\ last_read_sequence' \in [Users -> Nat]
    BY <1>2 DEF TypeOK, AddMember
  <2>7. UNCHANGED <<kind, owner_id, sending>>
    BY <1>2 DEF AddMember
  <2>. QED  BY <2>3, <2>4, <2>5, <2>6, <2>7 DEF TypeOK
<1>3. ASSUME NEW v \in Users, RemoveMember(u, v)  PROVE TypeOK'
  BY <1>3, DeactivateType DEF RemoveMember
<1>4. ASSUME NEW v \in Users, TransferOwnership(u, v)  PROVE TypeOK'
  <2>1. AppendMessage(u, None, "system", ActiveMembers, unread_count)
    BY <1>4 DEF TransferOwnership, writeGroupSystemEntry
  <2>2. /\ next_sequence' \in Nat \ {0}
        /\ messages' \subseteq Message
        /\ message_delivery' \in [Users -> SUBSET (Nat \ {0})]
        /\ unread_count' \in [Users -> Nat]
    BY <2>1, AppendType DEF TypeOK
  <2>3. outbox_events' \subseteq OutboxEvent
    <3>1. writeGroupEvent(membership_revision + 1, FALSE, ActiveMembers, {})
      BY <1>4 DEF TransferOwnership
    <3>. QED  BY <1>0, <3>1, EventType
  <2>4. /\ role' \in [Users -> Roles]
        /\ owner_id' \in Users \cup {None}
        /\ membership_revision' \in Nat
    BY <1>4 DEF TypeOK, TransferOwnership, BumpRevision, Roles
  <2>5. UNCHANGED <<kind, active, visible_from_sequence, last_read_sequence, sending>>
    BY <1>4 DEF TransferOwnership
  <2>. QED  BY <2>2, <2>3, <2>4, <2>5 DEF TypeOK
<1>5. ASSUME NEW v \in Users, NEW r \in Roles, ChangeRole(u, v, r)  PROVE TypeOK'
  <2>1. AppendMessage(u, None, "system", ActiveMembers, unread_count)
    BY <1>5 DEF ChangeRole, writeGroupSystemEntry
  <2>2. /\ next_sequence' \in Nat \ {0}
        /\ messages' \subseteq Message
        /\ message_delivery' \in [Users -> SUBSET (Nat \ {0})]
        /\ unread_count' \in [Users -> Nat]
    BY <2>1, AppendType DEF TypeOK
  <2>3. outbox_events' \subseteq OutboxEvent
    <3>1. writeGroupEvent(membership_revision + 1, FALSE, ActiveMembers, {})
      BY <1>5 DEF ChangeRole
    <3>. QED  BY <1>0, <3>1, EventType
  <2>4. /\ role' \in [Users -> Roles]
        /\ membership_revision' \in Nat
    BY <1>5 DEF TypeOK, ChangeRole, BumpRevision
  <2>5. UNCHANGED <<kind, owner_id, active, visible_from_sequence, last_read_sequence, sending>>
    BY <1>5 DEF ChangeRole
  <2>. QED  BY <2>2, <2>3, <2>4, <2>5 DEF TypeOK
<1>6. ASSUME NEW S \in SUBSET Users, CreateGroup(u, S)  PROVE TypeOK'
  <2>1. outbox_events' \subseteq OutboxEvent
    <3>1. writeGroupEvent(1, FALSE, S \cup {u}, {})  BY <1>6 DEF CreateGroup
    <3>. QED  BY <3>1, EventType
  <2>2. /\ kind' = "group"
        /\ owner_id' = u
        /\ membership_revision' = 1
        /\ role' = [role EXCEPT ![u] = "owner"]
        /\ active' \in [Users -> BOOLEAN]
    BY <1>6 DEF CreateGroup
  <2>3. UNCHANGED <<visible_from_sequence, next_sequence, messages, message_delivery,
                    last_read_sequence, unread_count, sending>>
    BY <1>6 DEF CreateGroup, log, cursors
  <2>. QED  BY <2>1, <2>2, <2>3 DEF TypeOK, Roles
<1>7. CASE RenameGroup(u)
  <2>1. outbox_events' \subseteq OutboxEvent
    <3>1. writeGroupEvent(membership_revision + 1, FALSE, ActiveMembers, {})
      BY <1>7 DEF RenameGroup
    <3>. QED  BY <1>0, <3>1, EventType
  <2>2. membership_revision' \in Nat  BY <1>7 DEF TypeOK, RenameGroup, BumpRevision
  <2>3. UNCHANGED <<kind, owner_id, role, active, visible_from_sequence, next_sequence,
                    messages, message_delivery, last_read_sequence, unread_count, sending>>
    BY <1>7 DEF RenameGroup, roster, log, cursors
  <2>. QED  BY <2>1, <2>2, <2>3 DEF TypeOK
<1>8. CASE LeaveGroup(u)
  <2>1. CASE Deactivate(u, u)  BY <2>1, DeactivateType
  <2>2. CASE /\ writeGroupEvent(membership_revision + 1, TRUE, ActiveMembers, {u})
             /\ DropConversation
             /\ UNCHANGED sending
    BY <1>0, <2>2, EventType, DropType
  <2>. QED  BY <1>8, <2>1, <2>2 DEF LeaveGroup
<1>9. CASE DeleteGroup(u)
  <2>1. /\ writeGroupEvent(membership_revision + 1, TRUE, ActiveMembers, {})
        /\ DropConversation
        /\ UNCHANGED sending
    BY <1>9 DEF DeleteGroup
  <2>. QED  BY <1>0, <2>1, EventType, DropType
<1>. QED  BY <1>1, <1>2, <1>3, <1>4, <1>5, <1>6, <1>7, <1>8, <1>9 DEF Membership

\* Every step of a send handler keeps the types.
LEMMA MessagingType ==
    ASSUME TypeOK, NEW h \in Handlers, Messaging(h)
    PROVE  TypeOK'
<1>1. ASSUME NEW u \in Users, NEW c \in ClientIds, SendSnapshot(h, u, c)  PROVE TypeOK'
  BY <1>1 DEF SendSnapshot, TypeOK, SendRequest, roster, log, cursors
<1>2. CASE SendLocked(h)
  <2>0. sending[h] \in SendRequest  BY <1>2 DEF SendLocked, TypeOK
  <2>1. CASE UNCHANGED <<log, unread_count>>
    BY <1>2, <2>1 DEF SendLocked, TypeOK, roster, log
  <2>2. CASE AppendMessage(sending[h].sender_id, sending[h].client_message_id, "user",
                           ActiveMembers, unread_count)
    <3>1. /\ next_sequence' \in Nat \ {0}
          /\ messages' \subseteq Message
          /\ message_delivery' \in [Users -> SUBSET (Nat \ {0})]
          /\ unread_count' \in [Users -> Nat]
      BY <2>0, <2>2, AppendType, ActiveMembersType DEF TypeOK, SendRequest
    <3>. QED  BY <1>2, <3>1 DEF SendLocked, TypeOK, roster
  <2>. QED  BY <1>2, <2>1, <2>2 DEF SendLocked
<1>3. CASE SendFails(h)
  BY <1>3 DEF SendFails, TypeOK, roster, log, cursors
<1>. QED  BY <1>1, <1>2, <1>3 DEF Messaging

-----------------------------------------------------------------------------
(* The log.                                                                *)

LogInv == IsFiniteSet(messages) /\ SequencesDense

\* A step appends one message, leaves the log alone, or deletes it.
LEMMA LogSteps ==
    ASSUME TypeOK, [Next]_vars
    PROVE  \/ UNCHANGED <<messages, next_sequence>>
           \/ DropConversation
           \/ \E sender \in Users, cid \in ClientIds \cup {None}, k \in {"user", "system"},
                members \in SUBSET Users, unread \in [Users -> Nat] :
                AppendMessage(sender, cid, k, members, unread)
<1>. DEFINE Appends == \E sender \in Users, cid \in ClientIds \cup {None}, k \in {"user", "system"},
                        members \in SUBSET Users, unread \in [Users -> Nat] :
                        AppendMessage(sender, cid, k, members, unread)
            Goal == UNCHANGED <<messages, next_sequence>> \/ DropConversation \/ Appends
<1>. USE ActiveMembersType
<1>0. unread_count \in [Users -> Nat]  BY DEF TypeOK
<1>1. ASSUME NEW u \in Users, Membership(u)  PROVE Goal
  <2>1. ASSUME NEW v \in Users, CreateDirect(u, v)  PROVE Goal
    BY <2>1 DEF CreateDirect, log
  <2>2. ASSUME NEW v \in Users, AddMember(u, v)  PROVE Goal
    <3>1. [unread_count EXCEPT ![v] = 0] \in [Users -> Nat]  BY <1>0
    <3>2. AppendMessage(u, None, "system", ActiveMembers \cup {v},
                        [unread_count EXCEPT ![v] = 0])
      BY <2>2 DEF AddMember, writeGroupSystemEntry
    <3>. QED  BY <3>1, <3>2
  <2>3. ASSUME NEW v \in Users, Deactivate(u, v)  PROVE Goal
    <3>1. AppendMessage(u, None, "system", ActiveMembers \ {v}, unread_count)
      BY <2>3 DEF Deactivate, writeGroupSystemEntry
    <3>. QED  BY <1>0, <3>1
  <2>4. ASSUME NEW v \in Users, TransferOwnership(u, v)  PROVE Goal
    <3>1. AppendMessage(u, None, "system", ActiveMembers, unread_count)
      BY <2>4 DEF TransferOwnership, writeGroupSystemEntry
    <3>. QED  BY <1>0, <3>1
  <2>5. ASSUME NEW v \in Users, NEW r \in Roles, ChangeRole(u, v, r)  PROVE Goal
    <3>1. AppendMessage(u, None, "system", ActiveMembers, unread_count)
      BY <2>5 DEF ChangeRole, writeGroupSystemEntry
    <3>. QED  BY <1>0, <3>1
  <2>6. ASSUME NEW S \in SUBSET Users, CreateGroup(u, S)  PROVE Goal
    BY <2>6 DEF CreateGroup, log
  <2>7. CASE RenameGroup(u)  BY <2>7 DEF RenameGroup, log
  <2>8. CASE LeaveGroup(u)  BY <2>3, <2>8 DEF LeaveGroup
  <2>9. CASE DeleteGroup(u)  BY <2>9 DEF DeleteGroup
  <2>10. ASSUME NEW v \in Users, RemoveMember(u, v)  PROVE Goal
    BY <2>3, <2>10 DEF RemoveMember
  <2>. QED  BY <1>1, <2>1, <2>2, <2>4, <2>5, <2>6, <2>7, <2>8, <2>9, <2>10 DEF Membership
<1>2. ASSUME NEW h \in Handlers, Messaging(h)  PROVE Goal
  <2>1. ASSUME NEW u \in Users, NEW c \in ClientIds, SendSnapshot(h, u, c)  PROVE Goal
    BY <2>1 DEF SendSnapshot, log
  <2>2. CASE SendLocked(h)
    <3>1. sending[h] \in SendRequest  BY <2>2 DEF SendLocked, TypeOK
    <3>2. CASE AppendMessage(sending[h].sender_id, sending[h].client_message_id, "user",
                             ActiveMembers, unread_count)
      <4>1. sending[h].sender_id \in Users /\ sending[h].client_message_id \in ClientIds
        BY <3>1 DEF SendRequest
      <4>. QED  BY <1>0, <3>2, <4>1
    <3>3. CASE UNCHANGED log  BY <3>3 DEF log
    <3>. QED  BY <2>2, <3>2, <3>3 DEF SendLocked
  <2>3. CASE SendFails(h)  BY <2>3 DEF SendFails, log
  <2>. QED  BY <1>2, <2>1, <2>2, <2>3 DEF Messaging
<1>3. ASSUME NEW u \in Users, Reading(u)  PROVE Goal
  BY <1>3 DEF Reading, Advance, log
<1>4. CASE UNCHANGED vars  BY <1>4 DEF vars, log
<1>. QED  BY <1>1, <1>2, <1>3, <1>4 DEF Next

\* Appending the next sequence keeps the log finite and dense.
LEMMA AppendLog ==
    ASSUME TypeOK, LogInv, NEW sender, NEW cid, NEW k, NEW members, NEW unread,
           AppendMessage(sender, cid, k, members, unread)
    PROVE  LogInv'
<1>. DEFINE new == [sequence |-> next_sequence, sender_id |-> sender,
                    client_message_id |-> cid, kind |-> k]
<1>1. messages' = messages \cup {new} /\ next_sequence' = next_sequence + 1
  BY DEF AppendMessage
<1>2. IsFiniteSet(messages')  BY <1>1, FS_AddElement DEF LogInv
<1>3. {m.sequence : m \in messages'} = {m.sequence : m \in messages} \cup {next_sequence}
  <2>1. new.sequence = next_sequence  OBVIOUS
  <2>. HIDE DEF new
  <2>. QED  BY <1>1, <2>1, Zenon
<1>4. 1 .. next_sequence' - 1 = (1 .. next_sequence - 1) \cup {next_sequence}
  BY <1>1 DEF TypeOK
<1>5. \A m \in messages : m.sequence # next_sequence
  BY DEF LogInv, SequencesDense, TypeOK
<1>6. \A m, n \in messages' : m.sequence = n.sequence => m = n
  BY <1>1, <1>5 DEF LogInv, SequencesDense
<1>. QED  BY <1>2, <1>3, <1>4, <1>6 DEF LogInv, SequencesDense

LEMMA LogStep ==
    ASSUME TypeOK, LogInv, [Next]_vars
    PROVE  LogInv'
<1>1. CASE UNCHANGED <<messages, next_sequence>>
  BY <1>1 DEF LogInv, SequencesDense
<1>2. CASE DropConversation
  <2>1. messages' = {} /\ next_sequence' = 1  BY <1>2 DEF DropConversation
  <2>. QED  BY <2>1, FS_EmptySet DEF LogInv, SequencesDense
<1>. QED  BY <1>1, <1>2, LogSteps, AppendLog

-----------------------------------------------------------------------------
(* Reading.                                                                *)

LEMMA HighestIs ==
    ASSUME NEW S \in SUBSET Nat, NEW x \in S, \A y \in S : y <= x
    PROVE  Highest(S) = x
<1>1. \E z \in S : \A y \in S : y <= z  OBVIOUS
<1>2. Highest(S) \in S /\ \A y \in S : y <= Highest(S)  BY <1>1 DEF Highest
<1>3. x <= Highest(S) /\ Highest(S) <= x  BY <1>2
<1>4. x \in Nat /\ Highest(S) \in Nat  BY <1>2
<1>. QED  BY <1>3, <1>4

\* The sequence a report is capped to lies between the reader's join boundary
\* and the last stored message.
LEMMA CappedRange ==
    ASSUME TypeOK, SequencesDense, BoundaryWithinLog, NEW u \in Users, NEW s \in Nat
    PROVE  /\ Capped(u, s) \in Nat
           /\ visible_from_sequence[u] - 1 <= Capped(u, s)
           /\ Capped(u, s) <= next_sequence - 1
<1>. DEFINE floor == visible_from_sequence[u] - 1
            stored == {m.sequence : m \in messages} \cap {n \in Nat : n > floor}
            last == next_sequence - 1
<1>1. floor \in Nat /\ last \in Nat /\ floor <= last
  BY DEF TypeOK, BoundaryWithinLog
<1>2. stored = {n \in 1 .. last : n > floor}
  <2>1. stored = (1 .. last) \cap {n \in Nat : n > floor}  BY DEF SequencesDense
  <2>. QED  BY <2>1
<1>3. Highest(stored \cup {floor}) = last
  <2>1. stored \cup {floor} \in SUBSET Nat  BY <1>1
  <2>2. last \in stored \cup {floor}  BY <1>1, <1>2
  <2>3. \A y \in stored \cup {floor} : y <= last  BY <1>1, <1>2
  <2>. HIDE DEF stored, floor, last
  <2>. QED  BY <2>1, <2>2, <2>3, HighestIs
<1>4. Capped(u, s) = IF s < floor THEN floor ELSE IF s < last THEN s ELSE last
  BY <1>3 DEF Capped
<1>. QED  BY <1>1, <1>4

LEMMA UnreadFinite ==
    ASSUME IsFiniteSet(messages), NEW u, NEW s
    PROVE  Cardinality(UnreadAfter(u, s)) \in Nat
<1>1. UnreadAfter(u, s) \subseteq messages  BY DEF UnreadAfter
<1>2. IsFiniteSet(UnreadAfter(u, s))  BY <1>1, FS_Subset
<1>. QED  BY <1>2, FS_CardinalityType

LEMMA ReadingType ==
    ASSUME IInv, NEW u \in Users, Reading(u)
    PROVE  TypeOK'
<1>1. PICK s \in 1 .. MaxMessages + 1 : Advance(u, s)  BY DEF Reading
<1>2. Capped(u, s) \in Nat  BY CappedRange DEF IInv
<1>3. Cardinality(UnreadAfter(u, Capped(u, s))) \in Nat  BY UnreadFinite DEF IInv
<1>4. /\ last_read_sequence' \in [Users -> Nat]
      /\ unread_count' \in [Users -> Nat]
  BY <1>1, <1>2, <1>3 DEF Advance, cursors, IInv, TypeOK
<1>5. UNCHANGED <<kind, membership_revision, owner_id, role, active, visible_from_sequence,
                  messages, next_sequence, message_delivery, outbox_events, sending>>
  BY <1>1 DEF Advance, roster, log
<1>. QED  BY <1>4, <1>5 DEF IInv, TypeOK

\* Every step keeps the types, in a state that satisfies the invariant.
LEMMA TypeStep ==
    ASSUME IInv, [Next]_vars
    PROVE  TypeOK'
<1>. USE DEF IInv
<1>1. ASSUME NEW u \in Users, Membership(u)  PROVE TypeOK'  BY <1>1, MembershipType
<1>2. ASSUME NEW u \in Users, Reading(u)  PROVE TypeOK'  BY <1>2, ReadingType
<1>3. ASSUME NEW h \in Handlers, Messaging(h)  PROVE TypeOK'  BY <1>3, MessagingType
<1>4. CASE UNCHANGED vars  BY <1>4 DEF vars, roster, log, cursors, TypeOK
<1>. QED  BY <1>1, <1>2, <1>3, <1>4 DEF Next

-----------------------------------------------------------------------------
(* Counters.                                                               *)

Seen(S, u, from, after) == {m \in S : m.sender_id # u /\ m.sequence >= from /\ m.sequence > after}

\* What BoundaryWithinLog, CursorWithinHistory and UnreadIsExact ask of the
\* members, with their cursors and counters as parameters.
Counted(members, after, unread) ==
    \A u \in members : /\ after[u] >= visible_from_sequence'[u] - 1
                       /\ after[u] < next_sequence
                       /\ unread[u] = Cardinality(Seen(messages, u, visible_from_sequence'[u], after[u]))

\* An appended message is unread by every member but its sender, and by nobody else.
LEMMA AppendCounts ==
    ASSUME TypeOK, LogInv, NEW sender, NEW cid, NEW k, NEW members, NEW unread,
           AppendMessage(sender, cid, k, members, unread),
           NEW u \in Users, u \in members,
           NEW from \in Nat, from <= next_sequence, NEW after \in Nat, after < next_sequence,
           unread[u] = Cardinality(Seen(messages, u, from, after))
    PROVE  unread_count'[u] = Cardinality(Seen(messages', u, from, after))
<1>. DEFINE new == [sequence |-> next_sequence, sender_id |-> sender,
                    client_message_id |-> cid, kind |-> k]
            S == Seen(messages, u, from, after)
<1>1. messages' = messages \cup {new}  BY DEF AppendMessage
<1>2. new.sequence = next_sequence /\ new.sender_id = sender  OBVIOUS
<1>3. unread_count'[u] = IF u = sender THEN unread[u] ELSE unread[u] + 1
  BY DEF AppendMessage
<1>. HIDE DEF new
<1>4. CASE u = sender
  <2>1. Seen(messages', u, from, after) = S  BY <1>1, <1>2, <1>4 DEF Seen
  <2>. QED  BY <1>3, <1>4, <2>1
<1>5. CASE u # sender
  <2>1. next_sequence >= from /\ next_sequence > after  BY DEF TypeOK
  <2>2. Seen(messages', u, from, after) = S \cup {new}  BY <1>1, <1>2, <1>5, <2>1 DEF Seen
  <2>3. IsFiniteSet(S)
    <3>1. S \subseteq messages  BY DEF Seen
    <3>. QED  BY <3>1, FS_Subset DEF LogInv
  <2>4. new \notin S
    <3>1. \A m \in messages : m.sequence # next_sequence
      BY DEF LogInv, SequencesDense, TypeOK
    <3>. QED  BY <1>2, <3>1 DEF Seen
  <2>5. Cardinality(S \cup {new}) = Cardinality(S) + 1  BY <2>3, <2>4, FS_AddElement
  <2>. QED  BY <1>3, <1>5, <2>2, <2>5
<1>. QED  BY <1>4, <1>5

\* A transaction that appends a message for every member it leaves, from exact
\* counters, leaves exact counters and cursors within the history.
LEMMA AppendCounters ==
    ASSUME TypeOK, TypeOK', LogInv, NEW sender, NEW cid, NEW k, NEW members, NEW unread,
           AppendMessage(sender, cid, k, members, unread),
           ActiveMembers' \subseteq members,
           \A u \in Users : visible_from_sequence'[u] <= next_sequence,
           Counted(ActiveMembers', last_read_sequence', unread)
    PROVE  BoundaryWithinLog' /\ CursorWithinHistory' /\ UnreadIsExact'
<1>1. next_sequence' = next_sequence + 1  BY DEF AppendMessage
<1>2. BoundaryWithinLog'  BY <1>1 DEF BoundaryWithinLog, TypeOK
<1>3. ASSUME NEW u \in ActiveMembers'
      PROVE  /\ last_read_sequence'[u] >= visible_from_sequence'[u] - 1
             /\ last_read_sequence'[u] < next_sequence'
             /\ unread_count'[u] = Cardinality(UnreadAfter(u, last_read_sequence[u])')
  <2>1. u \in Users /\ u \in members  BY <1>3 DEF ActiveMembers
  <2>2. /\ last_read_sequence'[u] \in Nat
        /\ visible_from_sequence'[u] \in Nat
        /\ next_sequence \in Nat
    BY <2>1 DEF TypeOK
  <2>3. /\ last_read_sequence'[u] >= visible_from_sequence'[u] - 1
        /\ last_read_sequence'[u] < next_sequence
        /\ unread[u] = Cardinality(Seen(messages, u, visible_from_sequence'[u],
                                        last_read_sequence'[u]))
    BY <1>3 DEF Counted
  <2>4. unread_count'[u] = Cardinality(Seen(messages', u, visible_from_sequence'[u],
                                            last_read_sequence'[u]))
    BY <2>1, <2>2, <2>3, AppendCounts
  <2>5. UnreadAfter(u, last_read_sequence[u])'
          = Seen(messages', u, visible_from_sequence'[u], last_read_sequence'[u])
    BY DEF UnreadAfter, Seen
  <2>. QED  BY <1>1, <2>2, <2>3, <2>4, <2>5
<1>. QED  BY <1>2, <1>3 DEF CursorWithinHistory, UnreadIsExact

\* Members that stay, with their cursor and boundary, keep an exact counter.
LEMMA CountedStays ==
    ASSUME IInv, NEW members \in SUBSET ActiveMembers,
           UNCHANGED <<visible_from_sequence, last_read_sequence>>
    PROVE  /\ Counted(members, last_read_sequence', unread_count)
           /\ \A u \in Users : visible_from_sequence'[u] <= next_sequence
  BY DEF IInv, BoundaryWithinLog, CursorWithinHistory, UnreadIsExact, Counted, UnreadAfter, Seen

Counters == BoundaryWithinLog /\ CursorWithinHistory /\ UnreadIsExact

\* Removal and leaving leave the counters of the others exact.
LEMMA DeactivateCounters ==
    ASSUME IInv, TypeOK', LogInv, NEW actor \in Users, NEW member \in Users,
           Deactivate(actor, member)
    PROVE  Counters'
<1>1. AppendMessage(actor, None, "system", ActiveMembers \ {member}, unread_count)
  BY DEF Deactivate, writeGroupSystemEntry
<1>2. ActiveMembers' = ActiveMembers \ {member}
  BY DEF Deactivate, ActiveMembers, IInv, TypeOK
<1>3. UNCHANGED <<visible_from_sequence, last_read_sequence>>  BY DEF Deactivate
<1>4. /\ Counted(ActiveMembers', last_read_sequence', unread_count)
      /\ \A u \in Users : visible_from_sequence'[u] <= next_sequence
  BY <1>2, <1>3, CountedStays
<1>5. TypeOK  BY DEF IInv
<1>. QED  BY <1>1, <1>2, <1>4, <1>5, AppendCounters DEF Counters

\* A new or returning member starts after the last message: cursor there,
\* nothing unread.
LEMMA AddMemberCounters ==
    ASSUME IInv, TypeOK', LogInv, NEW caller \in Users, NEW member \in Users,
           AddMember(caller, member)
    PROVE  Counters'
<1>. DEFINE unread == [unread_count EXCEPT ![member] = 0]
<1>1. TypeOK  BY DEF IInv
<1>2. AppendMessage(caller, None, "system", ActiveMembers \cup {member}, unread)
  BY DEF AddMember, writeGroupSystemEntry
<1>3. ActiveMembers' = ActiveMembers \cup {member} /\ member \notin ActiveMembers
  BY <1>1 DEF AddMember, ActiveMembers, TypeOK
<1>4. /\ visible_from_sequence' = [visible_from_sequence EXCEPT ![member] = next_sequence]
      /\ last_read_sequence' = [last_read_sequence EXCEPT ![member] = next_sequence - 1]
  BY DEF AddMember
<1>5. \A u \in Users : visible_from_sequence'[u] <= next_sequence
  BY <1>1, <1>4 DEF IInv, BoundaryWithinLog, TypeOK
<1>6. ASSUME NEW u \in ActiveMembers
      PROVE  /\ last_read_sequence'[u] >= visible_from_sequence'[u] - 1
             /\ last_read_sequence'[u] < next_sequence
             /\ unread[u] = Cardinality(Seen(messages, u, visible_from_sequence'[u],
                                             last_read_sequence'[u]))
  <2>1. u \in Users /\ u # member  BY <1>3 DEF ActiveMembers
  <2>2. /\ visible_from_sequence'[u] = visible_from_sequence[u]
        /\ last_read_sequence'[u] = last_read_sequence[u]
        /\ unread[u] = unread_count[u]
    BY <1>1, <1>4, <2>1 DEF TypeOK
  <2>3. Seen(messages, u, visible_from_sequence[u], last_read_sequence[u])
          = UnreadAfter(u, last_read_sequence[u])
    BY DEF Seen, UnreadAfter
  <2>. QED  BY <2>2, <2>3 DEF IInv, CursorWithinHistory, UnreadIsExact
<1>7. /\ last_read_sequence'[member] >= visible_from_sequence'[member] - 1
      /\ last_read_sequence'[member] < next_sequence
      /\ unread[member] = Cardinality(Seen(messages, member, visible_from_sequence'[member],
                                           last_read_sequence'[member]))
  <2>1. /\ visible_from_sequence'[member] = next_sequence
        /\ last_read_sequence'[member] = next_sequence - 1
        /\ unread[member] = 0
    BY <1>1, <1>4 DEF TypeOK
  <2>2. \A m \in messages : m.sequence \in 1 .. next_sequence - 1
    BY DEF LogInv, SequencesDense
  <2>3. Seen(messages, member, next_sequence, next_sequence - 1) = {}
    BY <1>1, <2>2 DEF Seen, TypeOK
  <2>4. Cardinality(Seen(messages, member, next_sequence, next_sequence - 1)) = 0
    BY <2>3, FS_EmptySet
  <2>5. next_sequence \in Nat  BY <1>1 DEF TypeOK
  <2>. HIDE DEF unread
  <2>. QED  BY <2>1, <2>4, <2>5
<1>8. Counted(ActiveMembers', last_read_sequence', unread)
  <2>. HIDE DEF unread
  <2>. QED  BY <1>3, <1>6, <1>7 DEF Counted
<1>. HIDE DEF unread
<1>. QED  BY <1>1, <1>2, <1>3, <1>5, <1>8, AppendCounters DEF Counters

LEMMA MembershipCounters ==
    ASSUME IInv, TypeOK', LogInv, NEW u \in Users, Membership(u)
    PROVE  Counters'
<1>0. TypeOK  BY DEF IInv
\* A creation finds no conversation, so every cursor and counter is zero.
<1>. DEFINE Fresh == /\ kind \in {"none", "deleted"}
                     /\ UNCHANGED <<visible_from_sequence, log, cursors>>
<1>1. ASSUME Fresh  PROVE Counters'
  <2>1. /\ next_sequence' = 1
        /\ messages' = {}
        /\ \A v \in Users : /\ visible_from_sequence'[v] = 1
                            /\ last_read_sequence'[v] = 0
                            /\ unread_count'[v] = 0
    BY <1>1 DEF IInv, NothingStored, log, cursors
  <2>2. \A v, s : UnreadAfter(v, s)' = {}  BY <2>1 DEF UnreadAfter
  <2>3. \A v \in ActiveMembers' : v \in Users  BY DEF ActiveMembers
  <2>4. UnreadIsExact'  BY <2>1, <2>2, <2>3, FS_EmptySet DEF UnreadIsExact
  <2>. QED  BY <2>1, <2>3, <2>4 DEF Counters, BoundaryWithinLog, CursorWithinHistory
<1>2. ASSUME DropConversation  PROVE Counters'
  <2>1. ActiveMembers' = {}  BY <1>2 DEF DropConversation, ActiveMembers
  <2>2. BoundaryWithinLog'  BY <1>2 DEF DropConversation, BoundaryWithinLog
  <2>. QED  BY <2>1, <2>2 DEF Counters, CursorWithinHistory, UnreadIsExact
<1>3. ASSUME NEW v \in Users, CreateDirect(u, v)  PROVE Counters'
  BY <1>1, <1>3 DEF CreateDirect
<1>4. ASSUME NEW S \in SUBSET Users, CreateGroup(u, S)  PROVE Counters'
  BY <1>1, <1>4 DEF CreateGroup
<1>5. ASSUME NEW v \in Users, AddMember(u, v)  PROVE Counters'
  BY <1>5, AddMemberCounters
<1>6. ASSUME NEW v \in Users, RemoveMember(u, v)  PROVE Counters'
  BY <1>6, DeactivateCounters DEF RemoveMember
\* A role or owner change appends a system entry for an unchanged membership.
<1>7. ASSUME AppendMessage(u, None, "system", ActiveMembers, unread_count),
             UNCHANGED <<active, visible_from_sequence, last_read_sequence>>
      PROVE  Counters'
  <2>1. ActiveMembers' = ActiveMembers  BY <1>7 DEF ActiveMembers
  <2>2. /\ Counted(ActiveMembers', last_read_sequence', unread_count)
        /\ \A w \in Users : visible_from_sequence'[w] <= next_sequence
    BY <1>7, <2>1, CountedStays
  <2>. QED  BY <1>0, <1>7, <2>1, <2>2, AppendCounters DEF Counters
<1>8. ASSUME NEW v \in Users, TransferOwnership(u, v)  PROVE Counters'
  BY <1>7, <1>8 DEF TransferOwnership, writeGroupSystemEntry
<1>9. ASSUME NEW v \in Users, NEW r \in Roles, ChangeRole(u, v, r)  PROVE Counters'
  BY <1>7, <1>9 DEF ChangeRole, writeGroupSystemEntry
<1>10. CASE RenameGroup(u)
  BY <1>10 DEF RenameGroup, roster, log, cursors, IInv, Counters, BoundaryWithinLog,
               CursorWithinHistory, UnreadIsExact, UnreadAfter, ActiveMembers
<1>11. CASE LeaveGroup(u)
  BY <1>2, <1>11, DeactivateCounters DEF LeaveGroup
<1>12. CASE DeleteGroup(u)
  BY <1>2, <1>12 DEF DeleteGroup
<1>. HIDE DEF Fresh
<1>. QED  BY <1>3, <1>4, <1>5, <1>6, <1>8, <1>9, <1>10, <1>11, <1>12 DEF Membership

\* A stored message counts for the members its transaction saw; a read recounts.
LEMMA CounterStep ==
    ASSUME IInv, TypeOK', LogInv, [Next]_vars
    PROVE  Counters'
<1>0. TypeOK /\ Counters  BY DEF IInv, Counters
<1>1. ASSUME NEW u \in Users, Membership(u)  PROVE Counters'
  BY <1>1, MembershipCounters
<1>2. ASSUME NEW u \in Users, Reading(u)  PROVE Counters'
  <2>1. PICK s \in 1 .. MaxMessages + 1 : Advance(u, s)  BY <1>2 DEF Reading
  <2>2. UNCHANGED <<active, visible_from_sequence, messages, next_sequence>>
    BY <2>1 DEF Advance, roster, log
  <2>3. ActiveMembers' = ActiveMembers  BY <2>2 DEF ActiveMembers
  <2>5. CASE UNCHANGED cursors
    BY <1>0, <2>2, <2>3, <2>5 DEF cursors, Counters, BoundaryWithinLog, CursorWithinHistory,
                                  UnreadIsExact, UnreadAfter
  <2>6. CASE /\ last_read_sequence' = [last_read_sequence EXCEPT ![u] = Capped(u, s)]
             /\ unread_count' = [unread_count EXCEPT
                                   ![u] = Cardinality(UnreadAfter(u, Capped(u, s)))]
    <3>1. /\ Capped(u, s) \in Nat
          /\ visible_from_sequence[u] - 1 <= Capped(u, s)
          /\ Capped(u, s) <= next_sequence - 1
      BY CappedRange DEF IInv
    <3>2. BoundaryWithinLog'  BY <1>0, <2>2 DEF Counters, BoundaryWithinLog
    <3>3. ASSUME NEW v \in ActiveMembers
          PROVE  /\ last_read_sequence'[v] >= visible_from_sequence[v] - 1
                 /\ last_read_sequence'[v] < next_sequence
                 /\ unread_count'[v] = Cardinality(UnreadAfter(v, last_read_sequence'[v]))
      <4>1. v \in Users  BY DEF ActiveMembers
      <4>2. CASE v = u
        <5>1. /\ last_read_sequence'[v] = Capped(u, s)
              /\ unread_count'[v] = Cardinality(UnreadAfter(u, Capped(u, s)))
          BY <1>0, <2>6, <4>2 DEF TypeOK
        <5>2. next_sequence \in Nat /\ visible_from_sequence[u] \in Nat  BY <1>0 DEF TypeOK
        <5>. QED  BY <3>1, <4>2, <5>1, <5>2
      <4>3. CASE v # u
        <5>1. /\ last_read_sequence'[v] = last_read_sequence[v]
              /\ unread_count'[v] = unread_count[v]
          BY <1>0, <2>6, <4>1, <4>3 DEF TypeOK
        <5>. QED  BY <1>0, <5>1 DEF Counters, CursorWithinHistory, UnreadIsExact
      <4>. QED  BY <4>2, <4>3
    <3>4. CursorWithinHistory'  BY <2>2, <2>3, <3>3 DEF CursorWithinHistory
    <3>5. UnreadIsExact'  BY <2>2, <2>3, <3>3 DEF UnreadIsExact, UnreadAfter
    <3>. QED  BY <3>2, <3>4, <3>5 DEF Counters
  <2>. QED  BY <2>1, <2>5, <2>6 DEF Advance
<1>3. ASSUME NEW h \in Handlers, Messaging(h)  PROVE Counters'
  <2>1. UNCHANGED roster /\ UNCHANGED last_read_sequence
    BY <1>3 DEF Messaging, SendSnapshot, SendLocked, SendFails, cursors
  <2>2. ActiveMembers' = ActiveMembers  BY <2>1 DEF roster, ActiveMembers
  <2>3. CASE UNCHANGED <<log, unread_count>>
    BY <1>0, <2>1, <2>2, <2>3 DEF roster, log, Counters, BoundaryWithinLog,
                                  CursorWithinHistory, UnreadIsExact, UnreadAfter
  <2>4. CASE AppendMessage(sending[h].sender_id, sending[h].client_message_id, "user",
                           ActiveMembers, unread_count)
    <3>1. UNCHANGED <<visible_from_sequence, last_read_sequence>>  BY <2>1 DEF roster
    <3>2. /\ Counted(ActiveMembers', last_read_sequence', unread_count)
          /\ \A w \in Users : visible_from_sequence'[w] <= next_sequence
      BY <2>2, <3>1, CountedStays
    <3>. QED  BY <1>0, <2>2, <2>4, <3>2, AppendCounters DEF Counters
  <2>. QED  BY <1>3, <2>3, <2>4 DEF Messaging, SendSnapshot, SendLocked, SendFails, cursors
<1>4. CASE UNCHANGED vars
  BY <1>0, <1>4 DEF vars, roster, log, cursors, Counters, BoundaryWithinLog,
                    CursorWithinHistory, UnreadIsExact, UnreadAfter, ActiveMembers
<1>. QED  BY <1>1, <1>2, <1>3, <1>4 DEF Next

-----------------------------------------------------------------------------
(* The roster.                                                             *)

Roster == NothingStored /\ OwnerIsMember /\ WithinMemberLimit

LEMMA ActiveFinite == IsFiniteSet(ActiveMembers)
<1>1. ActiveMembers \subseteq Users  BY DEF ActiveMembers
<1>. QED  BY <1>1, FS_Subset, ConversationAssumption

\* Whoever leaves or is removed is not the owner, and makes room.
LEMMA DeactivateRoster ==
    ASSUME IInv, NEW actor \in Users, NEW member \in Users, Deactivate(actor, member),
           kind = "group", member # owner_id
    PROVE  Roster'
<1>1. ActiveMembers' = ActiveMembers \ {member}
  BY DEF Deactivate, ActiveMembers, IInv, TypeOK
<1>2. UNCHANGED <<kind, owner_id, role>> /\ active' = [active EXCEPT ![member] = FALSE]
  BY DEF Deactivate
<1>3. OwnerIsMember'  BY <1>1, <1>2 DEF IInv, OwnerIsMember, TypeOK
<1>4. WithinMemberLimit'
  <2>1. ActiveMembers' \subseteq ActiveMembers  BY <1>1
  <2>2. /\ Cardinality(ActiveMembers') <= Cardinality(ActiveMembers)
        /\ Cardinality(ActiveMembers') \in Nat
        /\ Cardinality(ActiveMembers) \in Nat
    BY <2>1, ActiveFinite, FS_Subset, FS_CardinalityType
  <2>3. Cardinality(ActiveMembers) <= MaxGroupMembers  BY DEF IInv, WithinMemberLimit
  <2>. QED  BY <2>2, <2>3, ConversationAssumption DEF WithinMemberLimit
<1>5. NothingStored'  BY <1>2 DEF NothingStored
<1>. QED  BY <1>3, <1>4, <1>5 DEF Roster

LEMMA DropRoster ==
    ASSUME DropConversation
    PROVE  Roster'
  BY DEF DropConversation, Roster, NothingStored, OwnerIsMember, WithinMemberLimit

\* Every membership transaction leaves one owner and respects the limit.
LEMMA MembershipRoster ==
    ASSUME IInv, NEW u \in Users, Membership(u)
    PROVE  Roster'
<1>0. TypeOK /\ Roster  BY DEF IInv, Roster
<1>1. ASSUME NEW v \in Users, CreateDirect(u, v)  PROVE Roster'
  BY <1>1 DEF CreateDirect, Roster, NothingStored, OwnerIsMember, WithinMemberLimit
<1>2. ASSUME NEW v \in Users, AddMember(u, v)  PROVE Roster'
  <2>1. /\ kind = "group"
        /\ v \notin ActiveMembers
        /\ Cardinality(ActiveMembers) < MaxGroupMembers
        /\ UNCHANGED <<kind, owner_id>>
    BY <1>2 DEF AddMember, groupActor, ActiveMembers
  <2>2. /\ role' = [role EXCEPT ![v] = "member"]
        /\ active' = [active EXCEPT ![v] = TRUE]
        /\ ~active[v]
    BY <1>2 DEF AddMember
  <2>3. ActiveMembers' = ActiveMembers \cup {v}
    BY <1>0, <2>2 DEF ActiveMembers, TypeOK
  <2>4. Cardinality(ActiveMembers') = Cardinality(ActiveMembers) + 1
    BY <2>1, <2>3, ActiveFinite, FS_AddElement
  <2>5. Cardinality(ActiveMembers) \in Nat  BY ActiveFinite, FS_CardinalityType
  <2>6. WithinMemberLimit'
    BY <2>1, <2>4, <2>5, ConversationAssumption DEF WithinMemberLimit
  <2>7. OwnerIsMember'
    BY <1>0, <2>1, <2>2, <2>3 DEF Roster, OwnerIsMember, TypeOK, ActiveMembers
  <2>8. NothingStored'  BY <2>1 DEF NothingStored
  <2>. QED  BY <2>6, <2>7, <2>8 DEF Roster
<1>3. ASSUME NEW v \in Users, RemoveMember(u, v)  PROVE Roster'
  BY <1>3, DeactivateRoster DEF RemoveMember, groupActor
<1>4. ASSUME NEW v \in Users, TransferOwnership(u, v)  PROVE Roster'
  <2>1. /\ kind = "group" /\ active[u] /\ role[u] = "owner" /\ u # v /\ active[v]
        /\ role' = [role EXCEPT ![v] = "owner", ![u] = "admin"]
        /\ owner_id' = v
        /\ UNCHANGED <<kind, active>>
    BY <1>4 DEF TransferOwnership, groupActor
  <2>2. ActiveMembers' = ActiveMembers  BY <2>1 DEF ActiveMembers
  <2>3. owner_id = u  BY <1>0, <2>1 DEF Roster, OwnerIsMember, ActiveMembers
  <2>4. OwnerIsMember'
    BY <1>0, <2>1, <2>2, <2>3 DEF Roster, OwnerIsMember, TypeOK, ActiveMembers
  <2>. QED  BY <1>0, <2>1, <2>2, <2>4 DEF Roster, NothingStored, WithinMemberLimit
<1>5. ASSUME NEW v \in Users, NEW r \in Roles, ChangeRole(u, v, r)  PROVE Roster'
  <2>1. /\ kind = "group" /\ r # "owner" /\ v # owner_id
        /\ role' = [role EXCEPT ![v] = r]
        /\ UNCHANGED <<kind, owner_id, active>>
    BY <1>5 DEF ChangeRole, groupActor
  <2>2. ActiveMembers' = ActiveMembers  BY <2>1 DEF ActiveMembers
  <2>3. OwnerIsMember'
    BY <1>0, <2>1, <2>2 DEF Roster, OwnerIsMember, TypeOK, ActiveMembers
  <2>. QED  BY <1>0, <2>1, <2>2, <2>3 DEF Roster, NothingStored, WithinMemberLimit
<1>6. ASSUME NEW S \in SUBSET Users, CreateGroup(u, S)  PROVE Roster'
  <2>1. /\ kind = "none"
        /\ kind' = "group"
        /\ owner_id' = u
        /\ role' = [role EXCEPT ![u] = "owner"]
        /\ active' = [w \in Users |-> w \in S \cup {u}]
        /\ Cardinality(S \cup {u}) <= MaxGroupMembers
    BY <1>6 DEF CreateGroup
  <2>2. ActiveMembers' = S \cup {u}  BY <2>1 DEF ActiveMembers
  <2>3. \A w \in Users : role[w] = "member"  BY <1>0, <2>1 DEF Roster, NothingStored
  <2>4. OwnerIsMember'  BY <1>0, <2>1, <2>2, <2>3 DEF OwnerIsMember, TypeOK
  <2>. QED  BY <2>1, <2>2, <2>4 DEF Roster, NothingStored, WithinMemberLimit
<1>7. CASE RenameGroup(u)
  BY <1>0, <1>7 DEF RenameGroup, roster, log, cursors, groupActor, Roster, NothingStored,
                    OwnerIsMember, WithinMemberLimit, ActiveMembers
<1>8. CASE LeaveGroup(u)
  <2>1. CASE groupActor(u, {"admin", "member"}) /\ Deactivate(u, u)
    <3>1. u # owner_id
      BY <1>0, <2>1 DEF groupActor, Roster, OwnerIsMember, ActiveMembers
    <3>. QED  BY <2>1, <3>1, DeactivateRoster DEF groupActor
  <2>. QED  BY <1>8, <2>1, DropRoster DEF LeaveGroup
<1>9. CASE DeleteGroup(u)  BY <1>9, DropRoster DEF DeleteGroup
<1>. QED  BY <1>1, <1>2, <1>3, <1>4, <1>5, <1>6, <1>7, <1>8, <1>9 DEF Membership

LEMMA RosterStep ==
    ASSUME IInv, [Next]_vars
    PROVE  Roster'
<1>0. TypeOK /\ Roster  BY DEF IInv, Roster
<1>1. ASSUME NEW u \in Users, Membership(u)  PROVE Roster'
  BY <1>1, MembershipRoster
<1>2. ASSUME NEW u \in Users, Reading(u)  PROVE Roster'
  <2>1. PICK s \in 1 .. MaxMessages + 1 : Advance(u, s)  BY <1>2 DEF Reading
  <2>2. active[u] /\ UNCHANGED <<kind, roster>>  BY <2>1 DEF Advance
  <2>3. kind \notin {"none", "deleted"}  BY <1>0, <2>2 DEF Roster, NothingStored
  <2>. QED  BY <1>0, <2>2, <2>3 DEF roster, Roster, NothingStored, OwnerIsMember,
                                    WithinMemberLimit, ActiveMembers
<1>3. ASSUME NEW h \in Handlers, Messaging(h)  PROVE Roster'
  <2>1. UNCHANGED <<kind, roster>>
    BY <1>3 DEF Messaging, SendSnapshot, SendLocked, SendFails
  <2>2. CASE kind \in {"direct", "group"}
    BY <1>0, <2>1, <2>2 DEF roster, Roster, NothingStored, OwnerIsMember,
                            WithinMemberLimit, ActiveMembers
  <2>3. CASE kind \notin {"direct", "group"}
    <3>1. UNCHANGED <<log, cursors>>
      BY <1>3, <2>3 DEF Messaging, SendSnapshot, SendLocked, SendFails
    <3>. QED  BY <1>0, <2>1, <3>1 DEF roster, log, cursors, Roster, NothingStored,
                                      OwnerIsMember, WithinMemberLimit, ActiveMembers
  <2>. QED  BY <2>2, <2>3
<1>4. CASE UNCHANGED vars
  BY <1>0, <1>4 DEF vars, roster, log, cursors, Roster, NothingStored, OwnerIsMember,
                    WithinMemberLimit, ActiveMembers
<1>. QED  BY <1>1, <1>2, <1>3, <1>4 DEF Next

-----------------------------------------------------------------------------
(* Delivery rows.                                                          *)

Replay == DeliveryWithinLog /\ ReplayCoversMembership

\* What ReplayCoversMembership asks of the members, from a given boundary on.
Covered(members, from) ==
    \A u \in members :
        {s \in message_delivery[u] : s >= from[u]}
          = {m.sequence : m \in Seen(messages, u, from[u], 0)}

\* An appended message has a delivery row for every member but its sender: for
\* those it is to be replayed to.
LEMMA AppendReplay ==
    ASSUME TypeOK, TypeOK', LogInv, DeliveryWithinLog,
           NEW sender, NEW cid, NEW k, NEW unread,
           AppendMessage(sender, cid, k, ActiveMembers', unread),
           \A u \in Users : visible_from_sequence'[u] <= next_sequence,
           Covered(ActiveMembers', visible_from_sequence')
    PROVE  Replay'
<1>. DEFINE new == [sequence |-> next_sequence, sender_id |-> sender,
                    client_message_id |-> cid, kind |-> k]
<1>1. /\ messages' = messages \cup {new}
      /\ next_sequence' = next_sequence + 1
      /\ message_delivery' =
            [u \in Users |-> IF u \in ActiveMembers' \ {sender}
                               THEN message_delivery[u] \cup {next_sequence}
                               ELSE message_delivery[u]]
  BY DEF AppendMessage
<1>2. new.sequence = next_sequence /\ new.sender_id = sender  OBVIOUS
<1>3. next_sequence \in Nat \ {0}  BY DEF TypeOK
<1>. HIDE DEF new
<1>4. DeliveryWithinLog'
  BY <1>1, <1>3 DEF DeliveryWithinLog
<1>5. ASSUME NEW u \in ActiveMembers'
      PROVE  {s \in message_delivery'[u] : s >= visible_from_sequence'[u]}
               = {m.sequence : m \in Seen(messages', u, visible_from_sequence'[u], 0)}
  <2>. DEFINE from == visible_from_sequence'[u]
              Old == Seen(messages, u, from, 0)
  <2>1. u \in Users  BY DEF ActiveMembers
  <2>2. next_sequence >= from /\ next_sequence > 0  BY <1>3, <2>1 DEF TypeOK
  <2>3. {s \in message_delivery[u] : s >= from} = {m.sequence : m \in Old}
    BY <1>5 DEF Covered
  <2>4. CASE u = sender
    <3>1. Seen(messages', u, from, 0) = Old  BY <1>1, <1>2, <2>4 DEF Seen
    <3>2. message_delivery'[u] = message_delivery[u]  BY <1>1, <2>1, <2>4
    <3>. QED  BY <2>3, <3>1, <3>2
  <2>5. CASE u # sender
    <3>1. Seen(messages', u, from, 0) = Old \cup {new}
      BY <1>1, <1>2, <2>2, <2>5 DEF Seen
    <3>2. message_delivery'[u] = message_delivery[u] \cup {next_sequence}
      BY <1>1, <1>5, <2>1, <2>5
    <3>3. {s \in message_delivery'[u] : s >= from}
            = {s \in message_delivery[u] : s >= from} \cup {next_sequence}
      BY <2>2, <3>2
    <3>4. {m.sequence : m \in Old \cup {new}} = {m.sequence : m \in Old} \cup {new.sequence}
      <4>. HIDE DEF Old
      <4>. QED  BY Zenon
    <3>. QED  BY <1>2, <2>3, <3>1, <3>3, <3>4
  <2>. QED  BY <2>4, <2>5
<1>6. ReplayCoversMembership'
  <2>1. \A u : UnreadAfter(u, 0)' = Seen(messages', u, visible_from_sequence'[u], 0)
    BY DEF UnreadAfter, Seen
  <2>. QED  BY <1>5, <2>1 DEF ReplayCoversMembership
<1>. QED  BY <1>4, <1>6 DEF Replay

\* Members that stay keep what is replayed to them.
LEMMA CoveredStays ==
    ASSUME ReplayCoversMembership, NEW members \in SUBSET ActiveMembers,
           UNCHANGED visible_from_sequence
    PROVE  Covered(members, visible_from_sequence')
  BY DEF ReplayCoversMembership, Covered, UnreadAfter, Seen

\* Nothing from before a rejoin is replayed: the new boundary lies above the log.
LEMMA AddMemberReplay ==
    ASSUME IInv, TypeOK', NEW caller \in Users, NEW member \in Users,
           AddMember(caller, member)
    PROVE  Replay'
<1>0. TypeOK /\ LogInv /\ DeliveryWithinLog /\ ReplayCoversMembership  BY DEF IInv, LogInv
<1>1. ActiveMembers' = ActiveMembers \cup {member} /\ member \notin ActiveMembers
  BY <1>0 DEF AddMember, ActiveMembers, TypeOK
<1>2. AppendMessage(caller, None, "system", ActiveMembers',
                    [unread_count EXCEPT ![member] = 0])
  BY <1>1 DEF AddMember, writeGroupSystemEntry
<1>3. visible_from_sequence' = [visible_from_sequence EXCEPT ![member] = next_sequence]
  BY DEF AddMember
<1>4. \A u \in Users : visible_from_sequence'[u] <= next_sequence
  BY <1>0, <1>3 DEF IInv, BoundaryWithinLog, TypeOK
<1>5. Covered(ActiveMembers, visible_from_sequence')
  <2>1. \A u \in ActiveMembers : visible_from_sequence'[u] = visible_from_sequence[u]
    BY <1>0, <1>1, <1>3 DEF ActiveMembers, TypeOK
  <2>. QED  BY <1>0, <2>1 DEF ReplayCoversMembership, Covered, UnreadAfter, Seen
<1>6. Covered({member}, visible_from_sequence')
  <2>1. visible_from_sequence'[member] = next_sequence /\ next_sequence \in Nat
    BY <1>0, <1>3 DEF TypeOK
  <2>2. {s \in message_delivery[member] : s >= next_sequence} = {}
    BY <1>0, <2>1 DEF DeliveryWithinLog
  <2>3. \A m \in messages : m.sequence \in 1 .. next_sequence - 1
    BY <1>0 DEF LogInv, SequencesDense
  <2>4. Seen(messages, member, next_sequence, 0) = {}  BY <2>1, <2>3 DEF Seen
  <2>5. {m.sequence : m \in Seen(messages, member, next_sequence, 0)} = {}  BY <2>4
  <2>. QED  BY <2>1, <2>2, <2>5 DEF Covered
<1>7. Covered(ActiveMembers', visible_from_sequence')  BY <1>1, <1>5, <1>6 DEF Covered
<1>. QED  BY <1>0, <1>2, <1>4, <1>7, AppendReplay

\* Every step keeps the delivery rows of the members in line with the log.
LEMMA ReplayStep ==
    ASSUME IInv, TypeOK', [Next]_vars
    PROVE  Replay'
<1>0. /\ TypeOK /\ LogInv /\ BoundaryWithinLog
      /\ DeliveryWithinLog /\ ReplayCoversMembership
  BY DEF IInv, LogInv
<1>1. ASSUME UNCHANGED <<log, active, visible_from_sequence>>  PROVE Replay'
  BY <1>0, <1>1 DEF log, Replay, DeliveryWithinLog, ReplayCoversMembership, UnreadAfter,
                    ActiveMembers
<1>2. ASSUME DropConversation  PROVE Replay'
  BY <1>2 DEF DropConversation, Replay, DeliveryWithinLog, ReplayCoversMembership, ActiveMembers
\* A creation finds neither messages nor delivery rows.
<1>3. ASSUME kind = "none", UNCHANGED <<visible_from_sequence, log>>  PROVE Replay'
  <2>1. messages' = {} /\ next_sequence' = 1  BY <1>3 DEF IInv, NothingStored, log
  <2>2. \A u \in Users : message_delivery'[u] = {}
    BY <1>0, <1>3, <2>1 DEF DeliveryWithinLog, log
  <2>3. \A u : UnreadAfter(u, 0)' = {}  BY <2>1 DEF UnreadAfter
  <2>4. \A u \in ActiveMembers' : u \in Users  BY DEF ActiveMembers
  <2>5. {m.sequence : m \in {}} = {}  OBVIOUS
  <2>. QED  BY <2>1, <2>2, <2>3, <2>4, <2>5 DEF Replay, DeliveryWithinLog, ReplayCoversMembership
\* An append for the members that the step leaves, none of them new.
<1>4. ASSUME NEW sender, NEW cid, NEW k, NEW unread,
             AppendMessage(sender, cid, k, ActiveMembers', unread),
             ActiveMembers' \subseteq ActiveMembers, UNCHANGED visible_from_sequence
      PROVE  Replay'
  <2>1. \A u \in Users : visible_from_sequence'[u] <= next_sequence
    BY <1>0, <1>4 DEF BoundaryWithinLog
  <2>. QED  BY <1>0, <1>4, <2>1, CoveredStays, AppendReplay
<1>5. ASSUME NEW u \in Users, NEW v \in Users, Deactivate(u, v)  PROVE Replay'
  <2>1. ActiveMembers' = ActiveMembers \ {v}
    BY <1>0, <1>5 DEF Deactivate, ActiveMembers, TypeOK
  <2>2. AppendMessage(u, None, "system", ActiveMembers', unread_count)
    BY <1>5, <2>1 DEF Deactivate, writeGroupSystemEntry
  <2>. QED  BY <1>4, <1>5, <2>1, <2>2 DEF Deactivate
<1>6. ASSUME NEW u \in Users, writeGroupSystemEntry(u, ActiveMembers, unread_count),
             UNCHANGED <<active, visible_from_sequence>>
      PROVE  Replay'
  <2>1. ActiveMembers' = ActiveMembers  BY <1>6 DEF ActiveMembers
  <2>. QED  BY <1>4, <1>6, <2>1 DEF writeGroupSystemEntry
<1>7. ASSUME NEW u \in Users, Membership(u)  PROVE Replay'
  <2>1. ASSUME NEW v \in Users, CreateDirect(u, v)  PROVE Replay'
    BY <1>3, <2>1 DEF CreateDirect
  <2>2. ASSUME NEW v \in Users, AddMember(u, v)  PROVE Replay'
    BY <2>2, AddMemberReplay
  <2>3. ASSUME NEW v \in Users, RemoveMember(u, v)  PROVE Replay'
    BY <1>5, <2>3 DEF RemoveMember
  <2>4. ASSUME NEW v \in Users, TransferOwnership(u, v)  PROVE Replay'
    BY <1>6, <2>4 DEF TransferOwnership
  <2>5. ASSUME NEW v \in Users, NEW r \in Roles, ChangeRole(u, v, r)  PROVE Replay'
    BY <1>6, <2>5 DEF ChangeRole
  <2>6. ASSUME NEW S \in SUBSET Users, CreateGroup(u, S)  PROVE Replay'
    BY <1>3, <2>6 DEF CreateGroup
  <2>7. CASE RenameGroup(u)  BY <1>1, <2>7 DEF RenameGroup, roster
  <2>8. CASE LeaveGroup(u)  BY <1>2, <1>5, <2>8 DEF LeaveGroup
  <2>9. CASE DeleteGroup(u)  BY <1>2, <2>9 DEF DeleteGroup
  <2>. QED  BY <1>7, <2>1, <2>2, <2>3, <2>4, <2>5, <2>6, <2>7, <2>8, <2>9 DEF Membership
<1>8. ASSUME NEW u \in Users, Reading(u)  PROVE Replay'
  BY <1>1, <1>8 DEF Reading, Advance, roster
<1>9. ASSUME NEW h \in Handlers, Messaging(h)  PROVE Replay'
  <2>1. UNCHANGED roster
    BY <1>9 DEF Messaging, SendSnapshot, SendLocked, SendFails
  <2>2. ActiveMembers' = ActiveMembers  BY <2>1 DEF roster, ActiveMembers
  <2>3. CASE UNCHANGED log  BY <1>1, <2>1, <2>3 DEF roster
  <2>4. CASE AppendMessage(sending[h].sender_id, sending[h].client_message_id, "user",
                           ActiveMembers, unread_count)
    BY <1>4, <2>1, <2>2, <2>4 DEF roster
  <2>. QED  BY <1>9, <2>3, <2>4 DEF Messaging, SendSnapshot, SendLocked, SendFails
<1>10. CASE UNCHANGED vars  BY <1>1, <1>10 DEF vars, roster
<1>. QED  BY <1>7, <1>8, <1>9, <1>10 DEF Next

-----------------------------------------------------------------------------
(* Events.                                                                 *)

Events == EventsArePast /\ EventsConverge

\* The event of a transaction that changes the group: it has the next revision,
\* which no event has, and carries the members that the transaction leaves.
LEMMA AnnouncedStep ==
    ASSUME TypeOK, Events, kind = "group", kind' = "group",
           membership_revision' = membership_revision + 1,
           NEW extra, writeGroupEvent(membership_revision', FALSE, ActiveMembers', extra)
    PROVE  Events'
<1>. DEFINE new == [event_type |-> "group.membership.changed",
                    membership_revision |-> membership_revision', deleted |-> FALSE,
                    user_ids |-> ActiveMembers' \cup extra,
                    authorized_user_ids |-> ActiveMembers']
<1>1. outbox_events' = outbox_events \cup {new}  BY DEF writeGroupEvent
<1>2. /\ new.membership_revision = membership_revision + 1 /\ ~new.deleted
      /\ new.authorized_user_ids = ActiveMembers'
  OBVIOUS
<1>. HIDE DEF new
<1>3. membership_revision \in Nat /\ \A e \in outbox_events : e.membership_revision \in Nat
  BY DEF TypeOK, OutboxEvent
<1>4. \A e \in outbox_events : ~e.deleted /\ e.membership_revision <= membership_revision
  BY DEF Events, EventsArePast
<1>5. EventsArePast'  BY <1>1, <1>2, <1>3, <1>4 DEF EventsArePast
<1>6. DeletionOutranks'  BY <1>1, <1>2, <1>4 DEF DeletionOutranks
<1>7. NewestEventIsRoster'
  <2>. SUFFICES ASSUME NEW r \in 1 .. membership_revision'
                PROVE  \E e \in outbox_events' :
                          /\ e.membership_revision = r
                          /\ \A f \in outbox_events' : f.membership_revision = r => f = e
                          /\ r = membership_revision' => e.authorized_user_ids = ActiveMembers'
    BY DEF NewestEventIsRoster
  <2>1. CASE r = membership_revision'
    <3>1. \A f \in outbox_events' : f.membership_revision = r => f = new
      BY <1>1, <1>3, <1>4, <2>1
    <3>. QED  BY <1>1, <1>2, <2>1, <3>1
  <2>2. CASE r # membership_revision'
    <3>1. r \in 1 .. membership_revision  BY <1>3, <2>2
    <3>2. PICK e \in outbox_events :
             /\ e.membership_revision = r
             /\ \A f \in outbox_events : f.membership_revision = r => f = e
      BY <3>1 DEF Events, EventsConverge, NewestEventIsRoster
    <3>. QED  BY <1>1, <1>2, <2>2, <3>2
  <2>. QED  BY <2>1, <2>2
<1>. QED  BY <1>5, <1>6, <1>7 DEF Events, EventsConverge

\* The event of a deletion is the last one.
LEMMA DeletedStep ==
    ASSUME TypeOK, Events, kind = "group", DropConversation,
           NEW extra, writeGroupEvent(membership_revision + 1, TRUE, ActiveMembers, extra)
    PROVE  Events'
<1>. DEFINE new == [event_type |-> "group.membership.changed",
                    membership_revision |-> membership_revision + 1, deleted |-> TRUE,
                    user_ids |-> ActiveMembers \cup extra,
                    authorized_user_ids |-> ActiveMembers]
<1>1. outbox_events' = outbox_events \cup {new}  BY DEF writeGroupEvent
<1>2. new.membership_revision = membership_revision + 1  OBVIOUS
<1>. HIDE DEF new
<1>3. membership_revision \in Nat /\ \A e \in outbox_events : e.membership_revision \in Nat
  BY DEF TypeOK, OutboxEvent
<1>4. \A e \in outbox_events : ~e.deleted /\ e.membership_revision <= membership_revision
  BY DEF Events, EventsArePast
<1>5. kind' = "deleted"  BY DEF DropConversation
<1>6. DeletionOutranks'  BY <1>1, <1>2, <1>3, <1>4 DEF DeletionOutranks
<1>. QED  BY <1>5, <1>6 DEF Events, EventsConverge, EventsArePast, NewestEventIsRoster

\* Removal and leaving announce the members that stay.
LEMMA DeactivateEvents ==
    ASSUME TypeOK, Events, kind = "group", NEW actor \in Users, NEW member \in Users,
           Deactivate(actor, member)
    PROVE  Events'
<1>1. ActiveMembers' = ActiveMembers \ {member}  BY DEF Deactivate, ActiveMembers, TypeOK
<1>2. /\ kind' = "group" /\ membership_revision' = membership_revision + 1
      /\ writeGroupEvent(membership_revision', FALSE, ActiveMembers', {member})
  BY <1>1 DEF Deactivate, BumpRevision
<1>. QED  BY <1>2, AnnouncedStep

\* Every membership transaction announces what it leaves, under its own revision.
LEMMA MembershipEvents ==
    ASSUME TypeOK, NothingStored, Events, NEW u \in Users, Membership(u)
    PROVE  Events'
<1>1. ASSUME NEW v \in Users, CreateDirect(u, v)  PROVE Events'
  <2>. DEFINE new == [event_type |-> "conversation.created", membership_revision |-> 0,
                      deleted |-> FALSE, user_ids |-> {u, v}, authorized_user_ids |-> {}]
  <2>1. kind' = "direct" /\ membership_revision' = 1 /\ outbox_events' = {new}
    BY <1>1 DEF CreateDirect, Events, EventsArePast
  <2>2. new.membership_revision = 0 /\ ~new.deleted  OBVIOUS
  <2>. HIDE DEF new
  <2>. QED
    BY <2>1, <2>2 DEF Events, EventsArePast, EventsConverge, NewestEventIsRoster, DeletionOutranks
<1>2. ASSUME NEW S \in SUBSET Users, CreateGroup(u, S)  PROVE Events'
  <2>. DEFINE new == [event_type |-> "group.membership.changed", membership_revision |-> 1,
                      deleted |-> FALSE, user_ids |-> S \cup {u} \cup {},
                      authorized_user_ids |-> S \cup {u}]
  <2>1. kind' = "group" /\ membership_revision' = 1 /\ outbox_events' = {new}
    BY <1>2 DEF CreateGroup, writeGroupEvent, Events, EventsArePast
  <2>2. ActiveMembers' = S \cup {u}  BY <1>2 DEF CreateGroup, ActiveMembers
  <2>3. new.membership_revision = 1 /\ ~new.deleted /\ new.authorized_user_ids = S \cup {u}
    OBVIOUS
  <2>. HIDE DEF new
  <2>. QED
    BY <2>1, <2>2, <2>3
       DEF Events, EventsArePast, EventsConverge, NewestEventIsRoster, DeletionOutranks
<1>3. ASSUME NEW v \in Users, AddMember(u, v)  PROVE Events'
  <2>1. ActiveMembers' = ActiveMembers \cup {v}  BY <1>3 DEF AddMember, ActiveMembers, TypeOK
  <2>2. /\ kind = "group" /\ kind' = "group" /\ membership_revision' = membership_revision + 1
        /\ writeGroupEvent(membership_revision', FALSE, ActiveMembers', {v})
    BY <1>3, <2>1 DEF AddMember, groupActor, BumpRevision
  <2>. QED  BY <2>2, AnnouncedStep
<1>4. ASSUME NEW v \in Users, RemoveMember(u, v)  PROVE Events'
  BY <1>4, DeactivateEvents DEF RemoveMember, groupActor
\* The members stay, and all of them are told.
<1>5. ASSUME kind = "group", UNCHANGED <<kind, active>>, BumpRevision,
             writeGroupEvent(membership_revision + 1, FALSE, ActiveMembers, {})
      PROVE  Events'
  <2>1. ActiveMembers' = ActiveMembers  BY <1>5 DEF ActiveMembers
  <2>2. kind' = "group" /\ membership_revision' = membership_revision + 1
        /\ writeGroupEvent(membership_revision', FALSE, ActiveMembers', {})
    BY <1>5, <2>1 DEF BumpRevision
  <2>. QED  BY <1>5, <2>2, AnnouncedStep
<1>6. ASSUME NEW v \in Users, TransferOwnership(u, v)  PROVE Events'
  BY <1>5, <1>6 DEF TransferOwnership, groupActor
<1>7. ASSUME NEW v \in Users, NEW r \in Roles, ChangeRole(u, v, r)  PROVE Events'
  BY <1>5, <1>7 DEF ChangeRole, groupActor
<1>8. CASE RenameGroup(u)  BY <1>5, <1>8 DEF RenameGroup, roster, groupActor
<1>9. CASE LeaveGroup(u)
  BY <1>9, DeactivateEvents, DeletedStep DEF LeaveGroup, groupActor
<1>10. CASE DeleteGroup(u)  BY <1>10, DeletedStep DEF DeleteGroup, groupActor
<1>. QED  BY <1>1, <1>2, <1>3, <1>4, <1>6, <1>7, <1>8, <1>9, <1>10 DEF Membership

LEMMA EventsStep ==
    ASSUME TypeOK, NothingStored, Events, [Next]_vars
    PROVE  Events'
<1>1. ASSUME NEW u \in Users, Membership(u)  PROVE Events'
  BY <1>1, MembershipEvents
<1>2. CASE UNCHANGED <<kind, membership_revision, active, outbox_events>>
  BY <1>2 DEF Events, EventsArePast, EventsConverge, NewestEventIsRoster, DeletionOutranks,
              ActiveMembers
<1>3. CASE \/ \E u \in Users : Reading(u)
           \/ \E h \in Handlers : Messaging(h)
           \/ UNCHANGED vars
  BY <1>2, <1>3 DEF Reading, Advance, Messaging, SendSnapshot, SendLocked, SendFails, vars, roster
<1>. QED  BY <1>1, <1>3 DEF Next

-----------------------------------------------------------------------------
(* The theorems.                                                           *)

LEMMA InitInv == Init => IInv
<1>. SUFFICES ASSUME Init  PROVE IInv
  OBVIOUS
<1>1. TypeOK  BY DEF Init, TypeOK, Roles
<1>2. NothingStored /\ OwnerIsMember /\ WithinMemberLimit
  BY DEF Init, NothingStored, OwnerIsMember, WithinMemberLimit
<1>3. IsFiniteSet(messages)  BY FS_EmptySet DEF Init
<1>4. SequencesDense  BY DEF Init, SequencesDense
<1>5. ActiveMembers = {}  BY DEF Init, ActiveMembers
<1>6. BoundaryWithinLog /\ CursorWithinHistory /\ UnreadIsExact
  BY <1>5 DEF Init, BoundaryWithinLog, CursorWithinHistory, UnreadIsExact
<1>7. DeliveryWithinLog /\ ReplayCoversMembership
  BY <1>5 DEF Init, DeliveryWithinLog, ReplayCoversMembership
<1>8. EventsArePast /\ EventsConverge
  BY DEF Init, EventsArePast, EventsConverge, NewestEventIsRoster, DeletionOutranks
<1>. QED  BY <1>1, <1>2, <1>3, <1>4, <1>6, <1>7, <1>8 DEF IInv

LEMMA StepInv == IInv /\ [Next]_vars => IInv'
<1>. SUFFICES ASSUME IInv, [Next]_vars  PROVE IInv'
  OBVIOUS
<1>0. TypeOK /\ LogInv  BY DEF IInv, LogInv
<1>1. TypeOK'  BY TypeStep
<1>2. LogInv'  BY <1>0, LogStep
<1>3. Counters'  BY <1>0, <1>1, CounterStep
<1>4. Roster'  BY RosterStep
<1>5. Replay'  BY <1>1, ReplayStep
<1>6. Events'  BY EventsStep DEF IInv, Events
<1>. QED  BY <1>1, <1>2, <1>3, <1>4, <1>5, <1>6 DEF IInv, LogInv, Counters, Roster, Replay, Events

\* Every reachable state satisfies the inductive invariant.
THEOREM Invariance == Spec => []IInv
  BY InitInv, StepInv, PTL DEF Spec

\* Every variable keeps its type, counters and sequences included.
THEOREM TypeCorrect == Spec => []TypeOK
<1>1. IInv => TypeOK  BY DEF IInv
<1>. QED  BY <1>1, Invariance, PTL

\* A group has exactly one active owner, the one its row names.
THEOREM OneOwner == Spec => []SingleOwner
<1>1. IInv => SingleOwner
  <2>. SUFFICES ASSUME IInv, kind = "group"
                PROVE  {u \in ActiveMembers : role[u] = "owner"} = {owner_id}
    BY DEF SingleOwner
  <2>1. owner_id \in ActiveMembers  BY DEF IInv, OwnerIsMember, ActiveMembers
  <2>. QED  BY <2>1 DEF IInv, OwnerIsMember
<1>. QED  BY <1>1, Invariance, PTL

\* No group grows over the member limit.
THEOREM MemberLimit == Spec => []WithinMemberLimit
<1>1. IInv => WithinMemberLimit  BY DEF IInv
<1>. QED  BY <1>1, Invariance, PTL

\* The message log has neither a gap nor a repeated sequence.
THEOREM DenseLog == Spec => []SequencesDense
<1>1. IInv => SequencesDense  BY DEF IInv
<1>. QED  BY <1>1, Invariance, PTL

\* The unread counter of every member counts exactly its unread messages.
THEOREM ExactUnread == Spec => []UnreadIsExact
<1>1. IInv => UnreadIsExact  BY DEF IInv
<1>. QED  BY <1>1, Invariance, PTL

\* No cursor lies before its member's boundary or beyond the log.
THEOREM CursorInHistory == Spec => []CursorWithinHistory
<1>1. IInv => CursorWithinHistory  BY DEF IInv
<1>. QED  BY <1>1, Invariance, PTL

LEMMA CursorStep ==
    ASSUME IInv, [Next]_vars, NEW u \in Users, active[u]
    PROVE  active'[u] => last_read_sequence'[u] >= last_read_sequence[u]
<1>0. /\ TypeOK
      /\ last_read_sequence[u] \in Nat
  BY DEF IInv, TypeOK
<1>. DEFINE Goal == active'[u] => last_read_sequence'[u] >= last_read_sequence[u]
<1>1. ASSUME UNCHANGED last_read_sequence  PROVE Goal
  BY <1>0, <1>1
<1>2. ASSUME DropConversation  PROVE Goal
  BY <1>2 DEF DropConversation
<1>3. ASSUME NEW w \in Users, Membership(w)  PROVE Goal
  <2>1. ASSUME NEW v \in Users, AddMember(w, v)  PROVE Goal
    <3>1. u # v  BY <2>1 DEF AddMember
    <3>2. last_read_sequence' = [last_read_sequence EXCEPT ![v] = next_sequence - 1]
      BY <2>1 DEF AddMember
    <3>3. last_read_sequence'[u] = last_read_sequence[u]  BY <1>0, <3>1, <3>2 DEF TypeOK
    <3>. QED  BY <1>0, <3>3
  <2>2. ASSUME NEW v \in Users, CreateDirect(w, v)  PROVE Goal
    BY <1>1, <2>2 DEF CreateDirect, cursors
  <2>3. ASSUME NEW S \in SUBSET Users, CreateGroup(w, S)  PROVE Goal
    BY <1>1, <2>3 DEF CreateGroup, cursors
  <2>4. ASSUME NEW v \in Users, RemoveMember(w, v)  PROVE Goal
    BY <1>1, <2>4 DEF RemoveMember, Deactivate
  <2>5. ASSUME NEW v \in Users, TransferOwnership(w, v)  PROVE Goal
    BY <1>1, <2>5 DEF TransferOwnership
  <2>6. ASSUME NEW v \in Users, NEW r \in Roles, ChangeRole(w, v, r)  PROVE Goal
    BY <1>1, <2>6 DEF ChangeRole
  <2>7. CASE RenameGroup(w)  BY <1>1, <2>7 DEF RenameGroup, cursors
  <2>8. CASE LeaveGroup(w)  BY <1>1, <1>2, <2>8 DEF LeaveGroup, Deactivate
  <2>9. CASE DeleteGroup(w)  BY <1>2, <2>9 DEF DeleteGroup
  <2>. QED  BY <1>3, <2>1, <2>2, <2>3, <2>4, <2>5, <2>6, <2>7, <2>8, <2>9 DEF Membership
<1>4. ASSUME NEW w \in Users, Reading(w)  PROVE Goal
  <2>1. PICK s \in 1 .. MaxMessages + 1 : Advance(w, s)  BY <1>4 DEF Reading
  <2>2. CASE UNCHANGED cursors  BY <1>1, <2>2 DEF cursors
  <2>3. CASE /\ Capped(w, s) > last_read_sequence[w]
             /\ last_read_sequence' = [last_read_sequence EXCEPT ![w] = Capped(w, s)]
    <3>1. CASE u = w
      <4>1. last_read_sequence'[u] = Capped(w, s)  BY <1>0, <2>3, <3>1 DEF TypeOK
      <4>2. Capped(w, s) \in Nat  BY CappedRange DEF IInv
      <4>. QED  BY <1>0, <2>3, <3>1, <4>1, <4>2
    <3>2. CASE u # w
      <4>1. last_read_sequence'[u] = last_read_sequence[u]  BY <1>0, <2>3, <3>2 DEF TypeOK
      <4>. QED  BY <1>0, <4>1
    <3>. QED  BY <3>1, <3>2
  <2>. QED  BY <2>1, <2>2, <2>3 DEF Advance
<1>5. ASSUME NEW h \in Handlers, Messaging(h)  PROVE Goal
  BY <1>1, <1>5 DEF Messaging, SendSnapshot, SendLocked, SendFails, cursors
<1>6. CASE UNCHANGED vars  BY <1>1, <1>6 DEF vars, cursors
<1>. QED  BY <1>3, <1>4, <1>5, <1>6 DEF Next

\* No step of any transaction moves a member's read cursor backward.
THEOREM CursorMonotone == Spec => CursorNeverMovesBack
<1>1. IInv /\ [Next]_vars
        => [\A u \in Users : active[u] /\ active'[u] =>
               last_read_sequence'[u] >= last_read_sequence[u]]_vars
  BY CursorStep
<1>. QED  BY <1>1, Invariance, PTL DEF Spec, CursorNeverMovesBack

\* A device is replayed exactly what others sent since its owner joined.
THEOREM ReplayIsComplete == Spec => []ReplayCoversMembership
<1>1. IInv => ReplayCoversMembership  BY DEF IInv
<1>. QED  BY <1>1, Invariance, PTL

\* The event of the highest revision is the roster, and a deletion is the last one.
THEOREM EventsLeadToRoster == Spec => []EventsConverge
<1>1. IInv => EventsConverge  BY DEF IInv
<1>. QED  BY <1>1, Invariance, PTL

\* What ChangeIsAnnounced asks of a step.
Announced ==
    LET changed == {u \in Users : active'[u] # active[u]} IN
    changed # {} \/ owner_id' # owner_id =>
        \E e \in outbox_events' \ outbox_events : changed \cup ActiveMembers' \subseteq e.user_ids

\* The event that a transaction writes is new, because its revision is.
LEMMA NewEvent ==
    ASSUME IInv, kind \in {"none", "group"}, NEW revision \in Nat, revision > membership_revision,
           NEW deleted, NEW members, NEW extra, writeGroupEvent(revision, deleted, members, extra)
    PROVE  \E e \in outbox_events' \ outbox_events : e.user_ids = members \cup extra
<1>. DEFINE new == [event_type |-> "group.membership.changed", membership_revision |-> revision,
                    deleted |-> deleted, user_ids |-> members \cup extra,
                    authorized_user_ids |-> members]
<1>1. new \in outbox_events'  BY DEF writeGroupEvent
<1>2. new.membership_revision = revision /\ new.user_ids = members \cup extra  OBVIOUS
<1>. HIDE DEF new
<1>3. \A e \in outbox_events : e.membership_revision <= membership_revision
  BY DEF IInv, EventsArePast
<1>4. membership_revision \in Nat  BY DEF IInv, TypeOK
<1>5. new \notin outbox_events  BY <1>2, <1>3, <1>4
<1>. QED  BY <1>1, <1>2, <1>5

LEMMA AnnouncedByStep ==
    ASSUME IInv, [Next]_vars
    PROVE  Announced
<1>0. TypeOK /\ membership_revision \in Nat  BY DEF IInv, TypeOK
<1>. DEFINE changed == {u \in Users : active'[u] # active[u]}
<1>1. ASSUME UNCHANGED <<active, owner_id>>  PROVE Announced
  BY <1>1 DEF Announced
\* A transaction that writes an event for whom it concerns.
<1>2. ASSUME kind \in {"none", "group"}, NEW revision \in Nat, revision > membership_revision,
             NEW deleted, NEW members, NEW extra,
             writeGroupEvent(revision, deleted, members, extra),
             changed \cup ActiveMembers' \subseteq members \cup extra
      PROVE  Announced
  BY <1>2, NewEvent DEF Announced
<1>3. ASSUME NEW u \in Users, NEW v \in Users, kind = "group", Deactivate(u, v)  PROVE Announced
  <2>1. active' = [active EXCEPT ![v] = FALSE]  BY <1>3 DEF Deactivate
  <2>2. changed \cup ActiveMembers' \subseteq (ActiveMembers \ {v}) \cup {v}
    BY <1>0, <2>1 DEF ActiveMembers, TypeOK
  <2>3. writeGroupEvent(membership_revision + 1, FALSE, ActiveMembers \ {v}, {v})
    BY <1>3 DEF Deactivate
  <2>4. membership_revision + 1 \in Nat /\ membership_revision + 1 > membership_revision
    BY <1>0
  <2>. HIDE DEF changed
  <2>. QED  BY <1>2, <1>3, <2>2, <2>3, <2>4
\* A deletion is announced to those who are members until then.
<1>4. ASSUME kind = "group", DropConversation, NEW extra,
             writeGroupEvent(membership_revision + 1, TRUE, ActiveMembers, extra)
      PROVE  Announced
  <2>1. \A u \in Users : active'[u] = FALSE  BY <1>4 DEF DropConversation
  <2>2. changed \cup ActiveMembers' \subseteq ActiveMembers \cup extra
    BY <1>0, <2>1 DEF ActiveMembers, TypeOK
  <2>3. membership_revision + 1 \in Nat /\ membership_revision + 1 > membership_revision
    BY <1>0
  <2>. HIDE DEF changed
  <2>. QED  BY <1>2, <1>4, <2>2, <2>3
<1>5. ASSUME NEW u \in Users, Membership(u)  PROVE Announced
  <2>1. ASSUME NEW v \in Users, CreateDirect(u, v)  PROVE Announced
    <3>. DEFINE new == [event_type |-> "conversation.created", membership_revision |-> 0,
                        deleted |-> FALSE, user_ids |-> {u, v}, authorized_user_ids |-> {}]
    <3>1. outbox_events = {} /\ new \in outbox_events'
      BY <2>1 DEF CreateDirect, IInv, EventsArePast
    <3>2. new.user_ids = {u, v}  OBVIOUS
    <3>. HIDE DEF new
    <3>3. active' = [w \in Users |-> w \in {u, v}] /\ \A w \in Users : ~active[w]
      BY <2>1 DEF CreateDirect, IInv, NothingStored
    <3>4. \A w \in Users : w \notin {u, v} => active'[w] = FALSE /\ active[w] = FALSE
      BY <1>0, <3>3 DEF TypeOK
    <3>5. changed \cup ActiveMembers' \subseteq {u, v}  BY <3>4 DEF ActiveMembers
    <3>. QED  BY <3>1, <3>2, <3>5 DEF Announced
  <2>2. ASSUME NEW S \in SUBSET Users, CreateGroup(u, S)  PROVE Announced
    <3>1. /\ kind = "none" /\ writeGroupEvent(1, FALSE, S \cup {u}, {})
          /\ active' = [w \in Users |-> w \in S \cup {u}]
      BY <2>2 DEF CreateGroup
    <3>2. \A w \in Users : ~active[w]  BY <3>1 DEF IInv, NothingStored
    <3>3. changed \cup ActiveMembers' \subseteq S \cup {u}
      <4>1. \A w \in Users : w \notin S \cup {u} => active'[w] = FALSE /\ active[w] = FALSE
        BY <1>0, <3>1, <3>2 DEF TypeOK
      <4>. QED  BY <4>1 DEF ActiveMembers
    <3>4. outbox_events = {}  BY <3>1 DEF IInv, EventsArePast
    <3>. DEFINE new == [event_type |-> "group.membership.changed", membership_revision |-> 1,
                        deleted |-> FALSE, user_ids |-> (S \cup {u}) \cup {},
                        authorized_user_ids |-> S \cup {u}]
    <3>5. new \in outbox_events'  BY <3>1 DEF writeGroupEvent
    <3>6. new.user_ids = S \cup {u}  OBVIOUS
    <3>. HIDE DEF new
    <3>. QED  BY <3>3, <3>4, <3>5, <3>6 DEF Announced
  <2>3. ASSUME NEW v \in Users, AddMember(u, v)  PROVE Announced
    <3>1. /\ kind = "group" /\ active' = [active EXCEPT ![v] = TRUE]
          /\ writeGroupEvent(membership_revision + 1, FALSE, ActiveMembers \cup {v}, {v})
      BY <2>3 DEF AddMember, groupActor
    <3>2. changed \cup ActiveMembers' \subseteq (ActiveMembers \cup {v}) \cup {v}
      BY <1>0, <3>1 DEF ActiveMembers, TypeOK
    <3>3. membership_revision + 1 \in Nat /\ membership_revision + 1 > membership_revision
      BY <1>0
    <3>. HIDE DEF changed
    <3>. QED  BY <1>2, <3>1, <3>2, <3>3
  <2>4. ASSUME NEW v \in Users, RemoveMember(u, v)  PROVE Announced
    BY <1>3, <2>4 DEF RemoveMember, groupActor
  <2>5. ASSUME NEW v \in Users, TransferOwnership(u, v)  PROVE Announced
    <3>1. /\ kind = "group" /\ UNCHANGED active
          /\ writeGroupEvent(membership_revision + 1, FALSE, ActiveMembers, {})
      BY <2>5 DEF TransferOwnership, groupActor
    <3>2. changed \cup ActiveMembers' \subseteq ActiveMembers \cup {}
      BY <3>1 DEF ActiveMembers
    <3>3. membership_revision + 1 \in Nat /\ membership_revision + 1 > membership_revision
      BY <1>0
    <3>. HIDE DEF changed
    <3>. QED  BY <1>2, <3>1, <3>2, <3>3
  <2>6. ASSUME NEW v \in Users, NEW r \in Roles, ChangeRole(u, v, r)  PROVE Announced
    BY <1>1, <2>6 DEF ChangeRole
  <2>7. CASE RenameGroup(u)  BY <1>1, <2>7 DEF RenameGroup, roster
  <2>8. CASE LeaveGroup(u)  BY <1>3, <1>4, <2>8 DEF LeaveGroup, groupActor
  <2>9. CASE DeleteGroup(u)  BY <1>4, <2>9 DEF DeleteGroup, groupActor
  <2>. QED  BY <1>5, <2>1, <2>2, <2>3, <2>4, <2>5, <2>6, <2>7, <2>8, <2>9 DEF Membership
<1>6. CASE \/ \E u \in Users : Reading(u)
           \/ \E h \in Handlers : Messaging(h)
           \/ UNCHANGED vars
  BY <1>1, <1>6 DEF Reading, Advance, Messaging, SendSnapshot, SendLocked, SendFails, vars, roster
<1>. QED  BY <1>5, <1>6 DEF Next

\* Whoever a transaction adds, removes or makes the owner is told by its own event.
THEOREM ChangesAreAnnounced == Spec => ChangeIsAnnounced
<1>1. IInv /\ [Next]_vars => [Announced]_vars  BY AnnouncedByStep
<1>. QED  BY <1>1, Invariance, PTL DEF Spec, ChangeIsAnnounced, Announced

-----------------------------------------------------------------------------
(* Retries.                                                                *)

\* A user message is appended only when its sender and client id are new.
LEMMA IdempotentStep ==
    ASSUME TypeOK, SendIsIdempotent, [Next]_vars
    PROVE  SendIsIdempotent'
<1>1. ASSUME UNCHANGED messages  PROVE SendIsIdempotent'
  BY <1>1 DEF SendIsIdempotent
<1>2. ASSUME DropConversation  PROVE SendIsIdempotent'
  BY <1>2 DEF DropConversation, SendIsIdempotent
<1>3. ASSUME NEW actor, NEW members, NEW unread, writeGroupSystemEntry(actor, members, unread)
      PROVE  SendIsIdempotent'
  <2>1. \A m \in messages' : m.kind = "user" => m \in messages
    BY <1>3 DEF writeGroupSystemEntry, AppendMessage
  <2>. QED  BY <2>1 DEF SendIsIdempotent
<1>4. ASSUME NEW u \in Users, Membership(u)  PROVE SendIsIdempotent'
  <2>1. ASSUME NEW v \in Users, CreateDirect(u, v)  PROVE SendIsIdempotent'
    BY <1>1, <2>1 DEF CreateDirect, log
  <2>2. ASSUME NEW S \in SUBSET Users, CreateGroup(u, S)  PROVE SendIsIdempotent'
    BY <1>1, <2>2 DEF CreateGroup, log
  <2>3. ASSUME NEW v \in Users, AddMember(u, v)  PROVE SendIsIdempotent'
    BY <1>3, <2>3 DEF AddMember
  <2>4. ASSUME NEW v \in Users, Deactivate(u, v)  PROVE SendIsIdempotent'
    BY <1>3, <2>4 DEF Deactivate
  <2>5. ASSUME NEW v \in Users, TransferOwnership(u, v)  PROVE SendIsIdempotent'
    BY <1>3, <2>5 DEF TransferOwnership
  <2>6. ASSUME NEW v \in Users, NEW r \in Roles, ChangeRole(u, v, r)  PROVE SendIsIdempotent'
    BY <1>3, <2>6 DEF ChangeRole
  <2>7. CASE RenameGroup(u)  BY <1>1, <2>7 DEF RenameGroup, log
  <2>8. CASE LeaveGroup(u)  BY <1>2, <2>4, <2>8 DEF LeaveGroup
  <2>9. CASE DeleteGroup(u)  BY <1>2, <2>9 DEF DeleteGroup
  <2>10. ASSUME NEW v \in Users, RemoveMember(u, v)  PROVE SendIsIdempotent'
    BY <2>4, <2>10 DEF RemoveMember
  <2>. QED  BY <1>4, <2>1, <2>2, <2>3, <2>5, <2>6, <2>7, <2>8, <2>9, <2>10 DEF Membership
<1>5. ASSUME NEW u \in Users, Reading(u)  PROVE SendIsIdempotent'
  BY <1>1, <1>5 DEF Reading, Advance, log
<1>6. ASSUME NEW h \in Handlers, Messaging(h)  PROVE SendIsIdempotent'
  <2>1. CASE UNCHANGED messages  BY <1>1, <2>1
  <2>2. CASE /\ ~Sent(sending[h])
             /\ AppendMessage(sending[h].sender_id, sending[h].client_message_id, "user",
                              ActiveMembers, unread_count)
    <3>. DEFINE new == [sequence |-> next_sequence, sender_id |-> sending[h].sender_id,
                        client_message_id |-> sending[h].client_message_id, kind |-> "user"]
    <3>1. messages' = messages \cup {new}  BY <2>2 DEF AppendMessage
    <3>2. \A m \in messages : ~ (/\ m.sender_id = new.sender_id
                                 /\ m.client_message_id = new.client_message_id)
      BY <2>2 DEF Sent
    <3>. HIDE DEF new
    <3>. QED  BY <3>1, <3>2 DEF SendIsIdempotent
  <2>. QED  BY <1>6, <2>1, <2>2 DEF Messaging, SendSnapshot, SendLocked, SendFails, log
<1>7. CASE UNCHANGED vars  BY <1>1, <1>7 DEF vars, log
<1>. QED  BY <1>4, <1>5, <1>6, <1>7 DEF Next

\* No retry of message.send, by any handler, ever stores a message twice.
THEOREM Idempotent == Spec => []SendIsIdempotent
<1>1. Init => SendIsIdempotent  BY DEF Init, SendIsIdempotent
<1>2. TypeOK /\ SendIsIdempotent /\ [Next]_vars => SendIsIdempotent'
  BY IdempotentStep
<1>. QED  BY <1>1, <1>2, TypeCorrect, PTL DEF Spec
=============================================================================
