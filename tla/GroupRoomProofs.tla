--------------------------- MODULE GroupRoomProofs ---------------------------
(***************************************************************************)
(* Proofs about the group rooms, for any users, sockets, conversations and *)
(* rooms, any capacity and any number of commands, faults and membership   *)
(* changes: seats are exclusive, rooms follow the membership, a cleanup    *)
(* frees its seat and rooms only advance.                                  *)
(*                                                                         *)
(* The three invariants need each other and five facts about what is under *)
(* way: a room id is used once; a command names a room of its conversation *)
(* and was leased to a member; a lease that is held is up to date; what a  *)
(* notification has read can only be replaced by a newer room; a socket    *)
(* that is removed begins nothing more, and its removal has found its room.*)
(***************************************************************************)
EXTENDS GroupRoom, FiniteSetTheorems, TLAPS

OnlyIssued ==
    \A r \in Rooms : rooms[r] # None => r \in issued /\ IsFiniteSet(rooms[r].seats)

CommandKnows(s) ==
    LET k == command[s] IN
    /\ IF k.op = "start" /\ k.step = "leased" THEN k.room = None ELSE k.room \in issued
    /\ k.room \in Rooms /\ rooms[k.room] # None => rooms[k.room].conversation = k.conversation
    /\ k.revision <= revision[k.conversation]
    /\ k.revision = revision[k.conversation] => SocketUser[s] \in members[k.conversation]

CommandsKnow == \A s \in Sockets : command[s] # None => CommandKnows(s)

LeasesAreCurrent ==
    \A c \in Conversations : lock[c] # None =>
        /\ command[lock[c]] # None
        /\ command[lock[c]].conversation = c
        /\ command[lock[c]].revision = revision[c]

EventsArePast ==
    /\ \A e \in pending : e.revision <= revision[e.conversation]
    /\ \A n \in notices : n.event.revision <= revision[n.event.conversation]

\* A room that came after the one a notification has read is no older than its event.
Superseded(n) ==
    \A r \in Rooms : Live(r) /\ rooms[r].conversation = n.event.conversation /\ r # n.room =>
        r \in astray \/ rooms[r].membership_revision >= n.event.revision

NoticesAreRead == \A n \in notices : Superseded(n)

RemovalsAreQuiet ==
    \A s \in Sockets : phase[s] # "open" /\ s \notin overtaken =>
        /\ command[s] = None
        /\ phase[s] = "removing" =>
              \A r \in Rooms : Live(r) /\ s \in rooms[r].seats => found[s] = r

IInv ==
    /\ TypeOK /\ OnlyIssued /\ SeatsAreExclusive
    /\ CommandsKnow /\ LeasesAreCurrent
    /\ EventsArePast /\ NoticesAreRead /\ RoomsFollowMembership
    /\ RemovalsAreQuiet /\ CleanupFreesSeat

-----------------------------------------------------------------------------
(* What the scripts do to one room.                                        *)

RoomsTyped == rooms \in [Rooms -> Room \cup {None}]

\* The room r becomes e, and the others stay as they are.
Becomes(r, e) == /\ e \in Room /\ rooms'[r] = e
                 /\ rooms' \in [Rooms -> Room \cup {None}]
                 /\ \A q \in Rooms : q # r => rooms'[q] = rooms[q]

LEMMA RoomBecomes ==
    ASSUME RoomsTyped, NEW r \in Rooms, NEW e \in Room,
           rooms' = [rooms EXCEPT ![r] = e]
    PROVE  Becomes(r, e)
  BY DEF RoomsTyped, Becomes

LEMMA EndsRoomBecomes ==
    ASSUME RoomsTyped, NEW r \in Rooms, rooms[r] # None,
           NEW kept \in SUBSET Sockets, NEW p \in Sockets \cup {None}, EndsRoom(r, kept, p)
    PROVE  Becomes(r, [conversation |-> rooms[r].conversation,
                       membership_revision |-> rooms[r].membership_revision,
                       status |-> "ended", state_revision |-> rooms[r].state_revision + 1,
                       seats |-> kept, presenter |-> p, due |-> rooms[r].due])
<1>. DEFINE e == [conversation |-> rooms[r].conversation,
                  membership_revision |-> rooms[r].membership_revision,
                  status |-> "ended", state_revision |-> rooms[r].state_revision + 1,
                  seats |-> kept, presenter |-> p, due |-> rooms[r].due]
<1>1. rooms[r] \in Room  BY DEF RoomsTyped
<1>2. e \in Room  BY <1>1 DEF Room
<1>3. rooms' = [rooms EXCEPT ![r] = e]
  BY <1>1 DEF EndsRoom, RoomsTyped, Room
<1>. QED  BY <1>2, <1>3, RoomBecomes


\* An update of several fields, one field at a time.
LEMMA SeatsUpdate ==
    ASSUME RoomsTyped, NEW r \in Rooms, rooms[r] # None, NEW k \in SUBSET Sockets,
           NEW t \in {"ringing", "active", "ended"}, NEW p \in Sockets \cup {None},
           rooms' = [rooms EXCEPT ![r].seats = k, ![r].status = t, ![r].presenter = p,
                                  ![r].state_revision = @ + 1]
    PROVE  Becomes(r, [conversation |-> rooms[r].conversation,
                       membership_revision |-> rooms[r].membership_revision,
                       status |-> t, state_revision |-> rooms[r].state_revision + 1,
                       seats |-> k, presenter |-> p, due |-> rooms[r].due])
<1>. DEFINE e == [conversation |-> rooms[r].conversation,
                  membership_revision |-> rooms[r].membership_revision,
                  status |-> t, state_revision |-> rooms[r].state_revision + 1,
                  seats |-> k, presenter |-> p, due |-> rooms[r].due]
<1>1. rooms[r] \in Room  BY DEF RoomsTyped
<1>2. e \in Room  BY <1>1 DEF Room
<1>3. rooms' = [rooms EXCEPT ![r] = e]
  BY <1>1 DEF RoomsTyped, Room
<1>. QED  BY <1>2, <1>3, RoomBecomes

LEMMA JoinUpdate ==
    ASSUME RoomsTyped, NEW r \in Rooms, rooms[r] # None, NEW k \in SUBSET Sockets,
           rooms' = [rooms EXCEPT ![r].seats = k, ![r].status = "active",
                                  ![r].due = FALSE, ![r].state_revision = @ + 1]
    PROVE  Becomes(r, [conversation |-> rooms[r].conversation,
                       membership_revision |-> rooms[r].membership_revision,
                       status |-> "active", state_revision |-> rooms[r].state_revision + 1,
                       seats |-> k, presenter |-> rooms[r].presenter, due |-> FALSE])
<1>. DEFINE e == [conversation |-> rooms[r].conversation,
                  membership_revision |-> rooms[r].membership_revision,
                  status |-> "active", state_revision |-> rooms[r].state_revision + 1,
                  seats |-> k, presenter |-> rooms[r].presenter, due |-> FALSE]
<1>1. rooms[r] \in Room  BY DEF RoomsTyped
<1>2. e \in Room  BY <1>1 DEF Room
<1>3. rooms' = [rooms EXCEPT ![r] = e]
  BY <1>1 DEF RoomsTyped, Room
<1>. QED  BY <1>2, <1>3, RoomBecomes

LEMMA LeavesRoomBecomes ==
    ASSUME RoomsTyped, NEW r \in Rooms, rooms[r] # None,
           NEW s \in Sockets, LeavesRoom(r, s)
    PROVE  LET kept == rooms[r].seats \ {s} IN
           Becomes(r, [conversation |-> rooms[r].conversation,
                       membership_revision |-> rooms[r].membership_revision,
                       status |-> IF kept = {} THEN "ended" ELSE rooms[r].status,
                       state_revision |-> rooms[r].state_revision + 1, seats |-> kept,
                       presenter |-> IF rooms[r].presenter = s THEN None ELSE rooms[r].presenter,
                       due |-> rooms[r].due])
<1>. DEFINE kept == rooms[r].seats \ {s}
            t == IF kept = {} THEN "ended" ELSE rooms[r].status
            p == IF rooms[r].presenter = s THEN None ELSE rooms[r].presenter
<1>1. rooms[r] \in Room  BY DEF RoomsTyped
<1>2. kept \in SUBSET Sockets /\ t \in {"ringing", "active", "ended"} /\ p \in Sockets \cup {None}
  BY <1>1 DEF Room
<1>3. rooms' = [rooms EXCEPT ![r].seats = kept, ![r].status = t, ![r].presenter = p,
                             ![r].state_revision = @ + 1]
  BY <1>1 DEF LeavesRoom, RoomsTyped, Room
<1>. HIDE DEF t, p, kept
<1>4. Becomes(r, [conversation |-> rooms[r].conversation,
                  membership_revision |-> rooms[r].membership_revision,
                  status |-> t, state_revision |-> rooms[r].state_revision + 1,
                  seats |-> kept, presenter |-> p, due |-> rooms[r].due])
  BY <1>2, <1>3, SeatsUpdate
<1>. QED  BY <1>4 DEF t, p, kept

LEMMA PresenterBecomes ==
    ASSUME RoomsTyped, NEW r \in Rooms, rooms[r] # None, NEW p \in Sockets \cup {None},
           rooms' = [rooms EXCEPT ![r].presenter = p, ![r].state_revision = @ + 1]
    PROVE  Becomes(r, [conversation |-> rooms[r].conversation,
                       membership_revision |-> rooms[r].membership_revision,
                       status |-> rooms[r].status, state_revision |-> rooms[r].state_revision + 1,
                       seats |-> rooms[r].seats, presenter |-> p, due |-> rooms[r].due])
<1>. DEFINE e == [conversation |-> rooms[r].conversation,
                  membership_revision |-> rooms[r].membership_revision,
                  status |-> rooms[r].status, state_revision |-> rooms[r].state_revision + 1,
                  seats |-> rooms[r].seats, presenter |-> p, due |-> rooms[r].due]
<1>1. rooms[r] \in Room  BY DEF RoomsTyped
<1>2. e \in Room  BY <1>1 DEF Room
<1>3. rooms' = [rooms EXCEPT ![r] = e]
  BY <1>1 DEF RoomsTyped, Room
<1>. QED  BY <1>2, <1>3, RoomBecomes

LEMMA DueBecomes ==
    ASSUME RoomsTyped, NEW r \in Rooms, rooms[r] # None,
           rooms' = [rooms EXCEPT ![r].due = TRUE]
    PROVE  Becomes(r, [rooms[r] EXCEPT !.due = TRUE])
<1>1. rooms[r] \in Room  BY DEF RoomsTyped
<1>2. [rooms[r] EXCEPT !.due = TRUE] \in Room  BY <1>1 DEF Room
<1>3. rooms' = [rooms EXCEPT ![r] = [rooms[r] EXCEPT !.due = TRUE]]
  OBVIOUS
<1>. QED  BY <1>2, <1>3, RoomBecomes

LEMMA JoinBecomes ==
    ASSUME RoomsTyped, NEW s \in Sockets, command[s].room \in Rooms, JoinScript(s)
    PROVE  LET r == command[s].room IN
           Becomes(r, [conversation |-> rooms[r].conversation,
                       membership_revision |-> rooms[r].membership_revision,
                       status |-> "active", state_revision |-> rooms[r].state_revision + 1,
                       seats |-> rooms[r].seats \cup {s}, presenter |-> rooms[r].presenter,
                       due |-> FALSE])
<1>. DEFINE r == command[s].room
            k == rooms[r].seats \cup {s}
<1>1. r \in Rooms /\ rooms[r] # None  BY DEF JoinScript, Admissible, Live
<1>2. k \in SUBSET Sockets  BY <1>1 DEF RoomsTyped, Room
<1>3. rooms' = [rooms EXCEPT ![r].seats = k, ![r].status = "active",
                             ![r].due = FALSE, ![r].state_revision = @ + 1]
  BY DEF JoinScript
<1>. HIDE DEF r, k
<1>4. Becomes(r, [conversation |-> rooms[r].conversation,
                  membership_revision |-> rooms[r].membership_revision,
                  status |-> "active", state_revision |-> rooms[r].state_revision + 1,
                  seats |-> k, presenter |-> rooms[r].presenter, due |-> FALSE])
  BY <1>1, <1>2, <1>3, JoinUpdate
<1>. QED  BY <1>4 DEF r, k

-----------------------------------------------------------------------------
(* What that means for seats and keys.                                     *)

Agree == OnlyIssued /\ RoomsAreReserved /\ KeysNameRooms

\* A room is over, for all of its seats.
LEMMA OverAgrees ==
    ASSUME TypeOK, Agree, NEW r \in Rooms, NEW us,
           Live(r) => UsersOf(rooms[r].seats) \subseteq us,
           \A q \in Rooms : q # r => rooms'[q] = rooms[q],
           rooms'[r] # None => /\ rooms[r] # None /\ rooms'[r].status = "ended"
                               /\ rooms'[r].seats \subseteq rooms[r].seats,
           Freed(r, us), Unindexed(r), calling' = calling, issued' = issued
    PROVE  Agree'
<1>. USE GroupRoomAssumption
<1>1. ~Live(r)'  BY DEF Live
<1>2. \A q \in Rooms : q # r => (Live(q)' <=> Live(q)) /\ rooms'[q] = rooms[q]  BY DEF Live
<1>3. OnlyIssued'
  BY FS_Subset DEF OnlyIssued, Agree
<1>4. RoomsAreReserved'
  <2>. SUFFICES ASSUME NEW q \in Rooms, Live(q)'
                PROVE  /\ conversation_key'[rooms'[q].conversation] = q
                       /\ rooms'[q].seats # {} /\ Cardinality(rooms'[q].seats) <= Capacity
                       /\ rooms'[q].presenter \in rooms'[q].seats \cup {None}
                       /\ \A s \in rooms'[q].seats :
                             /\ user_key'[SocketUser[s]] = q
                             /\ SocketUser[s] \notin calling'
                             /\ \A t \in rooms'[q].seats : SocketUser[s] = SocketUser[t] => s = t
    BY DEF RoomsAreReserved
  <2>1. q # r /\ Live(q) /\ rooms'[q] = rooms[q]  BY <1>1, <1>2
  <2>2. rooms[q] \in Room  BY <2>1 DEF TypeOK, Live
  <2>3. conversation_key'[rooms[q].conversation] = q
    BY <2>1, <2>2 DEF Agree, RoomsAreReserved, Unindexed, Room
  <2>4. ASSUME NEW s \in rooms[q].seats  PROVE user_key'[SocketUser[s]] = q
    <3>1. user_key[SocketUser[s]] = q /\ SocketUser[s] \in Users
      BY <2>1, <2>2 DEF Agree, RoomsAreReserved, Room
    <3>. QED  BY <2>1, <3>1 DEF Freed
  <2>. QED  BY <2>1, <2>3, <2>4 DEF Agree, RoomsAreReserved
<1>5. KeysNameRooms'
  <2>1. ASSUME NEW c \in Conversations, conversation_key'[c] # None
        PROVE  Live(conversation_key[c])' /\ rooms'[conversation_key'[c]].conversation = c
    <3>1. conversation_key'[c] = conversation_key[c] /\ conversation_key[c] # r
      BY <2>1 DEF Unindexed
    <3>2. conversation_key[c] \in Rooms  BY <2>1, <3>1 DEF TypeOK
    <3>. QED  BY <1>2, <2>1, <3>1, <3>2 DEF Agree, KeysNameRooms
  <2>2. ASSUME NEW u \in Users, user_key'[u] # None
        PROVE  Live(user_key[u])' /\ u \in UsersOf(rooms'[user_key'[u]].seats)
    <3>1. user_key'[u] = user_key[u] /\ user_key[u] \in Rooms  BY <2>2 DEF Freed, TypeOK
    <3>2. Live(user_key[u]) /\ u \in UsersOf(rooms[user_key[u]].seats)
      BY <2>2, <3>1 DEF Agree, KeysNameRooms
    <3>3. user_key[u] # r  BY <2>2, <3>1, <3>2 DEF Freed
    <3>. QED  BY <1>2, <3>1, <3>2, <3>3
  <2>. QED  BY <2>1, <2>2 DEF KeysNameRooms, Live, UsersOf
<1>. QED  BY <1>3, <1>4, <1>5 DEF Agree

\* A seat is given up, and others are left.
LEMMA SeatLeftAgrees ==
    ASSUME TypeOK, Agree, NEW r \in Rooms, NEW s \in Sockets, rooms[r] # None, s \in rooms[r].seats,
           \A q \in Rooms : q # r => rooms'[q] = rooms[q],
           rooms'[r] # None, rooms'[r].status = rooms[r].status,
           rooms'[r].conversation = rooms[r].conversation,
           rooms'[r].seats = rooms[r].seats \ {s}, rooms'[r].seats # {},
           rooms'[r].presenter = IF rooms[r].presenter = s THEN None ELSE rooms[r].presenter,
           Freed(r, {SocketUser[s]}), conversation_key' = conversation_key,
           calling' = calling, issued' = issued
    PROVE  Agree'
<1>. USE GroupRoomAssumption
<1>1. \A q \in Rooms : /\ Live(q)' <=> Live(q)
                       /\ Live(q) => /\ rooms'[q].conversation = rooms[q].conversation
                                     /\ rooms'[q].seats = IF q = r THEN rooms[q].seats \ {s} ELSE rooms[q].seats
  BY DEF Live
<1>2. rooms[r] \in Room  BY DEF TypeOK
<1>3. OnlyIssued'
  <2>1. IsFiniteSet(rooms[r].seats)  BY DEF OnlyIssued, Agree
  <2>2. IsFiniteSet(rooms[r].seats \ {s})  BY <2>1, FS_RemoveElement
  <2>. QED  BY <2>2 DEF OnlyIssued, Agree
<1>4. RoomsAreReserved'
  <2>. SUFFICES ASSUME NEW q \in Rooms, Live(q)'
                PROVE  /\ conversation_key'[rooms'[q].conversation] = q
                       /\ rooms'[q].seats # {} /\ Cardinality(rooms'[q].seats) <= Capacity
                       /\ rooms'[q].presenter \in rooms'[q].seats \cup {None}
                       /\ \A t \in rooms'[q].seats :
                             /\ user_key'[SocketUser[t]] = q
                             /\ SocketUser[t] \notin calling'
                             /\ \A v \in rooms'[q].seats : SocketUser[t] = SocketUser[v] => t = v
    BY DEF RoomsAreReserved
  <2>1. Live(q) /\ rooms[q] \in Room  BY <1>1 DEF TypeOK, Live
  <2>2. Cardinality(rooms'[q].seats) <= Capacity
    <3>1. Cardinality(rooms[q].seats) <= Capacity /\ IsFiniteSet(rooms[q].seats)
      BY <2>1 DEF Agree, RoomsAreReserved, OnlyIssued, Live
    <3>2. rooms'[q].seats \in SUBSET rooms[q].seats  BY <1>1, <2>1
    <3>3. IsFiniteSet(rooms'[q].seats) /\ Cardinality(rooms'[q].seats) <= Cardinality(rooms[q].seats)
      BY <3>1, <3>2, FS_Subset
    <3>. QED  BY <3>1, <3>3, FS_CardinalityType
  <2>3. ASSUME NEW t \in rooms'[q].seats  PROVE user_key'[SocketUser[t]] = q
    <3>1. t \in rooms[q].seats /\ t \in Sockets  BY <1>1, <2>1 DEF Room
    <3>2. user_key[SocketUser[t]] = q /\ SocketUser[t] \in Users
      BY <2>1, <3>1 DEF Agree, RoomsAreReserved
    <3>3. q = r => SocketUser[t] # SocketUser[s]
      BY <1>1, <2>1, <3>1 DEF Agree, RoomsAreReserved
    <3>. QED  BY <3>2, <3>3 DEF Freed
  <2>4. rooms'[q].seats # {}  BY <1>1, <2>1 DEF Agree, RoomsAreReserved
  <2>5. rooms'[q].presenter \in rooms'[q].seats \cup {None}
    BY <1>1, <2>1 DEF Agree, RoomsAreReserved
  <2>. QED  BY <1>1, <2>1, <2>2, <2>3, <2>4, <2>5 DEF Agree, RoomsAreReserved
<1>5. KeysNameRooms'
  <2>1. ASSUME NEW c \in Conversations, conversation_key'[c] # None
        PROVE  Live(conversation_key[c])' /\ rooms'[conversation_key'[c]].conversation = c
    <3>1. conversation_key[c] \in Rooms  BY <2>1 DEF TypeOK
    <3>. QED  BY <1>1, <2>1, <3>1 DEF Agree, KeysNameRooms
  <2>2. ASSUME NEW u \in Users, user_key'[u] # None
        PROVE  Live(user_key[u])' /\ u \in UsersOf(rooms'[user_key'[u]].seats)
    <3>1. user_key'[u] = user_key[u] /\ user_key[u] \in Rooms  BY <2>2 DEF Freed, TypeOK
    <3>2. Live(user_key[u]) /\ u \in UsersOf(rooms[user_key[u]].seats)
      BY <2>2, <3>1 DEF Agree, KeysNameRooms
    <3>3. user_key[u] = r => u # SocketUser[s]  BY <2>2, <3>1 DEF Freed
    <3>4. u \in UsersOf(rooms'[user_key[u]].seats)
      BY <1>1, <3>1, <3>2, <3>3 DEF UsersOf
    <3>. QED  BY <1>1, <3>1, <3>2, <3>4
  <2>. QED  BY <2>1, <2>2 DEF KeysNameRooms, Live, UsersOf
<1>. QED  BY <1>3, <1>4, <1>5 DEF Agree

\* A seat that is free is taken by a user who is free.
LEMMA SeatTakenAgrees ==
    ASSUME TypeOK, Agree, NEW r \in Rooms, NEW s \in Sockets, Live(r)',
           \A q \in Rooms : q # r => rooms'[q] = rooms[q],
           \/ /\ Live(r) /\ rooms'[r].conversation = rooms[r].conversation
              /\ rooms'[r].seats = rooms[r].seats \cup {s}
              /\ Cardinality(rooms[r].seats) < Capacity
              /\ rooms'[r].presenter = rooms[r].presenter
              /\ conversation_key' = conversation_key /\ issued' = issued
           \/ /\ r \notin issued /\ rooms'[r].seats = {s} /\ rooms'[r].presenter = None
              /\ rooms'[r].conversation \in Conversations
              /\ conversation_key[rooms'[r].conversation] = None
              /\ conversation_key' = [conversation_key EXCEPT ![rooms'[r].conversation] = r]
              /\ issued' = issued \cup {r},
           user_key[SocketUser[s]] = None, SocketUser[s] \notin calling,
           user_key' = [user_key EXCEPT ![SocketUser[s]] = r], calling' = calling
    PROVE  Agree'
<1>. USE GroupRoomAssumption
<1>. DEFINE old == IF Live(r) THEN rooms[r].seats ELSE {}
<1>0. SocketUser[s] \in Users /\ r \notin issued => rooms[r] = None /\ ~Live(r)
  BY DEF Agree, OnlyIssued, Live
<1>1. rooms'[r].seats = old \cup {s}  BY <1>0 DEF Agree, OnlyIssued, Live
<1>2. \A q \in Rooms : q # r => (Live(q)' <=> Live(q)) /\ rooms'[q] = rooms[q]  BY DEF Live
<1>3. IsFiniteSet(old) /\ Cardinality(old) < Capacity /\ Cardinality(old) \in Nat
  <2>1. CASE Live(r)
    BY <2>1, FS_CardinalityType, <1>0 DEF Agree, OnlyIssued, Live
  <2>2. CASE ~Live(r)
    BY <2>2, FS_EmptySet
  <2>. QED  BY <2>1, <2>2
<1>4. IsFiniteSet(old \cup {s}) /\ Cardinality(old \cup {s}) <= Capacity
  <2>. HIDE DEF old
  <2>1. IsFiniteSet(old \cup {s})
        /\ Cardinality(old \cup {s}) = IF s \in old THEN Cardinality(old) ELSE Cardinality(old) + 1
    BY <1>3, FS_AddElement
  <2>2. Capacity \in Nat  OBVIOUS
  <2>. QED  BY <1>3, <2>1, <2>2
<1>5. OnlyIssued'
  BY <1>1, <1>2, <1>4 DEF OnlyIssued, Agree, Live
<1>6. RoomsAreReserved'
  <2>. SUFFICES ASSUME NEW q \in Rooms, Live(q)'
                PROVE  /\ conversation_key'[rooms'[q].conversation] = q
                       /\ rooms'[q].seats # {} /\ Cardinality(rooms'[q].seats) <= Capacity
                       /\ rooms'[q].presenter \in rooms'[q].seats \cup {None}
                       /\ \A t \in rooms'[q].seats :
                             /\ user_key'[SocketUser[t]] = q
                             /\ SocketUser[t] \notin calling'
                             /\ \A v \in rooms'[q].seats : SocketUser[t] = SocketUser[v] => t = v
    BY DEF RoomsAreReserved
  <2>1. CASE q # r
    <3>1. Live(q) /\ rooms'[q] = rooms[q] /\ rooms[q] \in Room  BY <1>2, <2>1 DEF TypeOK, Live
    <3>2. conversation_key'[rooms[q].conversation] = q
      BY <1>0, <2>1, <3>1 DEF Agree, RoomsAreReserved, Room, TypeOK
    <3>3. ASSUME NEW t \in rooms[q].seats  PROVE user_key'[SocketUser[t]] = q
      <4>1. user_key[SocketUser[t]] = q /\ SocketUser[t] \in Users
        BY <3>1 DEF Agree, RoomsAreReserved, Room
      <4>. QED  BY <4>1 DEF TypeOK
    <3>. QED  BY <3>1, <3>2, <3>3 DEF Agree, RoomsAreReserved
  <2>2. CASE q = r
    <3>1. old \subseteq Sockets  BY DEF TypeOK, Live, Room
    <3>2. \A t \in old : /\ user_key[SocketUser[t]] = r /\ SocketUser[t] \notin calling
                          /\ \A v \in old : SocketUser[t] = SocketUser[v] => t = v
      BY DEF Agree, RoomsAreReserved
    <3>3. \A t \in old : SocketUser[t] # SocketUser[s]  BY <3>2
    <3>4. conversation_key'[rooms'[r].conversation] = r
      BY <1>0, <2>2 DEF Agree, RoomsAreReserved, TypeOK
    <3>5. rooms'[r].presenter \in rooms'[r].seats \cup {None}
      BY <1>0, <1>1, <2>2 DEF Agree, RoomsAreReserved
    <3>6. \A t \in old \cup {s} : user_key'[SocketUser[t]] = r
      BY <1>0, <3>1, <3>2 DEF TypeOK
    <3>. HIDE DEF old
    <3>. QED  BY <1>1, <1>4, <2>2, <3>2, <3>3, <3>4, <3>5, <3>6
  <2>. QED  BY <2>1, <2>2
<1>7. KeysNameRooms'
  <2>1. ASSUME NEW c \in Conversations, conversation_key'[c] # None
        PROVE  Live(conversation_key[c])' /\ rooms'[conversation_key'[c]].conversation = c
    <3>1. CASE conversation_key'[c] = conversation_key[c] /\ conversation_key[c] # r
      <4>1. conversation_key[c] \in Rooms  BY <2>1, <3>1 DEF TypeOK
      <4>. QED  BY <1>2, <2>1, <3>1, <4>1 DEF Agree, KeysNameRooms
    <3>2. CASE conversation_key'[c] = conversation_key[c] /\ conversation_key[c] = r
      <4>1. Live(r) /\ rooms[r].conversation = c  BY <2>1, <3>2 DEF Agree, KeysNameRooms
      <4>. QED  BY <1>0, <3>2, <4>1
    <3>3. CASE conversation_key'[c] # conversation_key[c]
      BY <3>3 DEF TypeOK
    <3>. QED  BY <3>1, <3>2, <3>3
  <2>2. ASSUME NEW u \in Users, user_key'[u] # None
        PROVE  Live(user_key[u])' /\ u \in UsersOf(rooms'[user_key'[u]].seats)
    <3>1. CASE u = SocketUser[s]
      BY <1>1, <3>1, <1>0 DEF UsersOf, TypeOK
    <3>2. CASE u # SocketUser[s]
      <4>1. user_key'[u] = user_key[u] /\ user_key[u] \in Rooms  BY <2>2, <3>2 DEF TypeOK
      <4>2. Live(user_key[u]) /\ u \in UsersOf(rooms[user_key[u]].seats)
        BY <2>2, <4>1 DEF Agree, KeysNameRooms
      <4>3. rooms[user_key[u]].seats \subseteq rooms'[user_key[u]].seats
        BY <1>1, <1>2, <4>1, <4>2
      <4>. QED  BY <1>2, <4>1, <4>2, <4>3 DEF UsersOf
    <3>. QED  BY <3>1, <3>2
  <2>. QED  BY <2>1, <2>2 DEF KeysNameRooms, Live, UsersOf
<1>. QED  BY <1>5, <1>6, <1>7 DEF Agree

\* Only the screen or the clock of a room changes.
LEMMA SameSeatsAgree ==
    ASSUME TypeOK, Agree, NEW r \in Rooms, rooms[r] # None, rooms'[r] # None,
           \A q \in Rooms : q # r => rooms'[q] = rooms[q],
           rooms'[r].status = rooms[r].status, rooms'[r].conversation = rooms[r].conversation,
           rooms'[r].seats = rooms[r].seats,
           rooms'[r].presenter \in rooms[r].seats \cup {rooms[r].presenter, None},
           UNCHANGED <<conversation_key, user_key, calling, issued>>
    PROVE  Agree'
<1>1. \A q \in Rooms : /\ Live(q)' <=> Live(q)
                       /\ rooms'[q] # None <=> rooms[q] # None
                       /\ Live(q) => /\ rooms'[q].conversation = rooms[q].conversation
                                     /\ rooms'[q].seats = rooms[q].seats
                                     /\ rooms'[q].presenter \in rooms[q].seats \cup {rooms[q].presenter, None}
  BY DEF Live
<1>2. OnlyIssued'  BY DEF OnlyIssued, Agree
<1>3. RoomsAreReserved'  BY <1>1 DEF RoomsAreReserved, Agree
<1>4. KeysNameRooms'
  <2>1. ASSUME NEW c \in Conversations, conversation_key'[c] # None
        PROVE  Live(conversation_key[c])' /\ rooms'[conversation_key'[c]].conversation = c
    <3>1. conversation_key[c] \in Rooms  BY <2>1 DEF TypeOK
    <3>. QED  BY <1>1, <2>1, <3>1 DEF Agree, KeysNameRooms
  <2>2. ASSUME NEW u \in Users, user_key'[u] # None
        PROVE  Live(user_key[u])' /\ u \in UsersOf(rooms'[user_key'[u]].seats)
    <3>1. user_key[u] \in Rooms  BY <2>2 DEF TypeOK
    <3>. QED  BY <1>1, <2>2, <3>1 DEF Agree, KeysNameRooms
  <2>. QED  BY <2>1, <2>2 DEF KeysNameRooms, Live, UsersOf
<1>. QED  BY <1>2, <1>3, <1>4 DEF Agree

-----------------------------------------------------------------------------
(* What each write of the scripts keeps.                                   *)

StoreTyped ==
    /\ rooms \in [Rooms -> Room \cup {None}]
    /\ conversation_key \in [Conversations -> Rooms \cup {None}]
    /\ user_key \in [Users -> Rooms \cup {None}]

\* No room appears or begins again, and none changes its conversation or membership.
RoomsStay ==
    \A r \in Rooms : rooms'[r] # None =>
        /\ rooms[r] # None
        /\ rooms'[r].conversation = rooms[r].conversation
        /\ rooms'[r].membership_revision = rooms[r].membership_revision
        /\ Live(r)' => Live(r)

SeatsShrink == \A r \in Rooms : Live(r)' => rooms'[r].seats \subseteq rooms[r].seats

Shrinks == StoreTyped' /\ Agree' /\ RoomsStay /\ SeatsShrink /\ RoomsAdvance

LEMMA OneRoomAdvances ==
    ASSUME rooms \in [Rooms -> Room \cup {None}], NEW r \in Rooms,
           \A q \in Rooms : q # r => rooms'[q] = rooms[q],
           rooms[r] # None /\ rooms'[r] # None =>
               /\ \/ rooms'[r].state_revision = rooms[r].state_revision + 1
                  \/ rooms'[r] = rooms[r]
                  \/ rooms'[r] = [rooms[r] EXCEPT !.due = TRUE]
               /\ rooms[r].status = "ended" => rooms'[r].status = "ended"
    PROVE  RoomsAdvance
<1>. SUFFICES ASSUME NEW q \in Rooms, rooms[q] # None, rooms'[q] # None
              PROVE  /\ rooms'[q].state_revision >= rooms[q].state_revision
                     /\ rooms'[q].state_revision = rooms[q].state_revision =>
                           [rooms'[q] EXCEPT !.due = rooms[q].due] = rooms[q]
                     /\ rooms[q].status = "ended" => rooms'[q].status = "ended"
  BY DEF RoomsAdvance
<1>1. rooms[q] \in Room  OBVIOUS
<1>2. rooms[q].state_revision \in Nat  BY <1>1 DEF Room
<1>3. CASE rooms'[q] = rooms[q]  BY <1>1, <1>2, <1>3 DEF Room
<1>4. CASE rooms'[q] = [rooms[q] EXCEPT !.due = TRUE]
  <2>1. PICK e \in Room : e = rooms[q]  BY <1>1
  <2>2. [[e EXCEPT !.due = TRUE] EXCEPT !.due = e.due] = e  BY DEF Room
  <2>3. /\ rooms'[q].state_revision = rooms[q].state_revision
        /\ rooms'[q].status = rooms[q].status
    BY <1>1, <1>4 DEF Room
  <2>. QED  BY <1>2, <1>4, <2>1, <2>2, <2>3
<1>5. CASE q = r /\ rooms'[r].state_revision = rooms[r].state_revision + 1  BY <1>2, <1>5
<1>. QED  BY <1>3, <1>4, <1>5

LEMMA UnchangedShrinks ==
    ASSUME TypeOK, Agree, UNCHANGED store, issued' = issued, calling' = calling
    PROVE  Shrinks
<1>1. UNCHANGED <<rooms, conversation_key, user_key>>  BY DEF store
<1>2. StoreTyped'  BY <1>1 DEF StoreTyped, TypeOK
<1>3. Agree'
  BY <1>1 DEF Agree, OnlyIssued, RoomsAreReserved, KeysNameRooms, Live, UsersOf
<1>4. RoomsStay /\ SeatsShrink  BY <1>1 DEF RoomsStay, SeatsShrink, Live
<1>5. RoomsAdvance
  <2>1. CASE Rooms = {}  BY <2>1 DEF RoomsAdvance
  <2>2. ASSUME NEW r \in Rooms  PROVE RoomsAdvance
    BY <1>1, OneRoomAdvances DEF TypeOK
  <2>. QED  BY <2>1, <2>2
<1>. QED  BY <1>2, <1>3, <1>4, <1>5 DEF Shrinks

LEMMA EndsRoomShrinks ==
    ASSUME TypeOK, Agree, NEW r \in Rooms, rooms[r] # None, NEW kept \in SUBSET rooms[r].seats,
           NEW p \in Sockets \cup {None}, EndsRoom(r, kept, p), issued' = issued, calling' = calling
    PROVE  Shrinks
<1>1. rooms[r] \in Room /\ kept \in SUBSET Sockets  BY DEF TypeOK, Room
<1>. DEFINE e == [conversation |-> rooms[r].conversation,
                  membership_revision |-> rooms[r].membership_revision,
                  status |-> "ended", state_revision |-> rooms[r].state_revision + 1,
                  seats |-> kept, presenter |-> p, due |-> rooms[r].due]
<1>2. Becomes(r, e)  BY <1>1, EndsRoomBecomes DEF TypeOK, RoomsTyped
<1>3. StoreTyped'
  BY <1>2 DEF StoreTyped, Becomes, EndsRoom, Freed, Unindexed, TypeOK
<1>4. /\ rooms'[r] # None /\ rooms'[r].status = "ended" /\ rooms'[r].seats = kept
      /\ rooms'[r].conversation = rooms[r].conversation
      /\ rooms'[r].membership_revision = rooms[r].membership_revision
      /\ rooms'[r].state_revision = rooms[r].state_revision + 1
      /\ \A q \in Rooms : q # r => rooms'[q] = rooms[q]
  BY <1>2, GroupRoomAssumption DEF Becomes
<1>5. Agree'
  <2>. DEFINE us == UsersOf(rooms[r].seats)
  <2>1. Freed(r, us) /\ Unindexed(r)  BY DEF EndsRoom
  <2>2. us \subseteq us  OBVIOUS
  <2>. QED  BY <1>4, <2>1, <2>2, OverAgrees
<1>6. RoomsStay /\ SeatsShrink  BY <1>4 DEF RoomsStay, SeatsShrink, Live
<1>7. RoomsAdvance  BY <1>4, OneRoomAdvances DEF TypeOK
<1>. QED  BY <1>3, <1>5, <1>6, <1>7 DEF Shrinks

LEMMA LeavesRoomShrinks ==
    ASSUME TypeOK, Agree, NEW r \in Rooms, NEW s \in Sockets, Seated(r, s), LeavesRoom(r, s),
           issued' = issued, calling' = calling
    PROVE  Shrinks /\ (Live(r)' => s \notin rooms'[r].seats)
<1>. DEFINE kept == rooms[r].seats \ {s}
            e == [conversation |-> rooms[r].conversation,
                  membership_revision |-> rooms[r].membership_revision,
                  status |-> IF kept = {} THEN "ended" ELSE rooms[r].status,
                  state_revision |-> rooms[r].state_revision + 1, seats |-> kept,
                  presenter |-> IF rooms[r].presenter = s THEN None ELSE rooms[r].presenter,
                  due |-> rooms[r].due]
<1>0. rooms[r] # None /\ rooms[r] \in Room /\ s \in rooms[r].seats  BY DEF Seated, TypeOK
<1>1. Becomes(r, e)  BY <1>0, LeavesRoomBecomes DEF TypeOK, RoomsTyped
<1>2. StoreTyped'
  <2>1. rooms' \in [Rooms -> Room \cup {None}]  BY <1>1 DEF Becomes
  <2>2. user_key' \in [Users -> Rooms \cup {None}]  BY DEF LeavesRoom, Freed, TypeOK
  <2>3. conversation_key' \in [Conversations -> Rooms \cup {None}]
    BY DEF LeavesRoom, Unindexed, TypeOK
  <2>. QED  BY <2>1, <2>2, <2>3 DEF StoreTyped
<1>3. /\ rooms'[r] # None /\ rooms'[r].seats = kept
      /\ rooms'[r].status = IF kept = {} THEN "ended" ELSE rooms[r].status
      /\ rooms'[r].conversation = rooms[r].conversation
      /\ rooms'[r].membership_revision = rooms[r].membership_revision
      /\ rooms'[r].presenter = IF rooms[r].presenter = s THEN None ELSE rooms[r].presenter
      /\ rooms'[r].state_revision = rooms[r].state_revision + 1
      /\ \A q \in Rooms : q # r => rooms'[q] = rooms[q]
  BY <1>1, GroupRoomAssumption DEF Becomes
<1>4. RoomsStay /\ SeatsShrink  BY <1>0, <1>3 DEF RoomsStay, SeatsShrink, Live
<1>5. Freed(r, {SocketUser[s]})
      /\ IF kept = {} THEN Unindexed(r) ELSE UNCHANGED conversation_key
  BY DEF LeavesRoom
<1>. HIDE DEF e
<1>6. Agree'
  <2>1. CASE kept # {} /\ Live(r)
    BY <1>0, <1>3, <1>5, <2>1, SeatLeftAgrees
  <2>2. CASE kept = {} \/ ~Live(r)
    <3>1. Unindexed(r)
      <4>1. CASE kept = {}  BY <1>5, <4>1
      <4>2. CASE kept # {} /\ ~Live(r)
        <5>1. \A c \in Conversations : conversation_key[c] # r
          BY <4>2, GroupRoomAssumption DEF Agree, KeysNameRooms
        <5>. QED  BY <1>5, <4>2, <5>1 DEF Unindexed, TypeOK
      <4>. QED  BY <2>2, <4>1, <4>2
    <3>2. Live(r) => UsersOf(rooms[r].seats) \subseteq {SocketUser[s]}
      BY <2>2 DEF UsersOf
    <3>3. rooms'[r].status = "ended" /\ rooms'[r].seats \subseteq rooms[r].seats
      BY <1>0, <1>3, <2>2 DEF Live
    <3>. QED  BY <1>0, <1>3, <1>5, <3>1, <3>2, <3>3, OverAgrees
  <2>. QED  BY <2>1, <2>2
<1>7. RoomsAdvance  BY <1>3, OneRoomAdvances DEF TypeOK
<1>. QED  BY <1>2, <1>3, <1>4, <1>6, <1>7 DEF Shrinks

LEMMA SameSeatsShrink ==
    ASSUME TypeOK, Agree, NEW r \in Rooms, rooms[r] # None, NEW e \in Room, Becomes(r, e),
           e.conversation = rooms[r].conversation, e.status = rooms[r].status,
           e.membership_revision = rooms[r].membership_revision, e.seats = rooms[r].seats,
           e.presenter \in rooms[r].seats \cup {rooms[r].presenter, None},
           \/ e.state_revision = rooms[r].state_revision + 1
           \/ e = [rooms[r] EXCEPT !.due = TRUE],
           UNCHANGED <<conversation_key, user_key, calling, issued>>
    PROVE  Shrinks
<1>1. rooms'[r] = e /\ e # None /\ \A q \in Rooms : q # r => rooms'[q] = rooms[q]
  BY GroupRoomAssumption DEF Becomes
<1>2. StoreTyped'  BY DEF StoreTyped, Becomes, TypeOK
<1>3. Agree'  BY <1>1, SameSeatsAgree
<1>4. RoomsStay /\ SeatsShrink  BY <1>1 DEF RoomsStay, SeatsShrink, Live
<1>5. RoomsAdvance  BY <1>1, OneRoomAdvances DEF TypeOK
<1>. QED  BY <1>2, <1>3, <1>4, <1>5 DEF Shrinks

LEMMA LapseShrinks ==
    ASSUME TypeOK, Agree, NEW r \in Rooms, rooms[r] # None, rooms' = [rooms EXCEPT ![r] = None],
           Freed(r, Users), Unindexed(r), issued' = issued, calling' = calling
    PROVE  Shrinks
<1>1. rooms'[r] = None /\ \A q \in Rooms : q # r => rooms'[q] = rooms[q]  BY DEF TypeOK
<1>2. StoreTyped'  BY DEF StoreTyped, Freed, Unindexed, TypeOK
<1>3. Live(r) => UsersOf(rooms[r].seats) \subseteq Users
  BY GroupRoomAssumption DEF Live, TypeOK, Room, UsersOf
<1>4. Agree'  BY <1>1, <1>3, OverAgrees
<1>5. RoomsStay /\ SeatsShrink  BY <1>1 DEF RoomsStay, SeatsShrink, Live
<1>6. RoomsAdvance  BY <1>1, OneRoomAdvances DEF TypeOK
<1>. QED  BY <1>2, <1>4, <1>5, <1>6 DEF Shrinks

-----------------------------------------------------------------------------
(* The store, step by step.                                                *)

LEMMA StartKeeps ==
    ASSUME IInv, NEW s \in Sockets, StartScript(s)
    PROVE  /\ StoreTyped' /\ Agree' /\ RoomsAdvance
           /\ \E r \in Rooms \ issued :
                 /\ rooms'[r] # None /\ rooms'[r].seats = {s}
                 /\ rooms'[r].conversation = command[s].conversation
                 /\ rooms'[r].membership_revision = command[s].revision
                 /\ \A q \in Rooms : q # r => rooms'[q] = rooms[q]
                 /\ issued' = issued \cup {r}
                 /\ astray' = IF Holds(s) THEN astray ELSE astray \cup {r}
                 /\ command' = [command EXCEPT ![s].room = r, ![s].step = "written"]
<1>. USE GroupRoomAssumption
<1>. DEFINE u == SocketUser[s]
            c == command[s].conversation
<1>0. TypeOK /\ Agree /\ u \in Users  BY DEF IInv, SeatsAreExclusive, Agree
<1>1. command[s] \in Command  BY <1>0 DEF StartScript, In, TypeOK
<1>2. c \in Conversations /\ command[s].revision \in 1 .. MaxRevision  BY <1>1 DEF Command
<1>3. PICK r \in Rooms \ issued :
         /\ rooms' = [rooms EXCEPT ![r] =
                [conversation |-> c, membership_revision |-> command[s].revision,
                 status |-> "ringing", state_revision |-> 1, seats |-> {s},
                 presenter |-> None, due |-> FALSE]]
         /\ conversation_key' = [conversation_key EXCEPT ![c] = r]
         /\ user_key' = [user_key EXCEPT ![u] = r]
         /\ issued' = issued \cup {r}
         /\ astray' = IF Holds(s) THEN astray ELSE astray \cup {r}
         /\ command' = [command EXCEPT ![s].room = r, ![s].step = "written"]
  BY DEF StartScript
<1>4. /\ conversation_key[c] = None /\ user_key[u] = None /\ u \notin calling
      /\ calling' = calling
  BY DEF StartScript
<1>. DEFINE e == [conversation |-> c, membership_revision |-> command[s].revision,
                  status |-> "ringing", state_revision |-> 1, seats |-> {s},
                  presenter |-> None, due |-> FALSE]
<1>5. e \in Room  BY <1>2 DEF Room
<1>6. /\ rooms' \in [Rooms -> Room \cup {None}] /\ rooms'[r] = e
      /\ \A q \in Rooms : q # r => rooms'[q] = rooms[q]
  BY <1>0, <1>3, <1>5 DEF TypeOK
<1>7. rooms'[r] # None /\ Live(r)'
  <2>1. e # None /\ e.status = "ringing"  BY <1>5
  <2>. HIDE DEF e
  <2>. QED  BY <1>6, <2>1 DEF Live
<1>8. StoreTyped'
  BY <1>0, <1>3, <1>6 DEF StoreTyped, TypeOK
<1>9. /\ rooms'[r].seats = {s} /\ rooms'[r].presenter = None
      /\ rooms'[r].conversation = c /\ rooms'[r].membership_revision = command[s].revision
  BY <1>6
<1>. HIDE DEF e
<1>10. Agree'
  BY <1>0, <1>2, <1>3, <1>4, <1>6, <1>7, <1>9, SeatTakenAgrees
<1>11. RoomsAdvance
  <2>1. rooms[r] = None  BY <1>0 DEF Agree, OnlyIssued
  <2>. QED  BY <1>0, <1>6, <2>1, OneRoomAdvances DEF TypeOK
<1>. QED  BY <1>3, <1>6, <1>7, <1>8, <1>9, <1>10, <1>11

LEMMA JoinKeeps ==
    ASSUME IInv, NEW s \in Sockets, JoinScript(s)
    PROVE  /\ StoreTyped' /\ Agree' /\ RoomsAdvance /\ RoomsStay
           /\ command[s].room \in Rooms /\ Live(command[s].room)
           /\ rooms[command[s].room].membership_revision = command[s].revision
           /\ rooms'[command[s].room].seats = rooms[command[s].room].seats \cup {s}
           /\ \A q \in Rooms : q # command[s].room => rooms'[q] = rooms[q]
<1>. USE GroupRoomAssumption
<1>. DEFINE u == SocketUser[s]
<1>0. TypeOK /\ Agree /\ u \in Users  BY DEF IInv, SeatsAreExclusive, Agree
<1>1. command[s] # None /\ command[s].op = "join"  BY DEF JoinScript, In
<1>2. PICK r \in Rooms : r = command[s].room
  BY <1>0, <1>1 DEF IInv, CommandsKnow, CommandKnows, TypeOK
<1>3. /\ Live(r) /\ rooms[r].membership_revision = command[s].revision
      /\ Cardinality(rooms[r].seats) < Capacity
      /\ user_key[u] = None /\ u \notin calling
  BY <1>2 DEF JoinScript, Admissible
<1>. DEFINE e == [conversation |-> rooms[r].conversation,
                  membership_revision |-> rooms[r].membership_revision,
                  status |-> "active", state_revision |-> rooms[r].state_revision + 1,
                  seats |-> rooms[r].seats \cup {s}, presenter |-> rooms[r].presenter,
                  due |-> FALSE]
<1>4. Becomes(r, e)
  BY <1>0, <1>2, JoinBecomes DEF TypeOK, RoomsTyped
<1>5. /\ rooms' \in [Rooms -> Room \cup {None}] /\ rooms'[r] # None
      /\ rooms'[r].status = "active" /\ rooms'[r].seats = rooms[r].seats \cup {s}
      /\ rooms'[r].conversation = rooms[r].conversation
      /\ rooms'[r].membership_revision = rooms[r].membership_revision
      /\ rooms'[r].presenter = rooms[r].presenter
      /\ rooms'[r].state_revision = rooms[r].state_revision + 1
      /\ \A q \in Rooms : q # r => rooms'[q] = rooms[q]
  <2>1. /\ e.status = "active" /\ e.seats = rooms[r].seats \cup {s}
        /\ e.conversation = rooms[r].conversation
        /\ e.membership_revision = rooms[r].membership_revision
        /\ e.presenter = rooms[r].presenter
        /\ e.state_revision = rooms[r].state_revision + 1
    OBVIOUS
  <2>. HIDE DEF e
  <2>. QED  BY <1>4, <2>1 DEF Becomes
<1>. HIDE DEF e
<1>6. /\ conversation_key' = [conversation_key EXCEPT ![rooms[r].conversation] = r]
      /\ user_key' = [user_key EXCEPT ![u] = r]
      /\ calling' = calling /\ issued' = issued
  BY <1>2 DEF JoinScript, others
<1>7. conversation_key' = conversation_key
  BY <1>0, <1>2, <1>3, <1>6 DEF Agree, RoomsAreReserved, TypeOK
<1>8. StoreTyped'
  BY <1>0, <1>2, <1>5, <1>6, <1>7 DEF StoreTyped, TypeOK
<1>9. Live(r)'  BY <1>5 DEF Live
<1>10. Agree'
  BY <1>0, <1>2, <1>3, <1>5, <1>6, <1>7, <1>9, SeatTakenAgrees
<1>11. RoomsStay  BY <1>3, <1>5 DEF RoomsStay, Live
<1>12. RoomsAdvance
  <2>1. rooms[r].status # "ended"  BY <1>3 DEF Live
  <2>. QED  BY <1>0, <1>5, <2>1, OneRoomAdvances DEF TypeOK
<1>. QED  BY <1>2, <1>3, <1>5, <1>8, <1>10, <1>11, <1>12

LEMMA StoreStep ==
    ASSUME IInv, [Next]_vars
    PROVE  Shrinks \/ \E s \in Sockets : StartScript(s) \/ JoinScript(s)
<1>. USE GroupRoomAssumption DEF others, store
<1>0. TypeOK /\ Agree /\ CommandsKnow  BY DEF IInv, SeatsAreExclusive, Agree
<1>1. ASSUME UNCHANGED store, issued' = issued, calling' = calling  PROVE Shrinks
  BY <1>0, <1>1, UnchangedShrinks
<1>2. CASE UNCHANGED vars  BY <1>1, <1>2 DEF vars
<1>3. ASSUME NEW s \in Sockets, NEW op \in Ops, NEW c \in Conversations,
             NEW r \in Rooms \cup {None}, Begin(s, op, c, r)
      PROVE  Shrinks
  BY <1>1, <1>3 DEF Begin
<1>4. ASSUME NEW s \in Sockets, command[s] # None, command[s].room # None
      PROVE  command[s].room \in Rooms
  BY <1>0, <1>4 DEF TypeOK, Command
<1>5. ASSUME NEW s \in Sockets, Starting(s), ~StartScript(s)  PROVE Shrinks
  <2>1. CASE StartCommits(s) \/ StartFails(s)  BY <1>1, <2>1 DEF StartCommits, StartFails
  <2>2. CASE StartAborts(s)
    <3>. DEFINE r == command[s].room
    <3>1. CASE UNCHANGED store  BY <1>1, <2>2, <3>1 DEF StartAborts
    <3>2. CASE Seated(r, s) /\ Live(r) /\ EndsRoom(r, {}, None)
      <4>1. r \in Rooms
        BY <1>0, <2>2 DEF StartAborts, In, CommandsKnow, CommandKnows, TypeOK
      <4>2. rooms[r] # None /\ issued' = issued /\ calling' = calling
        BY <2>2, <3>2 DEF StartAborts, Live
      <4>. QED  BY <1>0, <3>2, <4>1, <4>2, EndsRoomShrinks
    <3>. QED  BY <2>2, <3>1, <3>2 DEF StartAborts
  <2>. QED  BY <1>5, <2>1, <2>2 DEF Starting
<1>6. ASSUME NEW s \in Sockets, Commanding(s), ~JoinScript(s)  PROVE Shrinks
  <2>. DEFINE r == command[s].room
  <2>1. CASE Refused(s) \/ LeaseLost(s)  BY <1>1, <2>1 DEF Refused, LeaseLost
  <2>2. ASSUME command[s] # None, command[s].op # "start"  PROVE r \in Rooms
    BY <1>0, <2>2 DEF CommandsKnow, CommandKnows, TypeOK
  <2>3. CASE LeaveScript(s)
    <3>1. r \in Rooms /\ issued' = issued /\ calling' = calling
      BY <2>2, <2>3 DEF LeaveScript, In
    <3>. QED  BY <1>0, <2>3, <3>1, LeavesRoomShrinks DEF LeaveScript
  <2>4. CASE EndScript(s) \/ DiscoverScript(s)
    <3>1. r \in Rooms /\ issued' = issued /\ calling' = calling
      BY <2>2, <2>4 DEF EndScript, DiscoverScript, In
    <3>2. rooms[r] # None /\ EndsRoom(r, {}, rooms[r].presenter)
      BY <2>4 DEF EndScript, DiscoverScript, Seated, Live
    <3>3. rooms[r].presenter \in Sockets \cup {None}
      BY <1>0, <3>1, <3>2 DEF TypeOK, Room
    <3>. QED  BY <1>0, <3>1, <3>2, <3>3, EndsRoomShrinks
  <2>5. ASSUME NEW p \in {s, None}, r \in Rooms, rooms[r] # None,
               rooms' = [rooms EXCEPT ![r].presenter = p, ![r].state_revision = @ + 1],
               UNCHANGED <<conversation_key, user_key, calling, issued>>, s \in rooms[r].seats
        PROVE  Shrinks
    <3>. DEFINE e == [conversation |-> rooms[r].conversation,
                      membership_revision |-> rooms[r].membership_revision,
                      status |-> rooms[r].status, state_revision |-> rooms[r].state_revision + 1,
                      seats |-> rooms[r].seats, presenter |-> p, due |-> rooms[r].due]
    <3>1. Becomes(r, e)  BY <1>0, <2>5, PresenterBecomes DEF TypeOK, RoomsTyped
    <3>2. e \in Room  BY <3>1 DEF Becomes
    <3>. QED  BY <1>0, <2>5, <3>1, <3>2, SameSeatsShrink
  <2>6. CASE PresentScript(s) \/ StopScript(s)
    <3>1. r \in Rooms  BY <2>2, <2>6 DEF PresentScript, StopScript, In
    <3>2. \E p \in {s, None} : rooms' = [rooms EXCEPT ![r].presenter = p, ![r].state_revision = @ + 1]
      BY <2>6 DEF PresentScript, StopScript
    <3>3. /\ rooms[r] # None /\ s \in rooms[r].seats
          /\ UNCHANGED <<conversation_key, user_key, calling, issued>>
      BY <2>6 DEF PresentScript, StopScript, Seated
    <3>. QED  BY <2>5, <3>1, <3>2, <3>3
  <2>. QED  BY <1>6, <2>1, <2>3, <2>4, <2>6 DEF Commanding
<1>7. ASSUME NEW s \in Sockets, Leaving(s)  PROVE Shrinks
  <2>1. CASE Remove(s) \/ Vanish(s)  BY <1>1, <2>1 DEF Remove, Vanish
  <2>2. CASE RemoveLeaves(s)
    <3>1. CASE UNCHANGED store  BY <1>1, <2>2, <3>1 DEF RemoveLeaves
    <3>2. CASE found[s] # None /\ Seated(found[s], s) /\ LeavesRoom(found[s], s)
      <4>1. found[s] \in Rooms /\ issued' = issued /\ calling' = calling
        BY <1>0, <2>2, <3>2 DEF RemoveLeaves, TypeOK
      <4>. QED  BY <1>0, <3>2, <4>1, LeavesRoomShrinks
    <3>. QED  BY <2>2, <3>1, <3>2 DEF RemoveLeaves
  <2>. QED  BY <1>7, <2>1, <2>2 DEF Leaving
<1>8. ASSUME NEW c \in Conversations, NEW u \in Users, ChangeMembership(c, u)  PROVE Shrinks
  BY <1>1, <1>8 DEF ChangeMembership
<1>9. ASSUME NEW n \in notices, NotifyEnds(n) \/ NotifyFails(n)  PROVE Shrinks
  <2>1. CASE UNCHANGED store  BY <1>1, <1>9, <2>1 DEF NotifyEnds, NotifyFails
  <2>2. CASE Live(n.room) /\ EndsRoom(n.room, {}, rooms[n.room].presenter)
    <3>1. n.room \in Rooms /\ rooms[n.room] # None /\ issued' = issued /\ calling' = calling
      BY <1>0, <1>9, <2>2 DEF NotifyEnds, NotifyFails, TypeOK, Notice, Live
    <3>2. rooms[n.room].presenter \in Sockets \cup {None}  BY <1>0, <3>1 DEF TypeOK, Room
    <3>. QED  BY <1>0, <2>2, <3>1, <3>2, EndsRoomShrinks
  <2>. QED  BY <1>9, <2>1, <2>2 DEF NotifyEnds, NotifyFails, Retirable
<1>10. ASSUME Notifying  PROVE Shrinks
  <2>1. ASSUME NEW e \in pending, NotifyReads(e)  PROVE Shrinks  BY <1>1, <2>1 DEF NotifyReads
  <2>. QED  BY <1>9, <1>10, <2>1 DEF Notifying
<1>11. ASSUME NEW r \in Rooms, RoomFallsDue(r) \/ Expire(r) \/ RoomLapses(r)  PROVE Shrinks
  <2>1. CASE RoomFallsDue(r)
    <3>1. rooms[r] # None /\ rooms[r] \in Room  BY <1>0, <2>1 DEF RoomFallsDue, Live, TypeOK
    <3>2. Becomes(r, [rooms[r] EXCEPT !.due = TRUE])
      BY <1>0, <2>1, <3>1, DueBecomes DEF RoomFallsDue, TypeOK, RoomsTyped
    <3>3. [rooms[r] EXCEPT !.due = TRUE] \in Room  BY <3>2 DEF Becomes
    <3>4. UNCHANGED <<conversation_key, user_key, calling, issued>>
      BY <2>1 DEF RoomFallsDue
    <3>. DEFINE e == [rooms[r] EXCEPT !.due = TRUE]
    <3>5. /\ e.conversation = rooms[r].conversation /\ e.status = rooms[r].status
          /\ e.membership_revision = rooms[r].membership_revision /\ e.seats = rooms[r].seats
          /\ e.presenter = rooms[r].presenter
      BY <3>1 DEF Room
    <3>. HIDE DEF e
    <3>6. e \in Room /\ Becomes(r, e) /\ e = [rooms[r] EXCEPT !.due = TRUE]
      BY <3>2, <3>3 DEF e
    <3>. QED  BY <1>0, <3>1, <3>4, <3>5, <3>6, SameSeatsShrink
  <2>2. CASE Expire(r)
    <3>1. rooms[r] # None /\ issued' = issued /\ calling' = calling
      BY <2>2 DEF Expire, Live
    <3>. QED  BY <1>0, <2>2, <3>1, EndsRoomShrinks DEF Expire
  <2>3. CASE RoomLapses(r)
    <3>1. rooms[r] # None /\ issued' = issued /\ calling' = calling
      BY <2>3 DEF RoomLapses
    <3>. QED  BY <1>0, <2>3, <3>1, LapseShrinks DEF RoomLapses
  <2>. QED  BY <1>11, <2>1, <2>2, <2>3
<1>12. ASSUME NEW u \in Users, AdmissionLapses(u) \/ DirectCallStarts(u) \/ DirectCallEnds(u)
       PROVE  Shrinks
  <2>1. CASE AdmissionLapses(u)  BY <1>1, <2>1 DEF AdmissionLapses
  <2>2. CASE DirectCallStarts(u) \/ DirectCallEnds(u)
    <3>1. /\ UNCHANGED <<rooms, conversation_key, user_key, issued>>
          /\ \A v \in calling' : v \notin calling => user_key[v] = None
      BY <2>2 DEF DirectCallStarts, DirectCallEnds
    <3>2. OnlyIssued' /\ KeysNameRooms'
      BY <1>0, <3>1 DEF Agree, OnlyIssued, KeysNameRooms, Live, UsersOf
    <3>3. RoomsAreReserved'
      BY <1>0, <3>1 DEF Agree, RoomsAreReserved, Live
    <3>4. StoreTyped' /\ RoomsStay /\ SeatsShrink
      BY <1>0, <3>1 DEF StoreTyped, TypeOK, RoomsStay, SeatsShrink, Live
    <3>5. RoomsAdvance
      <4>1. CASE Rooms = {}  BY <4>1 DEF RoomsAdvance
      <4>2. ASSUME NEW r \in Rooms  PROVE RoomsAdvance
        BY <1>0, <3>1, OneRoomAdvances DEF TypeOK
      <4>. QED  BY <4>1, <4>2
    <3>. QED  BY <3>2, <3>3, <3>4, <3>5 DEF Shrinks, Agree
  <2>. QED  BY <1>12, <2>1, <2>2
<1>. QED  BY <1>2, <1>3, <1>5, <1>6, <1>7, <1>8, <1>9, <1>10, <1>11, <1>12 DEF Next

-----------------------------------------------------------------------------
(* The rest of the state, step by step.                                    *)

BookTyped ==
    /\ admission \in [Users -> Sockets \cup {None}]
    /\ calling \subseteq Users /\ issued \subseteq Rooms /\ astray \subseteq Rooms
    /\ members \in [Conversations -> SUBSET Users]
    /\ revision \in [Conversations -> 1 .. MaxRevision]
    /\ lock \in [Conversations -> Sockets \cup {None}]
    /\ pending \subseteq Event /\ notices \subseteq Notice
    /\ phase \in [Sockets -> {"open", "removing", "gone", "lost"}]
    /\ found \in [Sockets -> Rooms \cup {None}]
    /\ command \in [Sockets -> Command \cup {None}]
    /\ overtaken \subseteq Sockets
    /\ begun \in 0 .. MaxCommands /\ faults \in 0 .. MaxFaults

LEMMA TypeParts == TypeOK <=> StoreTyped /\ BookTyped
  BY DEF TypeOK, StoreTyped, BookTyped

Frame == <<others, membership, outbox, sockets, bounds>>

LEMMA DoneTyped ==
    ASSUME BookTyped, NEW s \in Sockets, Done(s), UNCHANGED <<others, membership, outbox, sockets>>,
           UNCHANGED begun, faults' \in 0 .. MaxFaults
    PROVE  BookTyped'
  BY DEF BookTyped, Done, Unlocked, Released, others, membership, outbox, sockets

LEMMA FaultsTyped ==
    ASSUME BookTyped, Fails
    PROVE  UNCHANGED begun /\ faults' \in 0 .. MaxFaults
  BY GroupRoomAssumption DEF BookTyped, Fails

LEMMA BookStep ==
    ASSUME TypeOK, [Next]_vars
    PROVE  BookTyped'
<1>. USE GroupRoomAssumption
<1>0. BookTyped /\ StoreTyped  BY TypeParts
<1>1. CASE UNCHANGED vars
  BY <1>0, <1>1 DEF vars, BookTyped, others, membership, outbox, sockets, bounds
<1>2. ASSUME NEW s \in Sockets, NEW op \in Ops, NEW c \in Conversations,
             NEW r \in Rooms \cup {None}, Begin(s, op, c, r)
      PROVE  BookTyped'
  <2>. DEFINE k == [op |-> op, conversation |-> c, room |-> r, revision |-> revision[c],
                    in_time |-> op = "join" /\ ~rooms[r].due, step |-> "leased"]
  <2>1. k \in Command
    <3>1. (op = "join" /\ ~rooms[r].due) \in BOOLEAN  OBVIOUS
    <3>2. revision[c] \in 1 .. MaxRevision  BY <1>0 DEF BookTyped
    <3>. QED  BY <3>1, <3>2 DEF Command
  <2>2. command' = [command EXCEPT ![s] = k]  BY <1>2 DEF Begin
  <2>3. command' \in [Sockets -> Command \cup {None}]  BY <1>0, <2>1, <2>2 DEF BookTyped
  <2>. HIDE DEF k
  <2>. QED
    BY <1>0, <1>2, <2>3 DEF Begin, BookTyped, others, membership, outbox
<1>3. ASSUME NEW s \in Sockets, StartScript(s)  PROVE BookTyped'
  <2>1. command[s] \in Command  BY <1>0, <1>3 DEF StartScript, In, BookTyped
  <2>2. PICK r \in Rooms : /\ issued' = issued \cup {r}
                           /\ astray' = IF Holds(s) THEN astray ELSE astray \cup {r}
                           /\ command' = [command EXCEPT ![s].room = r, ![s].step = "written"]
    BY <1>3 DEF StartScript
  <2>3. command' \in [Sockets -> Command \cup {None}]
    BY <1>0, <2>1, <2>2 DEF BookTyped, Command
  <2>. QED
    BY <1>0, <1>3, <2>2, <2>3 DEF StartScript, BookTyped, membership, outbox, sockets, bounds
<1>4. ASSUME NEW s \in Sockets, Starting(s), ~StartScript(s)  PROVE BookTyped'
  <2>1. CASE StartCommits(s)
    BY <1>0, <2>1, DoneTyped DEF StartCommits, bounds, BookTyped
  <2>2. CASE StartFails(s)
    <3>1. command[s] \in Command  BY <1>0, <2>2 DEF StartFails, In, BookTyped
    <3>2. command' \in [Sockets -> Command \cup {None}]
      BY <1>0, <2>2, <3>1 DEF StartFails, BookTyped, Command
    <3>3. begun' = begun /\ faults' \in 0 .. MaxFaults
      BY <1>0, <2>2, FaultsTyped DEF StartFails, bounds, BookTyped
    <3>. QED
      BY <1>0, <2>2, <3>2, <3>3 DEF StartFails, BookTyped, others, membership, outbox, sockets
  <2>3. CASE StartAborts(s)
    <3>1. begun' = begun /\ faults' \in 0 .. MaxFaults
      BY <1>0, <2>3, FaultsTyped DEF StartAborts, bounds, BookTyped
    <3>. QED  BY <1>0, <2>3, <3>1, DoneTyped DEF StartAborts
  <2>. QED  BY <1>4, <2>1, <2>2, <2>3 DEF Starting
<1>5. ASSUME NEW s \in Sockets, Commanding(s)  PROVE BookTyped'
  <2>1. CASE LeaseLost(s)
    <3>1. begun' = begun /\ faults' \in 0 .. MaxFaults
      BY <1>0, <2>1, FaultsTyped DEF LeaseLost
    <3>. QED
      BY <1>0, <2>1, <3>1 DEF LeaseLost, Unlocked, BookTyped, others, membership, outbox, sockets
  <2>2. ASSUME Done(s), UNCHANGED Frame  PROVE BookTyped'
    BY <1>0, <2>2, DoneTyped DEF Frame, bounds, BookTyped
  <2>. QED
    BY <1>5, <2>1, <2>2
    DEF Commanding, JoinScript, LeaveScript, EndScript, PresentScript, StopScript, DiscoverScript,
        Refused, Frame
<1>6. ASSUME NEW s \in Sockets, Leaving(s)  PROVE BookTyped'
  <2>1. CASE Remove(s)
    <3>1. user_key[SocketUser[s]] \in Rooms \cup {None}  BY <1>0 DEF StoreTyped
    <3>. QED
      BY <1>0, <2>1, <3>1 DEF Remove, BookTyped, others, membership, outbox, bounds
  <2>2. CASE RemoveLeaves(s)
    BY <1>0, <2>2 DEF RemoveLeaves, BookTyped, others, membership, outbox, bounds
  <2>3. CASE Vanish(s)
    <3>1. begun' = begun /\ faults' \in 0 .. MaxFaults
      BY <1>0, <2>3, FaultsTyped DEF Vanish
    <3>. QED
      BY <1>0, <2>3, <3>1 DEF Vanish, Unlocked, BookTyped, others, membership, outbox
  <2>. QED  BY <1>6, <2>1, <2>2, <2>3 DEF Leaving
<1>7. ASSUME NEW c \in Conversations, NEW u \in Users, ChangeMembership(c, u)  PROVE BookTyped'
  <2>1. revision[c] + 1 \in 1 .. MaxRevision  BY <1>0, <1>7 DEF ChangeMembership, BookTyped
  <2>2. [conversation |-> c, revision |-> revision[c] + 1] \in Event  BY <2>1 DEF Event
  <2>. QED
    BY <1>0, <1>7, <2>1, <2>2 DEF ChangeMembership, BookTyped, others, sockets, bounds
<1>8. ASSUME NEW e \in pending, NotifyReads(e)  PROVE BookTyped'
  <2>. DEFINE r == conversation_key[e.conversation]
              n == [event |-> e, room |-> r, state_revision |-> rooms[r].state_revision]
  <2>1. e \in Event /\ e.conversation \in Conversations  BY <1>0 DEF BookTyped, Event
  <2>2. r # None /\ Live(r) => n \in Notice
    BY <1>0, <2>1 DEF StoreTyped, Live, Room, Notice
  <2>3. notices' \subseteq Notice  BY <1>0, <1>8, <2>2 DEF NotifyReads, BookTyped
  <2>4. pending' \subseteq Event  BY <1>0, <1>8 DEF NotifyReads, BookTyped
  <2>. QED
    BY <1>0, <1>8, <2>3, <2>4 DEF NotifyReads, BookTyped, others, membership, sockets, bounds
<1>9. ASSUME NEW n \in notices, NotifyEnds(n)  PROVE BookTyped'
  BY <1>0, <1>9 DEF NotifyEnds, BookTyped, others, membership, sockets, bounds
<1>10. ASSUME NEW n \in notices, NotifyFails(n)  PROVE BookTyped'
  <2>1. begun' = begun /\ faults' \in 0 .. MaxFaults
    BY <1>0, <1>10, FaultsTyped DEF NotifyFails
  <2>. QED
    BY <1>0, <1>10, <2>1 DEF NotifyFails, BookTyped, others, membership, sockets
<1>11. ASSUME NEW r \in Rooms, RoomFallsDue(r) \/ Expire(r) \/ RoomLapses(r)  PROVE BookTyped'
  BY <1>0, <1>11
  DEF RoomFallsDue, Expire, RoomLapses, BookTyped, others, membership, outbox, sockets, bounds
<1>12. ASSUME NEW u \in Users, AdmissionLapses(u) \/ DirectCallStarts(u) \/ DirectCallEnds(u)
       PROVE  BookTyped'
  BY <1>0, <1>12
  DEF AdmissionLapses, DirectCallStarts, DirectCallEnds, BookTyped, others, membership, outbox,
      sockets, bounds
<1>. QED
  BY <1>1, <1>2, <1>3, <1>4, <1>5, <1>6, <1>7, <1>8, <1>9, <1>10, <1>11, <1>12 DEF Next, Notifying

\* The commands under way go on as they are, or end.
CommandsStay ==
    \A s \in Sockets : command'[s] # None =>
        /\ command[s] # None
        /\ command'[s].conversation = command[s].conversation
        /\ command'[s].revision = command[s].revision
        /\ command'[s].room = command[s].room
        /\ command'[s].op = command[s].op
        /\ command'[s].step = "leased" <=> command[s].step = "leased"

\* A lease that is still held is the lease of the same command.
LocksStay ==
    \A c \in Conversations : lock'[c] # None =>
        /\ lock'[c] = lock[c] /\ revision'[c] = revision[c]
        /\ command'[lock[c]] # None
        /\ command'[lock[c]].conversation = command[lock[c]].conversation
        /\ command'[lock[c]].revision = command[lock[c]].revision

LEMMA DoneStays ==
    ASSUME TypeOK, LeasesAreCurrent, NEW s \in Sockets,
           command' = [command EXCEPT ![s] = None], lock' = Unlocked(s), UNCHANGED membership
    PROVE  CommandsStay /\ LocksStay
<1>. USE GroupRoomAssumption
<1>1. \A t \in Sockets : t # s => command'[t] = command[t]  BY DEF TypeOK
<1>2. command'[s] = None  BY DEF TypeOK
<1>3. CommandsStay  BY <1>1, <1>2 DEF CommandsStay
<1>4. LocksStay
  <2>. SUFFICES ASSUME NEW c \in Conversations, lock'[c] # None
                PROVE  /\ lock'[c] = lock[c] /\ revision'[c] = revision[c]
                       /\ command'[lock[c]] = command[lock[c]] /\ command[lock[c]] # None
    BY DEF LocksStay
  <2>1. lock'[c] = lock[c] /\ lock[c] # s /\ lock[c] # None /\ lock[c] \in Sockets
    BY DEF Unlocked, TypeOK
  <2>. QED  BY <1>1, <2>1 DEF LeasesAreCurrent, membership
<1>. QED  BY <1>3, <1>4

LEMMA CommandStep ==
    ASSUME TypeOK, LeasesAreCurrent, [Next]_vars
    PROVE  \/ CommandsStay /\ LocksStay
           \/ LocksStay /\ \E s \in Sockets : StartScript(s)
           \/ \E s \in Sockets, op \in Ops, c \in Conversations, r \in Rooms \cup {None} :
                 Begin(s, op, c, r)
<1>. USE GroupRoomAssumption
<1>1. ASSUME UNCHANGED <<command, lock, membership>>  PROVE CommandsStay /\ LocksStay
  BY <1>1 DEF CommandsStay, LocksStay, LeasesAreCurrent, membership
<1>2. CASE UNCHANGED vars  BY <1>1, <1>2 DEF vars
<1>3. ASSUME NEW s \in Sockets, StartScript(s)  PROVE LocksStay
  <2>1. /\ \A t \in Sockets : t # s => command'[t] = command[t]
        /\ command'[s] # None /\ command'[s].conversation = command[s].conversation
        /\ command'[s].revision = command[s].revision
    <3>1. command[s] \in Command  BY <1>3 DEF StartScript, In, TypeOK
    <3>2. PICK r \in Rooms : command' = [command EXCEPT ![s].room = r, ![s].step = "written"]
      BY <1>3 DEF StartScript
    <3>3. command'[s] \in Command /\ command'[s].conversation = command[s].conversation
          /\ command'[s].revision = command[s].revision
      BY <3>1, <3>2 DEF TypeOK, Command
    <3>. QED  BY <3>2, <3>3 DEF TypeOK
  <2>2. lock' = lock /\ revision' = revision  BY <1>3 DEF StartScript, membership
  <2>3. \A c \in Conversations : lock[c] # None => lock[c] \in Sockets /\ command[lock[c]] # None
    BY DEF TypeOK, LeasesAreCurrent
  <2>. QED  BY <2>1, <2>2, <2>3 DEF LocksStay
<1>4. ASSUME NEW s \in Sockets, Starting(s), ~StartScript(s)  PROVE CommandsStay /\ LocksStay
  <2>1. CASE StartCommits(s) \/ StartAborts(s)
    BY <2>1, DoneStays DEF StartCommits, StartAborts, Done
  <2>2. CASE StartFails(s)
    <3>1. command[s] \in Command /\ command[s].step = "written"
      BY <2>2 DEF StartFails, In, TypeOK
    <3>2. /\ \A t \in Sockets : t # s => command'[t] = command[t]
          /\ command'[s] \in Command
          /\ command'[s].conversation = command[s].conversation
          /\ command'[s].revision = command[s].revision
          /\ command'[s].room = command[s].room
          /\ command'[s].op = command[s].op /\ command'[s].step = "aborting"
      BY <2>2, <3>1 DEF StartFails, TypeOK, Command
    <3>3. CommandsStay  BY <3>1, <3>2 DEF CommandsStay
    <3>4. lock' = lock /\ revision' = revision  BY <2>2 DEF StartFails, membership
    <3>5. \A c \in Conversations : lock[c] # None => lock[c] \in Sockets /\ command[lock[c]] # None
      BY DEF TypeOK, LeasesAreCurrent
    <3>. QED  BY <3>2, <3>3, <3>4, <3>5 DEF LocksStay
  <2>. QED  BY <1>4, <2>1, <2>2 DEF Starting
<1>5. ASSUME NEW s \in Sockets, Commanding(s)  PROVE CommandsStay /\ LocksStay
  <2>1. CASE LeaseLost(s)
    <3>1. UNCHANGED <<command, revision>>
          /\ \A c \in Conversations : lock'[c] # None => lock'[c] = lock[c]
      BY <2>1 DEF LeaseLost, membership, Unlocked
    <3>. QED  BY <3>1 DEF CommandsStay, LocksStay, LeasesAreCurrent
  <2>2. ASSUME Done(s), UNCHANGED membership  PROVE CommandsStay /\ LocksStay
    BY <2>2, DoneStays DEF Done
  <2>. QED
    BY <1>5, <2>1, <2>2
    DEF Commanding, JoinScript, LeaveScript, EndScript, PresentScript, StopScript, DiscoverScript,
        Refused
<1>6. ASSUME NEW s \in Sockets, Leaving(s)  PROVE CommandsStay /\ LocksStay
  <2>1. CASE Remove(s) \/ RemoveLeaves(s)  BY <1>1, <2>1 DEF Remove, RemoveLeaves
  <2>2. CASE Vanish(s)  BY <2>2, DoneStays DEF Vanish
  <2>. QED  BY <1>6, <2>1, <2>2 DEF Leaving
<1>7. ASSUME NEW c \in Conversations, NEW u \in Users, ChangeMembership(c, u)
      PROVE  CommandsStay /\ LocksStay
  <2>1. /\ UNCHANGED <<command, lock>> /\ lock[c] = None
        /\ \A d \in Conversations : d # c => revision'[d] = revision[d]
    BY <1>7 DEF ChangeMembership, TypeOK
  <2>. QED  BY <2>1 DEF CommandsStay, LocksStay, LeasesAreCurrent
<1>8. ASSUME Notifying \/ \E n \in notices : NotifyFails(n)  PROVE CommandsStay /\ LocksStay
  BY <1>1, <1>8 DEF Notifying, NotifyReads, NotifyEnds, NotifyFails
<1>9. ASSUME NEW r \in Rooms, RoomFallsDue(r) \/ Expire(r) \/ RoomLapses(r)
      PROVE  CommandsStay /\ LocksStay
  BY <1>1, <1>9 DEF RoomFallsDue, Expire, RoomLapses
<1>10. ASSUME NEW u \in Users, AdmissionLapses(u) \/ DirectCallStarts(u) \/ DirectCallEnds(u)
       PROVE  CommandsStay /\ LocksStay
  BY <1>1, <1>10 DEF AdmissionLapses, DirectCallStarts, DirectCallEnds
<1>. QED  BY <1>2, <1>3, <1>4, <1>5, <1>6, <1>7, <1>8, <1>9, <1>10 DEF Next

\* What has been drawn or recorded stays so.
LEMMA HistoryStep ==
    ASSUME [Next]_vars
    PROVE  issued \subseteq issued' /\ astray \subseteq astray' /\ overtaken \subseteq overtaken'
<1>. USE DEF others, sockets
<1>1. CASE UNCHANGED vars  BY <1>1 DEF vars
<1>2. ASSUME NEW s \in Sockets, NEW op \in Ops, NEW c \in Conversations,
             NEW r \in Rooms \cup {None}, Begin(s, op, c, r)
      PROVE  issued' = issued /\ astray' = astray /\ overtaken \subseteq overtaken'
  BY <1>2 DEF Begin
<1>3. ASSUME NEW s \in Sockets, Starting(s)
      PROVE  issued \subseteq issued' /\ astray \subseteq astray' /\ overtaken' = overtaken
  BY <1>3 DEF Starting, StartScript, StartCommits, StartFails, StartAborts
<1>4. ASSUME NEW s \in Sockets, Commanding(s)
      PROVE  issued' = issued /\ astray' = astray /\ overtaken' = overtaken
  BY <1>4 DEF Commanding, JoinScript, LeaveScript, EndScript, PresentScript, StopScript,
              DiscoverScript, Refused, LeaseLost
<1>5. ASSUME NEW s \in Sockets, Leaving(s)
      PROVE  issued' = issued /\ astray' = astray /\ overtaken \subseteq overtaken'
  BY <1>5 DEF Leaving, Remove, RemoveLeaves, Vanish
<1>6. ASSUME NEW c \in Conversations, NEW u \in Users, ChangeMembership(c, u)
      PROVE  issued' = issued /\ astray' = astray /\ overtaken' = overtaken
  BY <1>6 DEF ChangeMembership
<1>7. ASSUME Notifying \/ \E n \in notices : NotifyFails(n)
      PROVE  issued' = issued /\ astray' = astray /\ overtaken' = overtaken
  BY <1>7 DEF Notifying, NotifyReads, NotifyEnds, NotifyFails
<1>8. ASSUME NEW r \in Rooms, RoomFallsDue(r) \/ Expire(r) \/ RoomLapses(r)
      PROVE  issued' = issued /\ astray' = astray /\ overtaken' = overtaken
  BY <1>8 DEF RoomFallsDue, Expire, RoomLapses
<1>9. ASSUME NEW u \in Users, AdmissionLapses(u) \/ DirectCallStarts(u) \/ DirectCallEnds(u)
      PROVE  issued' = issued /\ astray' = astray /\ overtaken' = overtaken
  BY <1>9 DEF AdmissionLapses, DirectCallStarts, DirectCallEnds
<1>. QED  BY <1>1, <1>2, <1>3, <1>4, <1>5, <1>6, <1>7, <1>8, <1>9 DEF Next

\* The membership changes with an event; what the outbox gains is new or was read.
OutboxGoesOn ==
    /\ \A c \in Conversations :
          \/ revision'[c] = revision[c] /\ members'[c] = members[c]
          \/ /\ revision'[c] > revision[c]
             /\ \E e \in pending' : e.conversation = c /\ e.revision = revision'[c]
    /\ \A e \in pending' : e \in pending \/ e.revision = revision'[e.conversation]
    /\ \A n \in notices' : \/ n \in notices
                           \/ /\ n.event \in pending /\ UNCHANGED rooms
                              /\ n.room = conversation_key[n.event.conversation]
    /\ pending \subseteq pending' \/ Notifying

LEMMA OutboxStep ==
    ASSUME TypeOK, [Next]_vars
    PROVE  OutboxGoesOn
<1>1. ASSUME UNCHANGED membership, pending' = pending, notices' \subseteq notices  PROVE OutboxGoesOn
  BY <1>1 DEF OutboxGoesOn, membership
<1>2. CASE UNCHANGED vars  BY <1>1, <1>2 DEF vars, outbox
<1>3. ASSUME NEW s \in Sockets, NEW op \in Ops, NEW c \in Conversations,
             NEW r \in Rooms \cup {None}, Begin(s, op, c, r)
      PROVE  OutboxGoesOn
  BY <1>1, <1>3 DEF Begin, outbox
<1>4. ASSUME NEW s \in Sockets, Starting(s)  PROVE OutboxGoesOn
  BY <1>1, <1>4 DEF Starting, StartScript, StartCommits, StartFails, StartAborts, outbox
<1>5. ASSUME NEW s \in Sockets, Commanding(s)  PROVE OutboxGoesOn
  BY <1>1, <1>5 DEF Commanding, JoinScript, LeaveScript, EndScript, PresentScript, StopScript,
                    DiscoverScript, Refused, LeaseLost, outbox
<1>6. ASSUME NEW s \in Sockets, Leaving(s)  PROVE OutboxGoesOn
  BY <1>1, <1>6 DEF Leaving, Remove, RemoveLeaves, Vanish, outbox
<1>7. ASSUME NEW c \in Conversations, NEW u \in Users, ChangeMembership(c, u)  PROVE OutboxGoesOn
  <2>. DEFINE e == [conversation |-> c, revision |-> revision[c] + 1]
  <2>1. /\ revision'[c] = revision[c] + 1 /\ revision[c] \in Nat
        /\ \A d \in Conversations : d # c => revision'[d] = revision[d] /\ members'[d] = members[d]
        /\ pending' = pending \cup {e} /\ notices' = notices
    BY <1>7 DEF ChangeMembership, TypeOK
  <2>2. e.conversation = c /\ e.revision = revision[c] + 1  OBVIOUS
  <2>. HIDE DEF e
  <2>. QED  BY <2>1, <2>2 DEF OutboxGoesOn
<1>8. ASSUME NEW e \in pending, NotifyReads(e)  PROVE OutboxGoesOn
  <2>1. UNCHANGED membership /\ pending' \subseteq pending /\ UNCHANGED rooms /\ Notifying
    BY <1>8 DEF NotifyReads, Notifying, store
  <2>2. ASSUME NEW n \in notices', n \notin notices
        PROVE  n.event \in pending /\ n.room = conversation_key[n.event.conversation]
    BY <1>8, <2>2 DEF NotifyReads
  <2>. QED  BY <2>1, <2>2 DEF OutboxGoesOn, membership
<1>9. ASSUME NEW n \in notices, NotifyEnds(n)  PROVE OutboxGoesOn
  <2>1. /\ UNCHANGED membership /\ pending' \subseteq pending /\ notices' \subseteq notices
        /\ Notifying
    BY <1>9 DEF NotifyEnds, Notifying
  <2>. QED  BY <2>1 DEF OutboxGoesOn, membership
<1>10. ASSUME NEW n \in notices, NotifyFails(n)  PROVE OutboxGoesOn
  BY <1>1, <1>10 DEF NotifyFails
<1>11. ASSUME NEW r \in Rooms, RoomFallsDue(r) \/ Expire(r) \/ RoomLapses(r)  PROVE OutboxGoesOn
  BY <1>1, <1>11 DEF RoomFallsDue, Expire, RoomLapses, outbox
<1>12. ASSUME NEW u \in Users, AdmissionLapses(u) \/ DirectCallStarts(u) \/ DirectCallEnds(u)
       PROVE  OutboxGoesOn
  BY <1>1, <1>12 DEF AdmissionLapses, DirectCallStarts, DirectCallEnds, outbox
<1>13. CASE Notifying
  BY <1>8, <1>9, <1>13 DEF Notifying
<1>. QED  BY <1>2, <1>3, <1>4, <1>5, <1>6, <1>7, <1>10, <1>11, <1>12, <1>13 DEF Next

\* How a socket goes.
LEMMA PhaseStep ==
    ASSUME TypeOK, [Next]_vars, NEW s \in Sockets
    PROVE  \/ phase'[s] = phase[s] /\ found'[s] = found[s]
           \/ Remove(s) \/ RemoveLeaves(s) \/ Vanish(s)
<1>. USE DEF sockets
<1>. DEFINE Goal == \/ phase'[s] = phase[s] /\ found'[s] = found[s]
                    \/ Remove(s) \/ RemoveLeaves(s) \/ Vanish(s)
<1>1. CASE UNCHANGED vars  BY <1>1 DEF vars
<1>2. ASSUME NEW t \in Sockets, NEW op \in Ops, NEW c \in Conversations,
             NEW r \in Rooms \cup {None}, Begin(t, op, c, r)
      PROVE  Goal
  BY <1>2 DEF Begin
<1>3. ASSUME NEW t \in Sockets, Starting(t)  PROVE Goal
  BY <1>3 DEF Starting, StartScript, StartCommits, StartFails, StartAborts
<1>4. ASSUME NEW t \in Sockets, Commanding(t)  PROVE Goal
  BY <1>4 DEF Commanding, JoinScript, LeaveScript, EndScript, PresentScript, StopScript,
              DiscoverScript, Refused, LeaseLost
<1>5. ASSUME NEW t \in Sockets, Leaving(t)  PROVE Goal
  <2>1. CASE t = s  BY <1>5, <2>1 DEF Leaving
  <2>2. CASE t # s  BY <1>5, <2>2 DEF Leaving, Remove, RemoveLeaves, Vanish, TypeOK
  <2>. QED  BY <2>1, <2>2
<1>6. ASSUME NEW c \in Conversations, NEW u \in Users, ChangeMembership(c, u)  PROVE Goal
  BY <1>6 DEF ChangeMembership
<1>7. ASSUME Notifying \/ \E n \in notices : NotifyFails(n)  PROVE Goal
  BY <1>7 DEF Notifying, NotifyReads, NotifyEnds, NotifyFails
<1>8. ASSUME NEW r \in Rooms, RoomFallsDue(r) \/ Expire(r) \/ RoomLapses(r)  PROVE Goal
  BY <1>8 DEF RoomFallsDue, Expire, RoomLapses
<1>9. ASSUME NEW u \in Users, AdmissionLapses(u) \/ DirectCallStarts(u) \/ DirectCallEnds(u)
      PROVE  Goal
  BY <1>9 DEF AdmissionLapses, DirectCallStarts, DirectCallEnds
<1>. QED  BY <1>1, <1>2, <1>3, <1>4, <1>5, <1>6, <1>7, <1>8, <1>9 DEF Next

-----------------------------------------------------------------------------
(* The invariant.                                                          *)

LEMMA InvType == IInv => TypeOK /\ Agree
  BY DEF IInv, SeatsAreExclusive, Agree

LEMMA RoomsStep ==
    ASSUME IInv, [Next]_vars
    PROVE  RoomsStay \/ \E s \in Sockets : StartScript(s)
  BY StoreStep, JoinKeeps DEF Shrinks

LEMMA TypeAndAgreeStep ==
    ASSUME IInv, [Next]_vars
    PROVE  TypeOK' /\ Agree'
<1>1. BookTyped'  BY InvType, BookStep
<1>2. StoreTyped' /\ Agree'  BY StoreStep, StartKeeps, JoinKeeps DEF Shrinks
<1>3. TypeOK'  BY <1>1, <1>2 DEF TypeOK, StoreTyped, BookTyped
<1>. QED  BY <1>2, <1>3

LEMMA RevisionsTyped == TypeOK => \A c \in Conversations : revision[c] \in Nat
  BY DEF TypeOK

LEMMA CommandsKnowStep ==
    ASSUME IInv, [Next]_vars
    PROVE  CommandsKnow'
<1>. USE GroupRoomAssumption
<1>0. TypeOK /\ Agree /\ TypeOK' /\ CommandsKnow  BY InvType, TypeAndAgreeStep DEF IInv
<1>1. issued \subseteq issued'  BY HistoryStep
<1>. SUFFICES ASSUME NEW s \in Sockets, command'[s] # None
              PROVE  CommandKnows(s)'
  BY DEF CommandsKnow
<1>2. command'[s] \in Command  BY <1>0 DEF TypeOK
<1>3. ASSUME NEW t \in Sockets, StartScript(t)  PROVE CommandKnows(s)'
  <2>1. PICK r \in Rooms \ issued :
           /\ rooms'[r].conversation = command[t].conversation
           /\ \A q \in Rooms : q # r => rooms'[q] = rooms[q]
           /\ issued' = issued \cup {r}
           /\ command' = [command EXCEPT ![t].room = r, ![t].step = "written"]
    BY <1>3, StartKeeps
  <2>2. UNCHANGED <<members, revision>>  BY <1>3 DEF StartScript, membership
  <2>3. CASE s = t
    <3>1. command[s] \in Command /\ CommandKnows(s)
      BY <1>0, <1>3, <2>3 DEF StartScript, In, TypeOK, CommandsKnow
    <3>2. /\ command'[s].room = r /\ command'[s].step = "written"
          /\ command'[s].conversation = command[s].conversation
          /\ command'[s].revision = command[s].revision
      BY <1>0, <2>1, <2>3, <3>1 DEF TypeOK, Command
    <3>. QED  BY <2>1, <2>2, <2>3, <3>1, <3>2 DEF CommandKnows
  <2>4. CASE s # t
    <3>1. command'[s] = command[s]  BY <1>0, <2>1, <2>4 DEF TypeOK
    <3>2. CommandKnows(s) /\ command[s].room # r
      BY <1>0, <2>1, <3>1 DEF CommandsKnow, CommandKnows
    <3>. QED  BY <2>1, <2>2, <3>1, <3>2 DEF CommandKnows
  <2>. QED  BY <2>3, <2>4
<1>4. ASSUME CommandsStay, RoomsStay  PROVE CommandKnows(s)'
  <2>1. /\ command[s] # None /\ CommandKnows(s)
        /\ command'[s].conversation = command[s].conversation
        /\ command'[s].revision = command[s].revision
        /\ command'[s].room = command[s].room
        /\ command'[s].op = command[s].op
        /\ command'[s].step = "leased" <=> command[s].step = "leased"
    BY <1>0, <1>4 DEF CommandsStay, CommandsKnow
  <2>. DEFINE c == command[s].conversation
              v == command[s].revision
  <2>2. c \in Conversations /\ v \in Nat  BY <1>0, <2>1 DEF TypeOK, Command
  <2>3. \/ revision'[c] = revision[c] /\ members'[c] = members[c]
        \/ revision'[c] > revision[c]
    BY <1>0, <2>2, OutboxStep DEF OutboxGoesOn
  <2>4. revision[c] \in Nat /\ revision'[c] \in Nat  BY <1>0, <2>2 DEF TypeOK
  <2>5. /\ v <= revision'[c]
        /\ v = revision'[c] => SocketUser[s] \in members'[c]
    <3>1. v <= revision[c] /\ (v = revision[c] => SocketUser[s] \in members[c])
      BY <2>1 DEF CommandKnows
    <3>. HIDE DEF c, v
    <3>. QED  BY <2>2, <2>3, <2>4, <3>1
  <2>6. command'[s].room \in Rooms /\ rooms'[command'[s].room] # None =>
           rooms'[command'[s].room].conversation = c
    BY <1>4, <2>1 DEF RoomsStay, CommandKnows
  <2>. QED  BY <1>1, <2>1, <2>5, <2>6 DEF CommandKnows
<1>5. ASSUME NEW t \in Sockets, NEW op \in Ops, NEW c \in Conversations,
             NEW r \in Rooms \cup {None}, Begin(t, op, c, r)
      PROVE  CommandKnows(s)'
  <2>1. UNCHANGED <<rooms, conversation_key, issued, members, revision>>
    BY <1>5 DEF Begin, store, others, membership
  <2>2. CASE s # t
    <3>1. command'[s] = command[s]  BY <1>0, <1>5, <2>2 DEF Begin, TypeOK
    <3>. QED  BY <1>0, <2>1, <3>1 DEF CommandsKnow, CommandKnows
  <2>3. CASE s = t
    <3>1. /\ command'[s].op = op /\ command'[s].conversation = c /\ command'[s].room = r
          /\ command'[s].revision = revision[c]
          /\ SocketUser[s] \in members[c] /\ Sensible(s, op, c, r)
      BY <1>0, <1>5, <2>3 DEF Begin, TypeOK
    <3>2. command'[s].step = "leased"  BY <1>0, <1>5, <2>3 DEF Begin, TypeOK
    <3>3. revision[c] \in Nat  BY <1>0 DEF TypeOK
    <3>4. IF op = "start" THEN r = None ELSE r \in issued /\ rooms[r].conversation = c
      <4>1. CASE op = "start"  BY <3>1, <4>1 DEF Sensible
      <4>2. CASE op = "discover"
        BY <1>0, <3>1, <4>2 DEF Sensible, Stale, Live, Agree, OnlyIssued, KeysNameRooms
      <4>3. CASE op \notin {"start", "discover"}
        BY <1>0, <3>1, <4>3 DEF Sensible, Agree, OnlyIssued
      <4>. QED  BY <4>1, <4>2, <4>3
    <3>. QED  BY <2>1, <3>1, <3>2, <3>3, <3>4 DEF CommandKnows
  <2>. QED  BY <2>2, <2>3
<1>. QED
  BY <1>0, <1>3, <1>4, <1>5, RoomsStep, CommandStep DEF IInv

LEMMA LeasesAreCurrentStep ==
    ASSUME IInv, [Next]_vars
    PROVE  LeasesAreCurrent'
<1>. USE GroupRoomAssumption
<1>0. TypeOK /\ LeasesAreCurrent  BY InvType DEF IInv
<1>1. CASE LocksStay  BY <1>0, <1>1 DEF LocksStay, LeasesAreCurrent
<1>2. ASSUME NEW s \in Sockets, NEW op \in Ops, NEW c \in Conversations,
             NEW r \in Rooms \cup {None}, Begin(s, op, c, r)
      PROVE  LeasesAreCurrent'
  <2>. DEFINE k == [op |-> op, conversation |-> c, room |-> r, revision |-> revision[c],
                    in_time |-> op = "join" /\ ~rooms[r].due, step |-> "leased"]
  <2>1. /\ lock' = [lock EXCEPT ![c] = s] /\ command' = [command EXCEPT ![s] = k]
        /\ revision' = revision /\ command[s] = None
    BY <1>2 DEF Begin, membership
  <2>2. k.conversation = c /\ k.revision = revision[c]  OBVIOUS
  <2>3. command'[s] = k /\ k # None
    <3>1. TypeOK'  BY TypeAndAgreeStep
    <3>2. command'[s] = k  BY <1>0, <2>1 DEF TypeOK
    <3>3. k \in Command
      <4>1. (op = "join" /\ ~rooms[r].due) \in BOOLEAN  OBVIOUS
      <4>2. revision[c] \in 1 .. MaxRevision  BY <1>0 DEF TypeOK
      <4>. QED  BY <4>1, <4>2 DEF Command
    <3>. QED  BY <3>2, <3>3
  <2>. HIDE DEF k
  <2>. SUFFICES ASSUME NEW d \in Conversations, lock'[d] # None
                PROVE  /\ command'[lock'[d]] # None
                       /\ command'[lock'[d]].conversation = d
                       /\ command'[lock'[d]].revision = revision'[d]
    BY DEF LeasesAreCurrent
  <2>4. CASE d = c  BY <1>0, <2>1, <2>2, <2>3, <2>4 DEF TypeOK
  <2>5. CASE d # c
    <3>1. lock'[d] = lock[d] /\ lock[d] \in Sockets  BY <1>0, <2>1, <2>5 DEF TypeOK
    <3>2. command[lock[d]] # None  BY <1>0, <3>1 DEF LeasesAreCurrent
    <3>3. command'[lock[d]] = command[lock[d]]  BY <1>0, <2>1, <3>1, <3>2 DEF TypeOK
    <3>. QED  BY <1>0, <2>1, <3>1, <3>2, <3>3 DEF LeasesAreCurrent
  <2>. QED  BY <2>4, <2>5
<1>. QED  BY <1>0, <1>1, <1>2, CommandStep

LEMMA EventsArePastStep ==
    ASSUME IInv, [Next]_vars
    PROVE  EventsArePast'
<1>0. TypeOK /\ TypeOK' /\ EventsArePast  BY InvType, TypeAndAgreeStep DEF IInv
<1>1. OutboxGoesOn  BY <1>0, OutboxStep
<1>2. \A c \in Conversations :
         revision[c] \in Nat /\ revision'[c] \in Nat /\ revision[c] <= revision'[c]
  BY <1>0, <1>1 DEF OutboxGoesOn, TypeOK
<1>3. ASSUME NEW e \in Event, e.revision <= revision[e.conversation]
      PROVE  e.revision <= revision'[e.conversation]
  <2>1. e.conversation \in Conversations /\ e.revision \in Nat  BY DEF Event
  <2>. QED  BY <1>2, <1>3, <2>1
<1>4. \A e \in pending : e \in Event  BY <1>0 DEF TypeOK
<1>5. \A e \in pending' : e.revision <= revision'[e.conversation]
  <2>. SUFFICES ASSUME NEW e \in pending'  PROVE e.revision <= revision'[e.conversation]
    OBVIOUS
  <2>1. CASE e \in pending  BY <1>0, <1>3, <1>4, <2>1 DEF EventsArePast
  <2>2. CASE e.revision = revision'[e.conversation]
    <3>1. e \in Event  BY <1>0 DEF TypeOK
    <3>. QED  BY <1>2, <2>2, <3>1 DEF Event
  <2>. QED  BY <1>1, <2>1, <2>2 DEF OutboxGoesOn
<1>6. \A n \in notices' : n.event.revision <= revision'[n.event.conversation]
  <2>. SUFFICES ASSUME NEW n \in notices'
                PROVE  n.event.revision <= revision'[n.event.conversation]
    OBVIOUS
  <2>1. n.event \in Event  BY <1>0 DEF TypeOK, Notice
  <2>2. n.event.revision <= revision[n.event.conversation]
    BY <1>0, <1>1 DEF OutboxGoesOn, EventsArePast
  <2>. QED  BY <1>3, <2>1, <2>2
<1>. QED  BY <1>5, <1>6 DEF EventsArePast

LEMMA NoticesAreReadStep ==
    ASSUME IInv, [Next]_vars
    PROVE  NoticesAreRead'
<1>. USE GroupRoomAssumption
<1>0. TypeOK /\ Agree /\ TypeOK' /\ NoticesAreRead /\ EventsArePast /\ CommandsKnow
      /\ LeasesAreCurrent
  BY InvType, TypeAndAgreeStep DEF IInv
<1>1. OutboxGoesOn /\ astray \subseteq astray'  BY <1>0, OutboxStep, HistoryStep
<1>. SUFFICES ASSUME NEW n \in notices', NEW r \in Rooms, Live(r)',
                     rooms'[r].conversation = n.event.conversation, r # n.room
              PROVE  r \in astray' \/ rooms'[r].membership_revision >= n.event.revision
  BY DEF NoticesAreRead, Superseded
<1>2. CASE n \notin notices
  <2>1. Live(r) /\ rooms[r].conversation = n.event.conversation
        /\ n.room = conversation_key[n.event.conversation]
    BY <1>1, <1>2 DEF OutboxGoesOn, Live
  <2>. QED  BY <1>0, <2>1 DEF Agree, RoomsAreReserved
<1>3. CASE n \in notices /\ RoomsStay
  <2>1. Live(r) /\ rooms[r].conversation = n.event.conversation
        /\ rooms'[r].membership_revision = rooms[r].membership_revision
    BY <1>3 DEF RoomsStay, Live
  <2>. QED  BY <1>0, <1>1, <1>3, <2>1 DEF NoticesAreRead, Superseded
<1>4. ASSUME n \in notices, NEW s \in Sockets, StartScript(s)
      PROVE  r \in astray' \/ rooms'[r].membership_revision >= n.event.revision
  <2>1. PICK q \in Rooms \ issued :
           /\ rooms'[q].conversation = command[s].conversation
           /\ rooms'[q].membership_revision = command[s].revision
           /\ \A x \in Rooms : x # q => rooms'[x] = rooms[x]
           /\ astray' = IF Holds(s) THEN astray ELSE astray \cup {q}
    BY <1>4, StartKeeps
  <2>2. CASE r # q
    <3>1. Live(r) /\ rooms'[r] = rooms[r]  BY <2>1, <2>2 DEF Live
    <3>. QED  BY <1>0, <1>1, <1>4, <3>1 DEF NoticesAreRead, Superseded
  <2>3. CASE r = q /\ Holds(s)
    <3>. DEFINE c == command[s].conversation
    <3>1. command[s] \in Command /\ c \in Conversations
      BY <1>0, <1>4 DEF StartScript, In, TypeOK, Command
    <3>2. command[s].revision = revision[c]
      BY <1>0, <2>3, <3>1 DEF Holds, LeasesAreCurrent
    <3>3. n.event.revision <= revision[c]
      BY <1>0, <1>4, <2>1, <2>3 DEF EventsArePast
    <3>4. n.event.revision \in Nat /\ revision[c] \in Nat
      BY <1>0, <3>1 DEF TypeOK, Notice, Event
    <3>. QED  BY <2>1, <2>3, <3>2, <3>3, <3>4
  <2>4. CASE r = q /\ ~Holds(s)  BY <2>1, <2>4
  <2>. QED  BY <2>2, <2>3, <2>4
<1>. QED  BY <1>2, <1>3, <1>4, RoomsStep

\* An event that is done with has nothing left to end.
LEMMA EventsAreHandled ==
    ASSUME IInv, [Next]_vars, NEW e \in pending, e \notin pending',
           NEW r \in Rooms, Live(r)', rooms'[r].conversation = e.conversation
    PROVE  r \in astray \/ rooms'[r].membership_revision >= e.revision
<1>. USE GroupRoomAssumption
<1>0. TypeOK /\ Agree /\ NoticesAreRead  BY InvType DEF IInv
<1>1. Notifying  BY <1>0, OutboxStep DEF OutboxGoesOn
<1>2. RoomsStay
  <2>1. ASSUME NEW s \in Sockets, StartScript(s)  PROVE FALSE
    BY <2>1 DEF StartScript, outbox
  <2>. QED  BY <2>1, RoomsStep
<1>3. /\ Live(r) /\ rooms[r].conversation = e.conversation
      /\ rooms'[r].membership_revision = rooms[r].membership_revision
      /\ conversation_key[e.conversation] = r
  BY <1>0, <1>2 DEF RoomsStay, Live, Agree, RoomsAreReserved
<1>4. rooms[r].membership_revision \in Nat /\ e.revision \in Nat
  BY <1>0, <1>3 DEF TypeOK, Live, Room, Event
<1>5. ASSUME NEW d \in pending, NotifyReads(d)
      PROVE  r \in astray \/ rooms[r].membership_revision >= e.revision
  <2>1. d = e /\ ~(rooms[r].membership_revision < e.revision)
    BY <1>3, <1>5 DEF NotifyReads
  <2>. QED  BY <1>4, <2>1
<1>6. ASSUME NEW n \in notices, NotifyEnds(n)
      PROVE  r \in astray \/ rooms[r].membership_revision >= e.revision
  <2>1. n.event = e  BY <1>6 DEF NotifyEnds
  <2>2. CASE n.room # r  BY <1>0, <1>3, <2>1, <2>2 DEF NoticesAreRead, Superseded
  <2>3. CASE n.room = r
    <3>1. EndsRoom(r, {}, rooms[r].presenter) /\ rooms[r] # None
      BY <1>3, <1>6, <2>1, <2>3 DEF NotifyEnds, Live
    <3>2. rooms[r].presenter \in Sockets \cup {None}  BY <1>0, <3>1 DEF TypeOK, Room
    <3>. DEFINE d == [conversation |-> rooms[r].conversation,
                      membership_revision |-> rooms[r].membership_revision,
                      status |-> "ended", state_revision |-> rooms[r].state_revision + 1,
                      seats |-> {}, presenter |-> rooms[r].presenter, due |-> rooms[r].due]
    <3>3. {} \in SUBSET Sockets  OBVIOUS
    <3>4. Becomes(r, d)  BY <1>0, <3>1, <3>2, <3>3, EndsRoomBecomes DEF TypeOK, RoomsTyped
    <3>5. rooms'[r].status = "ended"  BY <3>4 DEF Becomes
    <3>. QED  BY <3>5 DEF Live
  <2>. QED  BY <2>2, <2>3
<1>. QED  BY <1>1, <1>3, <1>5, <1>6 DEF Notifying

Follows(r) ==
    LET c == rooms[r].conversation
        v == rooms[r].membership_revision
    IN  \/ v = revision[c] /\ UsersOf(rooms[r].seats) \subseteq members[c]
        \/ v < revision[c] /\ r \in astray
        \/ \E e \in pending : e.conversation = c /\ e.revision > v

LEMMA RoomsFollowStep ==
    ASSUME IInv, [Next]_vars
    PROVE  RoomsFollowMembership'
<1>. USE GroupRoomAssumption
<1>0. TypeOK /\ Agree /\ TypeOK' /\ EventsArePast /\ CommandsKnow /\ LeasesAreCurrent
      /\ RoomsFollowMembership
  BY InvType, TypeAndAgreeStep DEF IInv
<1>1. OutboxGoesOn /\ astray \subseteq astray'  BY <1>0, OutboxStep, HistoryStep
<1>. SUFFICES ASSUME NEW r \in Rooms, Live(r)'  PROVE Follows(r)'
  BY DEF RoomsFollowMembership, Follows
<1>2. ASSUME NEW s \in Sockets, StartScript(s)  PROVE Follows(r)'
  <2>1. PICK q \in Rooms \ issued :
           /\ rooms'[q].seats = {s}
           /\ rooms'[q].conversation = command[s].conversation
           /\ rooms'[q].membership_revision = command[s].revision
           /\ \A x \in Rooms : x # q => rooms'[x] = rooms[x]
           /\ astray' = IF Holds(s) THEN astray ELSE astray \cup {q}
    BY <1>2, StartKeeps
  <2>2. UNCHANGED <<members, revision, pending>>  BY <1>2 DEF StartScript, membership, outbox
  <2>3. CASE r # q
    <3>1. Live(r) /\ rooms'[r] = rooms[r]  BY <2>1, <2>3 DEF Live
    <3>2. Follows(r)  BY <1>0, <3>1 DEF RoomsFollowMembership, Follows
    <3>. QED  BY <1>1, <2>2, <3>1, <3>2 DEF Follows, UsersOf
  <2>4. CASE r = q
    <3>. DEFINE c == command[s].conversation
                v == command[s].revision
    <3>1. c \in Conversations /\ v \in Nat /\ revision[c] \in Nat
      BY <1>0, <1>2 DEF StartScript, In, TypeOK, Command
    <3>2. v <= revision[c] /\ (v = revision[c] => SocketUser[s] \in members[c])
      BY <1>0, <1>2 DEF StartScript, In, CommandsKnow, CommandKnows
    <3>3. Holds(s) => v = revision[c]  BY <1>0, <3>1 DEF Holds, LeasesAreCurrent
    <3>4. UsersOf({s}) = {SocketUser[s]}  BY DEF UsersOf
    <3>5. \/ v = revision[c] /\ UsersOf({s}) \subseteq members[c]
          \/ v < revision[c] /\ r \in astray'
      <4>. HIDE DEF c, v
      <4>. QED  BY SMTT(30), <2>1, <2>4, <3>1, <3>2, <3>3, <3>4
    <3>. QED  BY <2>1, <2>2, <2>4, <3>5 DEF Follows, UsersOf
  <2>. QED  BY <2>3, <2>4
<1>3. ASSUME RoomsStay, SeatsShrink \/ \E s \in Sockets : JoinScript(s)  PROVE Follows(r)'
  <2>. DEFINE c == rooms[r].conversation
              v == rooms[r].membership_revision
  <2>1. /\ Live(r) /\ rooms'[r].conversation = c /\ rooms'[r].membership_revision = v
        /\ rooms[r] \in Room
    BY <1>0, <1>3 DEF RoomsStay, Live, TypeOK
  <2>2. c \in Conversations /\ v \in Nat /\ revision[c] \in Nat /\ revision'[c] \in Nat
    BY <1>0, <2>1 DEF Room, TypeOK
  <2>3. \/ revision'[c] = revision[c] /\ members'[c] = members[c]
        \/ /\ revision'[c] > revision[c]
           /\ \E e \in pending' : e.conversation = c /\ e.revision = revision'[c]
    BY <1>1, <2>2 DEF OutboxGoesOn
  <2>4. Follows(r)  BY <1>0, <2>1 DEF RoomsFollowMembership, Follows
  <2>5. CASE v = revision[c] /\ UsersOf(rooms[r].seats) \subseteq members[c]
    <3>1. CASE revision'[c] > revision[c]
      BY <2>1, <2>2, <2>3, <2>5, <3>1 DEF Follows
    <3>2. CASE revision'[c] = revision[c] /\ members'[c] = members[c]
      <4>1. ASSUME NEW s \in rooms'[r].seats  PROVE SocketUser[s] \in members[c]
        <5>1. CASE s \in rooms[r].seats  BY <2>5, <5>1 DEF UsersOf
        <5>2. CASE s \notin rooms[r].seats
          <6>1. PICK t \in Sockets : JoinScript(t)
            BY <1>3, <4>1, <5>2 DEF SeatsShrink
          <6>2. r = command[t].room /\ s = t /\ v = command[t].revision
            BY <4>1, <5>2, <6>1, JoinKeeps
          <6>3. command[t] # None /\ command[t].conversation = c
            BY <1>0, <2>1, <6>1, <6>2 DEF JoinScript, In, CommandsKnow, CommandKnows, Live
          <6>. QED  BY <1>0, <2>5, <6>2, <6>3 DEF CommandsKnow, CommandKnows
        <5>. QED  BY <5>1, <5>2
      <4>2. v = revision'[c] /\ UsersOf(rooms'[r].seats) \subseteq members'[c]
        BY <2>5, <3>2, <4>1 DEF UsersOf
      <4>. QED  BY <2>1, <4>2 DEF Follows, UsersOf
    <3>. QED  BY <2>3, <3>1, <3>2
  <2>6. CASE v < revision[c] /\ r \in astray
    <3>1. v < revision'[c] /\ r \in astray'
      <4>. HIDE DEF c, v
      <4>. QED  BY <1>1, <2>2, <2>3, <2>6
    <3>. QED  BY <2>1, <3>1 DEF Follows
  <2>7. ASSUME NEW e \in pending, e.conversation = c, e.revision > v  PROVE Follows(r)'
    <3>1. CASE e \in pending'  BY <2>1, <2>7, <3>1 DEF Follows
    <3>2. CASE e \notin pending'
      <4>1. r \in astray \/ v >= e.revision  BY <2>1, <2>7, <3>2, EventsAreHandled
      <4>2. e.revision \in Nat /\ e.revision <= revision[c]
        BY <1>0, <2>7 DEF TypeOK, Event, EventsArePast
      <4>3. v < revision'[c] /\ r \in astray'
        <5>. HIDE DEF c, v
        <5>. QED  BY <1>1, <2>2, <2>3, <2>7, <4>1, <4>2
      <4>. QED  BY <2>1, <4>3 DEF Follows
    <3>. QED  BY <3>1, <3>2
  <2>. QED  BY <2>4, <2>5, <2>6, <2>7 DEF Follows
<1>. QED  BY <1>2, <1>3, StoreStep, JoinKeeps DEF Shrinks

\* Once a removal has begun and no command was under way, the socket begins nothing
\* and takes no seat.
LEMMA QuietStep ==
    ASSUME IInv, [Next]_vars, NEW s \in Sockets, phase[s] # "open", s \notin overtaken'
    PROVE  /\ command'[s] = None
           /\ \A r \in Rooms : Live(r)' /\ s \in rooms'[r].seats => Live(r) /\ s \in rooms[r].seats
<1>. USE GroupRoomAssumption
<1>0. TypeOK /\ TypeOK' /\ LeasesAreCurrent /\ RemovalsAreQuiet
  BY InvType, TypeAndAgreeStep DEF IInv
<1>1. s \notin overtaken /\ command[s] = None
  BY <1>0, HistoryStep DEF RemovalsAreQuiet
<1>2. ASSUME NEW t \in Sockets, StartScript(t) \/ JoinScript(t)  PROVE t # s
  BY <1>1, <1>2 DEF StartScript, JoinScript, In
<1>3. command'[s] = None
  <2>1. CASE CommandsStay  BY <1>1, <2>1 DEF CommandsStay
  <2>2. ASSUME NEW t \in Sockets, StartScript(t)  PROVE command'[s] = command[s]
    <3>1. \E r \in Rooms : command' = [command EXCEPT ![t].room = r, ![t].step = "written"]
      BY <2>2, StartKeeps
    <3>. QED  BY <1>0, <1>2, <2>2, <3>1 DEF TypeOK
  <2>3. ASSUME NEW t \in Sockets, NEW op \in Ops, NEW c \in Conversations,
               NEW r \in Rooms \cup {None}, Begin(t, op, c, r)
        PROVE  command'[s] = command[s]
    <3>1. CASE t # s  BY <1>0, <2>3, <3>1 DEF Begin, TypeOK
    <3>2. CASE t = s  BY <1>0, <2>3, <3>2 DEF Begin, TypeOK
    <3>. QED  BY <3>1, <3>2
  <2>. QED  BY <1>0, <1>1, <2>1, <2>2, <2>3, CommandStep
<1>4. ASSUME NEW r \in Rooms, Live(r)', s \in rooms'[r].seats
      PROVE  Live(r) /\ s \in rooms[r].seats
  <2>1. CASE RoomsStay /\ SeatsShrink  BY <1>4, <2>1 DEF RoomsStay, SeatsShrink, Live
  <2>2. ASSUME NEW t \in Sockets, StartScript(t)  PROVE Live(r) /\ s \in rooms[r].seats
    <3>1. PICK q \in Rooms : rooms'[q].seats = {t} /\ \A x \in Rooms : x # q => rooms'[x] = rooms[x]
      BY <2>2, StartKeeps
    <3>. QED  BY <1>2, <1>4, <2>2, <3>1 DEF Live
  <2>3. ASSUME NEW t \in Sockets, JoinScript(t)  PROVE Live(r) /\ s \in rooms[r].seats
    <3>1. /\ RoomsStay
          /\ rooms'[command[t].room].seats = rooms[command[t].room].seats \cup {t}
          /\ \A x \in Rooms : x # command[t].room => rooms'[x] = rooms[x]
      BY <2>3, JoinKeeps
    <3>. QED  BY <1>2, <1>4, <2>3, <3>1 DEF RoomsStay, Live
  <2>. QED  BY <2>1, <2>2, <2>3, StoreStep DEF Shrinks
<1>. QED  BY <1>3, <1>4

LEMMA RemovalsAreQuietStep ==
    ASSUME IInv, [Next]_vars
    PROVE  RemovalsAreQuiet'
<1>. USE GroupRoomAssumption
<1>0. TypeOK /\ Agree /\ TypeOK' /\ RemovalsAreQuiet  BY InvType, TypeAndAgreeStep DEF IInv
<1>. SUFFICES ASSUME NEW s \in Sockets, phase'[s] # "open", s \notin overtaken'
              PROVE  /\ command'[s] = None
                     /\ phase'[s] = "removing" =>
                           \A r \in Rooms : Live(r)' /\ s \in rooms'[r].seats => found'[s] = r
  BY DEF RemovalsAreQuiet
<1>1. CASE phase'[s] = phase[s] /\ found'[s] = found[s]
  <2>1. s \notin overtaken  BY HistoryStep
  <2>. QED  BY <1>0, <1>1, <2>1, QuietStep DEF RemovalsAreQuiet
<1>2. CASE Remove(s)
  <2>1. command[s] = None /\ command' = command  BY <1>2 DEF Remove
  <2>2. found'[s] = user_key[SocketUser[s]] /\ UNCHANGED rooms
    BY <1>0, <1>2 DEF Remove, TypeOK, store
  <2>3. ASSUME NEW r \in Rooms, Live(r)', s \in rooms'[r].seats  PROVE found'[s] = r
    BY <1>0, <2>2, <2>3 DEF Agree, RoomsAreReserved, Live
  <2>. QED  BY <2>1, <2>3
<1>3. CASE RemoveLeaves(s)
  <2>1. phase[s] = "removing" /\ phase'[s] = "gone"  BY <1>0, <1>3 DEF RemoveLeaves, TypeOK
  <2>. QED  BY <2>1, QuietStep
<1>4. CASE Vanish(s)
  BY <1>0, <1>4 DEF Vanish, TypeOK
<1>. QED  BY <1>0, <1>1, <1>2, <1>3, <1>4, PhaseStep

LEMMA CleanupFreesSeatStep ==
    ASSUME IInv, [Next]_vars
    PROVE  CleanupFreesSeat'
<1>. USE GroupRoomAssumption
<1>0. TypeOK /\ Agree /\ TypeOK' /\ RemovalsAreQuiet /\ CleanupFreesSeat
  BY InvType, TypeAndAgreeStep DEF IInv
<1>. SUFFICES ASSUME NEW s \in Sockets, NEW r \in Rooms, phase'[s] = "gone", s \notin overtaken',
                     Live(r)', s \in rooms'[r].seats
              PROVE  FALSE
  BY DEF CleanupFreesSeat
<1>1. s \notin overtaken  BY HistoryStep
<1>2. CASE phase'[s] = phase[s]
  BY <1>0, <1>1, <1>2, QuietStep DEF CleanupFreesSeat
<1>3. CASE RemoveLeaves(s)
  <2>1. phase[s] = "removing"  BY <1>3 DEF RemoveLeaves
  <2>2. Live(r) /\ s \in rooms[r].seats /\ found[s] = r
    BY <1>0, <1>1, <2>1, QuietStep DEF RemovalsAreQuiet
  <2>3. LeavesRoom(r, s) /\ Seated(r, s) /\ issued' = issued /\ calling' = calling
    BY <1>3, <2>2 DEF RemoveLeaves, Seated, Live, others
  <2>. QED  BY <1>0, <2>3, LeavesRoomShrinks
<1>4. CASE Remove(s) \/ Vanish(s)
  BY <1>0, <1>4 DEF Remove, Vanish, TypeOK
<1>. QED  BY <1>0, <1>2, <1>3, <1>4, PhaseStep

-----------------------------------------------------------------------------
(* Results.                                                                *)

LEMMA InitInv == Init => IInv
<1>. USE GroupRoomAssumption
<1>. SUFFICES ASSUME Init  PROVE IInv
  OBVIOUS
<1>1. \A r \in Rooms : ~Live(r)  BY DEF Init, Live
<1>2. TypeOK  BY DEF Init, TypeOK
<1>3. OnlyIssued /\ RoomsAreReserved /\ KeysNameRooms
  BY <1>1 DEF Init, OnlyIssued, RoomsAreReserved, KeysNameRooms
<1>4. CommandsKnow /\ LeasesAreCurrent  BY DEF Init, CommandsKnow, LeasesAreCurrent
<1>5. EventsArePast /\ NoticesAreRead  BY DEF Init, EventsArePast, NoticesAreRead
<1>6. RoomsFollowMembership  BY <1>1 DEF RoomsFollowMembership
<1>7. RemovalsAreQuiet /\ CleanupFreesSeat  BY DEF Init, RemovalsAreQuiet, CleanupFreesSeat
<1>. QED  BY <1>2, <1>3, <1>4, <1>5, <1>6, <1>7 DEF IInv, SeatsAreExclusive

\* Rooms and keys, the commands and leases under way, the events and notifications of
\* the outbox and the removals of sockets agree in every state that can be reached:
\* the inductive invariant of the group rooms.
THEOREM Invariance == SafetySpec => []IInv
<1>1. IInv /\ [Next]_vars => IInv'
  <2>. SUFFICES ASSUME IInv, [Next]_vars  PROVE IInv'
    OBVIOUS
  <2>1. TypeOK' /\ Agree'  BY TypeAndAgreeStep
  <2>2. CommandsKnow' /\ LeasesAreCurrent'  BY CommandsKnowStep, LeasesAreCurrentStep
  <2>3. EventsArePast' /\ NoticesAreRead' /\ RoomsFollowMembership'
    BY EventsArePastStep, NoticesAreReadStep, RoomsFollowStep
  <2>4. RemovalsAreQuiet' /\ CleanupFreesSeat'
    BY RemovalsAreQuietStep, CleanupFreesSeatStep
  <2>. QED  BY <2>1, <2>2, <2>3, <2>4 DEF IInv, SeatsAreExclusive, Agree
<1>. QED  BY <1>1, InitInv, PTL DEF SafetySpec

\* However the scripts of commands, cleanups, sweeps and projections interleave, and
\* whatever fails or lapses, a live room is the one of its conversation and of its
\* users, each of whom has one seat in it and no direct call.
THEOREM SeatsExclusive == SafetySpec => []SeatsAreExclusive
<1>1. IInv => SeatsAreExclusive  BY DEF IInv
<1>. QED  BY <1>1, Invariance, PTL

\* A room seats members only, or an event that will end it is still to be processed,
\* or it was started by a command whose lease was lost.
THEOREM RoomsFollow == SafetySpec => []RoomsFollowMembership
<1>1. IInv => RoomsFollowMembership  BY DEF IInv
<1>. QED  BY <1>1, Invariance, PTL

\* A socket whose cleanup is over has no seat, unless a command of it was under way
\* when it was removed.
THEOREM CleanupFrees == SafetySpec => []CleanupFreesSeat
<1>1. IInv => CleanupFreesSeat  BY DEF IInv
<1>. QED  BY <1>1, Invariance, PTL

\* The number clients order a room's states by never goes back, and every change but
\* the passing of a deadline raises it.
THEOREM RoomsAdvanceOnly == SafetySpec => RoomsOnlyAdvance
<1>1. IInv /\ [Next]_vars => [RoomsAdvance]_vars
  BY StoreStep, StartKeeps, JoinKeeps DEF Shrinks
<1>. QED  BY <1>1, Invariance, PTL DEF SafetySpec, RoomsOnlyAdvance

=============================================================================
