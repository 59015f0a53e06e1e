------------------------------ MODULE GroupRoom ------------------------------
(***************************************************************************)
(* Group call rooms: the room hashes and reservation keys that the Redis   *)
(* scripts of group_rooms.go keep for every replica, the hub's handlers    *)
(* that run those scripts under a lease of the conversation row, and the   *)
(* projections that end a room whose membership has changed.               *)
(*                                                                         *)
(* A script is atomic. A command is a lease (the row is locked, revision   *)
(* and membership are read), a script and a commit. A lease can be lost    *)
(* with its database connection while the command goes on; a projection    *)
(* reads the room and compares later what it ends with what it read; the   *)
(* cleanup of a socket and the sweep take no lease at all.                 *)
(*                                                                         *)
(* Time. A room is due when its ring time (30 s) or its active time (2 h)  *)
(* has passed. Hash and keys of a live room are given the same lifetime by *)
(* the same scripts, so they lapse together, and only after it is due.     *)
(*                                                                         *)
(* Abstractions. A seat is the socket that owns it: its connection, device *)
(* and user. Commands take a replica each: the mutex of a conversation in  *)
(* one process is left out; admission and lease are taken in one step.     *)
(* Direct calls appear as the reservations the scripts read, without the   *)
(* late accepts of DirectCall. Changes of the membership that leave the    *)
(* roster as it is, signals, media and the fan-out of events are left out. *)
(***************************************************************************)
EXTENDS Naturals, FiniteSets

CONSTANTS
    Users, Sockets, SocketUser,
    Conversations, Rooms,      \* group conversations; room ids, drawn once
    None,
    Capacity,                  \* GroupRoomCapacity
    MaxRevision,               \* bound: membership changes of a conversation
    MaxCommands,               \* bound: commands of all sockets
    MaxFaults                  \* bound: lost leases, failing calls, dead replicas

Room == [conversation : Conversations, membership_revision : 1 .. MaxRevision,
         status : {"ringing", "active", "ended"}, state_revision : Nat \ {0},
         seats : SUBSET Sockets, presenter : Sockets \cup {None}, due : BOOLEAN]

Ops == {"start", "join", "leave", "end", "present", "stop", "discover"}

Command == [op : Ops, conversation : Conversations, room : Rooms \cup {None},
            revision : 1 .. MaxRevision, in_time : BOOLEAN,
            step : {"leased", "written", "aborting"}]

Event == [conversation : Conversations, revision : 1 .. MaxRevision]

\* An event with what its notifier has read of the room to end.
Notice == [event : Event, room : Rooms, state_revision : Nat \ {0}]

ASSUME GroupRoomAssumption ==
    /\ SocketUser \in [Sockets -> Users]
    /\ None \notin Users \cup Sockets \cup Conversations \cup Rooms
    /\ None \notin Room \cup Command
    /\ Capacity \in Nat \ {0} /\ MaxRevision \in Nat \ {0}
    /\ MaxCommands \in Nat /\ MaxFaults \in Nat

VARIABLES
    rooms,             \* zwei:group-call:room:<id> hashes
    conversation_key,  \* zwei:group-call:conversation:<conversation>
    user_key,          \* zwei:group-call:user:<user>
    admission,         \* zwei:call:admission:<user>: the socket that drew the token
    calling,           \* users with a zwei:call:user:<user> key
    issued,            \* room ids drawn so far
    members,           \* active conversation_members
    revision,          \* conversations.membership_revision
    lock,              \* the socket whose lease holds the conversation row
    pending,           \* membership events of the outbox not yet processed
    notices,           \* notifications between reading and ending a room
    phase,             \* per socket: "open", then how far Hub.Remove has come
    found,             \* the room RemoveGroupConnection has read
    command,           \* per socket: the group command its read pump is in
    overtaken,         \* history: sockets removed with a command under way
    astray,            \* history: rooms started after the lease was lost
    begun,             \* commands so far
    faults

store == <<rooms, conversation_key, user_key>>
others == <<calling, issued, astray>>
membership == <<members, revision>>
outbox == <<pending, notices>>
sockets == <<phase, found, overtaken>>
bounds == <<begun, faults>>
vars == <<store, admission, others, membership, lock, outbox, sockets, command, bounds>>

-----------------------------------------------------------------------------
Live(r) == rooms[r] # None /\ rooms[r].status # "ended"

UsersOf(seats) == {SocketUser[s] : s \in seats}

\* A live room whose membership is no longer the conversation's.
Stale(r) == Live(r) /\ rooms[r].membership_revision < revision[rooms[r].conversation]

Fails == faults < MaxFaults /\ faults' = faults + 1 /\ UNCHANGED begun

(* What the scripts write. A key is deleted only if it names the room.     *)

\* Faulty: the key is deleted whatever it names.
FreedBlindly(r, us) == user_key' = [u \in Users |-> IF u \in us THEN None ELSE user_key[u]]

Freed(r, us) == user_key' = [u \in Users |-> IF u \in us /\ user_key[u] = r THEN None ELSE user_key[u]]

Unindexed(r) == conversation_key' = [c \in Conversations |-> IF conversation_key[c] = r THEN None ELSE conversation_key[c]]

\* The room ends for all of its seats, of which the hash keeps those of kept.
EndsRoom(r, kept, presenter) ==
    /\ rooms' = [rooms EXCEPT ![r].status = "ended", ![r].seats = kept,
                              ![r].presenter = presenter, ![r].state_revision = @ + 1]
    /\ Freed(r, UsersOf(rooms[r].seats))
    /\ Unindexed(r)

\* leaveGroupRoomScript: the socket gives up its seat, and the last one ends the room.
LeavesRoom(r, s) ==
    LET kept == rooms[r].seats \ {s} IN
    /\ rooms' = [rooms EXCEPT ![r].seats = kept,
                              ![r].status = IF kept = {} THEN "ended" ELSE @,
                              ![r].presenter = IF @ = s THEN None ELSE @,
                              ![r].state_revision = @ + 1]
    /\ Freed(r, {SocketUser[s]})
    /\ IF kept = {} THEN Unindexed(r) ELSE UNCHANGED conversation_key

Seated(r, s) == rooms[r] # None /\ s \in rooms[r].seats

\* endGroupRoomForMembershipChangeScript, if the room is still what was read.
Retirable(r, number, newer) ==
    /\ Live(r) /\ conversation_key[rooms[r].conversation] = r
    /\ rooms[r].state_revision = number
    /\ rooms[r].membership_revision < newer

-----------------------------------------------------------------------------
Init ==
    /\ rooms = [r \in Rooms |-> None]
    /\ conversation_key = [c \in Conversations |-> None]
    /\ user_key = [u \in Users |-> None]
    /\ admission = [u \in Users |-> None]
    /\ calling = {} /\ issued = {} /\ astray = {}
    /\ members = [c \in Conversations |-> Users]
    /\ revision = [c \in Conversations |-> 1]
    /\ lock = [c \in Conversations |-> None]
    /\ pending = {} /\ notices = {}
    /\ phase = [s \in Sockets |-> "open"]
    /\ found = [s \in Sockets |-> None]
    /\ command = [s \in Sockets |-> None]
    /\ overtaken = {}
    /\ begun = 0 /\ faults = 0

(* Commands.                                                               *)

In(s, op, step) == command[s] # None /\ command[s].op = op /\ command[s].step = step

Holds(s) == lock[command[s].conversation] = s

\* What a command holds when it is over. The release of its admission may fail,
\* and then it lapses.
Unlocked(s) == [c \in Conversations |-> IF lock[c] = s THEN None ELSE lock[c]]
Released(s) == [u \in Users |-> IF admission[u] = s THEN None ELSE admission[u]]

Done(s) ==
    /\ command' = [command EXCEPT ![s] = None]
    /\ lock' = Unlocked(s)
    /\ admission' = Released(s)

\* What a handler compares with its lease before it goes on; nothing of it can
\* change before the script runs, except what the script looks at again.
Sensible(s, op, c, r) ==
    CASE op = "start" -> r = None
      [] op = "discover" -> r # None /\ r = conversation_key[c] /\ Stale(r)
      [] OTHER -> /\ r # None /\ rooms[r] # None /\ rooms[r].conversation = c
                  /\ rooms[r].membership_revision = revision[c]
                  /\ op # "join" => Seated(r, s)

\* BeginGroupCall: the row is locked, its revision read, the user an active member.
\* A start and a join take the admission of the user too.
Begin(s, op, c, r) ==
    LET u == SocketUser[s] IN
    /\ phase[s] \in {"open", "removing"} /\ command[s] = None
    /\ lock[c] = None /\ u \in members[c]
    /\ Sensible(s, op, c, r)
    /\ op \in {"start", "join"} => admission[u] = None
    /\ begun < MaxCommands /\ begun' = begun + 1
    /\ lock' = [lock EXCEPT ![c] = s]
    /\ admission' = IF op \in {"start", "join"} THEN [admission EXCEPT ![u] = s] ELSE admission
    /\ command' = [command EXCEPT ![s] =
                     [op |-> op, conversation |-> c, room |-> r, revision |-> revision[c],
                      in_time |-> op = "join" /\ ~rooms[r].due, step |-> "leased"]]
    /\ overtaken' = IF phase[s] = "removing" THEN overtaken \cup {s} ELSE overtaken
    /\ UNCHANGED <<store, others, membership, outbox, phase, found, faults>>

\* startGroupRoomScript: conversation and user are free, the user of direct calls too.
StartScript(s) ==
    LET u == SocketUser[s]
        c == command[s].conversation
    IN  /\ In(s, "start", "leased")
        /\ admission[u] = s
        /\ conversation_key[c] = None /\ user_key[u] = None /\ u \notin calling
        /\ \E r \in Rooms \ issued :
              /\ rooms' = [rooms EXCEPT ![r] =
                    [conversation |-> c, membership_revision |-> command[s].revision,
                     status |-> "ringing", state_revision |-> 1, seats |-> {s},
                     presenter |-> None, due |-> FALSE]]
              /\ conversation_key' = [conversation_key EXCEPT ![c] = r]
              /\ user_key' = [user_key EXCEPT ![u] = r]
              /\ issued' = issued \cup {r}
              /\ astray' = IF Holds(s) THEN astray ELSE astray \cup {r}
              /\ command' = [command EXCEPT ![s].room = r, ![s].step = "written"]
        /\ UNCHANGED <<admission, calling, membership, lock, outbox, sockets, bounds>>

\* The start is published and its lease committed, which a lost lease refuses.
StartCommits(s) ==
    /\ In(s, "start", "written") /\ Holds(s)
    /\ Done(s)
    /\ UNCHANGED <<store, others, membership, outbox, sockets, bounds>>

\* The answer of the script, the publication or the commit fails.
StartFails(s) ==
    /\ In(s, "start", "written")
    /\ \/ ~Holds(s) /\ UNCHANGED bounds
       \/ Fails
    /\ command' = [command EXCEPT ![s].step = "aborting"]
    /\ UNCHANGED <<store, admission, others, membership, lock, outbox, sockets>>

\* abortGroupRoomStartScript, which ends the room of this start and no other.
StartAborts(s) ==
    LET r == command[s].room IN
    /\ In(s, "start", "aborting")
    /\ Done(s)
    /\ \/ /\ Seated(r, s) /\ Live(r)
          /\ EndsRoom(r, {}, None)
          /\ UNCHANGED bounds
       \/ ~ (Seated(r, s) /\ Live(r)) /\ UNCHANGED <<store, bounds>>
       \/ Fails /\ UNCHANGED store
    /\ UNCHANGED <<others, membership, outbox, sockets>>

\* Faulty: only the deadline is looked at.
AdmissibleEnded(s, r) ==
    LET u == SocketUser[s] IN
    /\ admission[u] = s
    /\ rooms[r] # None /\ (command[s].in_time \/ ~rooms[r].due)
    /\ user_key[u] = None /\ u \notin calling
    /\ rooms[r].membership_revision = command[s].revision
    /\ Cardinality(rooms[r].seats) < Capacity
    /\ conversation_key[rooms[r].conversation] \in {r, None}

\* joinGroupRoomScript. The clock it is judged by was read before it ran.
Admissible(s, r) ==
    LET u == SocketUser[s] IN
    /\ admission[u] = s
    /\ Live(r) /\ (command[s].in_time \/ ~rooms[r].due)
    /\ user_key[u] = None /\ u \notin calling
    /\ rooms[r].membership_revision = command[s].revision
    /\ Cardinality(rooms[r].seats) < Capacity
    /\ conversation_key[rooms[r].conversation] \in {r, None}

JoinScript(s) ==
    LET r == command[s].room IN
    /\ In(s, "join", "leased")
    /\ Admissible(s, r)
    /\ rooms' = [rooms EXCEPT ![r].seats = @ \cup {s}, ![r].status = "active",
                              ![r].due = FALSE, ![r].state_revision = @ + 1]
    /\ conversation_key' = [conversation_key EXCEPT ![rooms[r].conversation] = r]
    /\ user_key' = [user_key EXCEPT ![SocketUser[s]] = r]
    /\ Done(s)
    /\ UNCHANGED <<others, membership, outbox, sockets, bounds>>

LeaveScript(s) ==
    /\ In(s, "leave", "leased") /\ Seated(command[s].room, s)
    /\ LeavesRoom(command[s].room, s)
    /\ Done(s)
    /\ UNCHANGED <<others, membership, outbox, sockets, bounds>>

EndScript(s) ==
    LET r == command[s].room IN
    /\ In(s, "end", "leased") /\ Seated(command[s].room, s)
    /\ EndsRoom(r, {}, rooms[r].presenter)
    /\ Done(s)
    /\ UNCHANGED <<others, membership, outbox, sockets, bounds>>

\* setGroupPresenterScript: anyone may take over, only the presenter may stop.
PresentScript(s) ==
    LET r == command[s].room IN
    /\ In(s, "present", "leased") /\ Seated(command[s].room, s)
    /\ rooms' = [rooms EXCEPT ![r].presenter = s, ![r].state_revision = @ + 1]
    /\ Done(s)
    /\ UNCHANGED <<conversation_key, user_key, others, membership, outbox, sockets, bounds>>

StopScript(s) ==
    LET r == command[s].room IN
    /\ In(s, "stop", "leased") /\ Seated(command[s].room, s)
    /\ rooms[r].presenter \in {s, None}
    /\ rooms' = [rooms EXCEPT ![r].presenter = None, ![r].state_revision = @ + 1]
    /\ Done(s)
    /\ UNCHANGED <<conversation_key, user_key, others, membership, outbox, sockets, bounds>>

\* Discovery and sync retire the room they see if its membership is older than
\* their lease. (Reading and ending are one step: what changes between makes the
\* script refuse.)
DiscoverScript(s) ==
    LET r == command[s].room IN
    /\ In(s, "discover", "leased")
    /\ Live(r) /\ Retirable(r, rooms[r].state_revision, command[s].revision)
    /\ EndsRoom(r, {}, rooms[r].presenter)
    /\ Done(s)
    /\ UNCHANGED <<others, membership, outbox, sockets, bounds>>

\* The command is refused, has nothing to do or fails before its script ran.
Refused(s) ==
    /\ command[s] # None /\ command[s].step = "leased"
    /\ Done(s)
    /\ UNCHANGED <<store, others, membership, outbox, sockets, bounds>>

\* The database connection of a lease dies: the row is free, and only the commit
\* will tell.
LeaseLost(s) ==
    /\ command[s] # None /\ Holds(s)
    /\ Fails
    /\ lock' = Unlocked(s)
    /\ UNCHANGED <<store, admission, others, membership, outbox, sockets, command>>

AdmissionLapses(u) ==
    /\ admission[u] # None
    /\ admission' = [admission EXCEPT ![u] = None]
    /\ UNCHANGED <<store, others, membership, lock, outbox, sockets, command, bounds>>

(* Sockets.                                                                *)

\* Hub.Remove, by the write pump while the read pump may still be in a command:
\* RemoveGroupConnection reads the key of the user.
Remove(s) ==
    /\ phase[s] = "open"
    /\ phase' = [phase EXCEPT ![s] = "removing"]
    /\ found' = [found EXCEPT ![s] = user_key[SocketUser[s]]]
    /\ overtaken' = IF command[s] = None THEN overtaken ELSE overtaken \cup {s}
    /\ UNCHANGED <<store, admission, others, membership, lock, outbox, command, bounds>>

\* Faulty: a room that still rings is left to its ring time.
RemoveLeavesActive(s) ==
    LET leaves == found[s] # None /\ Seated(found[s], s) /\ rooms[found[s]].status = "active" IN
    /\ phase[s] = "removing"
    /\ phase' = [phase EXCEPT ![s] = "gone"]
    /\ found' = [found EXCEPT ![s] = None]
    /\ IF leaves THEN LeavesRoom(found[s], s) ELSE UNCHANGED store
    /\ UNCHANGED <<admission, others, membership, lock, outbox, overtaken, command, bounds>>

\* It then leaves the room it has read, if the socket has a seat there.
RemoveLeaves(s) ==
    /\ phase[s] = "removing"
    /\ phase' = [phase EXCEPT ![s] = "gone"]
    /\ found' = [found EXCEPT ![s] = None]
    /\ \/ found[s] # None /\ Seated(found[s], s) /\ LeavesRoom(found[s], s)
       \/ ~ (found[s] # None /\ Seated(found[s], s)) /\ UNCHANGED store
    /\ UNCHANGED <<admission, others, membership, lock, outbox, overtaken, command, bounds>>

\* Redis fails in the cleanup, or the replica dies with its sockets.
Vanish(s) ==
    /\ phase[s] \in {"open", "removing"}
    /\ Fails
    /\ phase' = [phase EXCEPT ![s] = "lost"]
    /\ found' = [found EXCEPT ![s] = None]
    /\ command' = [command EXCEPT ![s] = None]
    /\ lock' = Unlocked(s)
    /\ UNCHANGED <<store, admission, others, membership, outbox, overtaken>>

(* Membership and its events.                                              *)

\* A change of the membership waits for the row, and commits with its event.
ChangeMembership(c, u) ==
    /\ lock[c] = None /\ revision[c] < MaxRevision
    /\ members' = [members EXCEPT ![c] = IF u \in @ THEN @ \ {u} ELSE @ \cup {u}]
    /\ revision' = [revision EXCEPT ![c] = @ + 1]
    /\ pending' = pending \cup {[conversation |-> c, revision |-> revision[c] + 1]}
    /\ UNCHANGED <<store, admission, others, lock, notices, sockets, command, bounds>>

\* Faulty: a room that still rings is not ended.
NotifyReadsActive(e) ==
    LET r == conversation_key[e.conversation]
        old == r # None /\ rooms[r].status = "active" /\ rooms[r].membership_revision < e.revision
    IN  /\ e \in pending
        /\ \/ ~old /\ pending' = pending \ {e} /\ UNCHANGED notices
           \/ old /\ UNCHANGED pending
              /\ notices' = notices \cup
                    {[event |-> e, room |-> r, state_revision |-> rooms[r].state_revision]}
        /\ UNCHANGED <<store, admission, others, membership, lock, sockets, command, bounds>>

\* notifyGroupProjectionLocked reads the room; there is nothing to end, or it goes on.
\* (Two replicas may work on one event: its claim can lapse.)
NotifyReads(e) ==
    LET r == conversation_key[e.conversation]
        old == r # None /\ Live(r) /\ rooms[r].membership_revision < e.revision
    IN  /\ e \in pending
        /\ \/ ~old /\ pending' = pending \ {e} /\ UNCHANGED notices
           \/ old /\ UNCHANGED pending
              /\ notices' = notices \cup
                    {[event |-> e, room |-> r, state_revision |-> rooms[r].state_revision]}
        /\ UNCHANGED <<store, admission, others, membership, lock, sockets, command, bounds>>

\* Faulty: a refusal counts as done.
NotifyEndsOnce(n) ==
    LET r == n.room
        ends == Retirable(r, n.state_revision, n.event.revision)
    IN  /\ n \in notices
        /\ notices' = notices \ {n}
        /\ pending' = pending \ {n.event}
        /\ IF ends THEN EndsRoom(r, {}, rooms[r].presenter) ELSE UNCHANGED store
        /\ UNCHANGED <<admission, others, membership, lock, sockets, command, bounds>>

\* EndGroupRoomForMembershipChange. A room that is not the conversation's any more
\* is no failure; one that has changed is, and the event is tried again.
NotifyEnds(n) ==
    LET r == n.room
        gone == conversation_key[n.event.conversation] # r
        ends == Retirable(r, n.state_revision, n.event.revision)
    IN  /\ n \in notices
        /\ notices' = notices \ {n}
        /\ pending' = IF gone \/ ends THEN pending \ {n.event} ELSE pending
        /\ \/ ends /\ EndsRoom(r, {}, rooms[r].presenter)
           \/ ~ends /\ UNCHANGED store
        /\ UNCHANGED <<admission, others, membership, lock, sockets, command, bounds>>

\* A call fails, before or after the room was ended, or the replica dies: the event
\* is claimed again.
NotifyFails(n) ==
    /\ n \in notices
    /\ Fails
    /\ notices' = notices \ {n}
    /\ \/ UNCHANGED store
       \/ /\ Retirable(n.room, n.state_revision, n.event.revision)
          /\ EndsRoom(n.room, {}, rooms[n.room].presenter)
    /\ UNCHANGED <<admission, others, membership, lock, pending, sockets, command>>

(* Time and direct calls.                                                  *)

RoomFallsDue(r) ==
    /\ Live(r) /\ ~rooms[r].due
    /\ rooms' = [rooms EXCEPT ![r].due = TRUE]
    /\ UNCHANGED <<conversation_key, user_key, admission, others, membership, lock, outbox, sockets,
                   command, bounds>>

\* expireGroupRoomsScript keeps the participants in the hash.
Expire(r) ==
    /\ Live(r) /\ rooms[r].due
    /\ EndsRoom(r, rooms[r].seats, None)
    /\ UNCHANGED <<admission, others, membership, lock, outbox, sockets, command, bounds>>

\* The hash of an ended room lapses, or that of a room no replica has swept, with
\* every key that was given the same lifetime.
RoomLapses(r) ==
    /\ rooms[r] # None /\ (Live(r) => rooms[r].due)
    /\ rooms' = [rooms EXCEPT ![r] = None]
    /\ Freed(r, Users) /\ Unindexed(r)
    /\ UNCHANGED <<admission, others, membership, lock, outbox, sockets, command, bounds>>

\* startCallScript refuses a user of a group call; the call ends in its own ways.
DirectCallStarts(u) ==
    /\ u \notin calling /\ user_key[u] = None /\ admission[u] = None
    /\ calling' = calling \cup {u}
    /\ UNCHANGED <<store, admission, issued, astray, membership, lock, outbox, sockets, command, bounds>>

DirectCallEnds(u) ==
    /\ u \in calling
    /\ calling' = calling \ {u}
    /\ UNCHANGED <<store, admission, issued, astray, membership, lock, outbox, sockets, command, bounds>>

-----------------------------------------------------------------------------
Starting(s) == StartScript(s) \/ StartCommits(s) \/ StartFails(s) \/ StartAborts(s)

Commanding(s) ==
    \/ JoinScript(s) \/ LeaveScript(s) \/ EndScript(s)
    \/ PresentScript(s) \/ StopScript(s) \/ DiscoverScript(s)
    \/ Refused(s) \/ LeaseLost(s)

Leaving(s) == Remove(s) \/ RemoveLeaves(s) \/ Vanish(s)

Notifying == (\E e \in pending : NotifyReads(e)) \/ (\E n \in notices : NotifyEnds(n))

Next ==
    \/ \E s \in Sockets, op \in Ops, c \in Conversations, r \in Rooms \cup {None} : Begin(s, op, c, r)
    \/ \E s \in Sockets : Starting(s) \/ Commanding(s) \/ Leaving(s)
    \/ \E c \in Conversations, u \in Users : ChangeMembership(c, u)
    \/ Notifying
    \/ \E n \in notices : NotifyFails(n)
    \/ \E r \in Rooms : RoomFallsDue(r) \/ Expire(r) \/ RoomLapses(r)
    \/ \E u \in Users : AdmissionLapses(u) \/ DirectCallStarts(u) \/ DirectCallEnds(u)

SafetySpec == Init /\ [][Next]_vars

\* The outbox loop of some replica goes on.
Spec == SafetySpec /\ WF_vars(Notifying)

-----------------------------------------------------------------------------
(* Properties.                                                             *)

TypeOK ==
    /\ rooms \in [Rooms -> Room \cup {None}]
    /\ conversation_key \in [Conversations -> Rooms \cup {None}]
    /\ user_key \in [Users -> Rooms \cup {None}]
    /\ admission \in [Users -> Sockets \cup {None}]
    /\ calling \subseteq Users /\ issued \subseteq Rooms /\ astray \subseteq Rooms
    /\ members \in [Conversations -> SUBSET Users]
    /\ revision \in [Conversations -> 1 .. MaxRevision]
    /\ lock \in [Conversations -> Sockets \cup {None}]
    /\ pending \subseteq Event /\ notices \subseteq Notice
    /\ phase \in [Sockets -> {"open", "removing", "gone", "lost"}]
    /\ found \in [Sockets -> Rooms \cup {None}]
    /\ command \in [Sockets -> Command \cup {None}]
    /\ overtaken \subseteq Sockets
    /\ begun \in 0 .. MaxCommands /\ faults \in 0 .. MaxFaults

RoomsAreReserved ==
    \A r \in Rooms : Live(r) =>
        /\ conversation_key[rooms[r].conversation] = r
        /\ rooms[r].seats # {} /\ Cardinality(rooms[r].seats) <= Capacity
        /\ rooms[r].presenter \in rooms[r].seats \cup {None}
        /\ \A s \in rooms[r].seats :
              /\ user_key[SocketUser[s]] = r
              /\ SocketUser[s] \notin calling
              /\ \A t \in rooms[r].seats : SocketUser[s] = SocketUser[t] => s = t

KeysNameRooms ==
    /\ \A c \in Conversations : conversation_key[c] # None =>
          Live(conversation_key[c]) /\ rooms[conversation_key[c]].conversation = c
    /\ \A u \in Users : user_key[u] # None =>
          Live(user_key[u]) /\ u \in UsersOf(rooms[user_key[u]].seats)

\* Rooms and keys agree, whatever scripts ran and whatever lapsed: a live room is
\* the one of its conversation and of each of its users, who sit there once, not
\* more than fit, and not in a direct call as well; no key keeps a user or a
\* conversation busy for a room that is over; who presents has a seat.
SeatsAreExclusive == TypeOK /\ RoomsAreReserved /\ KeysNameRooms

\* A room seats members of its conversation only. Once the membership has changed,
\* an event that will end the room is still to be processed, unless the room was
\* started by a command that had lost its lease.
RoomsFollowMembership ==
    \A r \in Rooms : Live(r) =>
        LET c == rooms[r].conversation
            v == rooms[r].membership_revision
        IN  \/ v = revision[c] /\ UsersOf(rooms[r].seats) \subseteq members[c]
            \/ v < revision[c] /\ r \in astray
            \/ \E e \in pending : e.conversation = c /\ e.revision > v

\* A socket whose cleanup is over has no seat in a room that goes on, whatever was
\* joined, left and ended between the lookup and the script, unless a command of
\* the socket was still running.
CleanupFreesSeat ==
    \A s \in Sockets, r \in Rooms :
        phase[s] = "gone" /\ s \notin overtaken /\ Live(r) => s \notin rooms[r].seats

\* Clients order what they hear of a room by its number: two states of a room that
\* differ never have the same one, it never goes back, and an ended room stays so.
RoomsAdvance ==
    \A r \in Rooms : rooms[r] # None /\ rooms'[r] # None =>
        /\ rooms'[r].state_revision >= rooms[r].state_revision
        /\ rooms'[r].state_revision = rooms[r].state_revision =>
              [rooms'[r] EXCEPT !.due = rooms[r].due] = rooms[r]
        /\ rooms[r].status = "ended" => rooms'[r].status = "ended"

RoomsOnlyAdvance == [][RoomsAdvance]_vars

\* A room whose membership is over ends, though its end is refused as often as the
\* room changes in between, and no client has to ask for it.
Abandoned(r) == Stale(r) /\ r \notin astray

StaleRoomsEnd == \A r \in Rooms : Abandoned(r) ~> ~Live(r)
=============================================================================
