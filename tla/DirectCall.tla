----------------------------- MODULE DirectCall -----------------------------
(***************************************************************************)
(* Direct (one-to-one) calls: the reservation keys that the Redis scripts  *)
(* of calls.go keep for every replica, and the socket handlers of the      *)
(* realtime hub that run those scripts.                                    *)
(*                                                                         *)
(* A script is atomic.  What surrounds it is not: call.start is an         *)
(* admission script, the start script and a release; call.accept reads the *)
(* replica's clock before its script runs; and a socket's write pump can   *)
(* remove the socket while its read pump still has a command in flight.    *)
(*                                                                         *)
(* Time.  Every lifetime is a countdown that Tick decrements.  The         *)
(* constants keep the order of the code's lifetimes: admission (2 s) <=    *)
(* ring (30 s) < ended (60 s) < active (2 h).  A ringing hash lives as     *)
(* long as an ended one.  A call's expires_in is both expires_at and its   *)
(* score in zwei:calls:expires.                                            *)
(*                                                                         *)
(* Abstractions.  A socket stands for its connection id, user and device;  *)
(* heartbeats keep its presence lease while its replica lives.  Group      *)
(* calls appear only as the group reservation of a user, which the start   *)
(* script reads.  Signals, credentials and event fan-out are left out.     *)
(***************************************************************************)
EXTENDS Naturals, FiniteSets

CONSTANTS
    Users,
    Sockets,       \* websocket connections
    Devices,       \* devices of users: a device id counts per user
    SocketUser,    \* the user of a socket
    SocketDevice,  \* the device of a socket; several sockets may share one
    CallIds,
    None,
    AdmissionTTL,
    RingTTL,
    EndedTTL,
    ActiveTTL,
    Callers,       \* bound: the sockets that start calls
    Frail,         \* bound: the sockets of replicas that may die or lose Redis
    GroupUsers,    \* bound: the users that may be in group calls
    Punctual       \* TRUE: no clock tick between an accept's clock reading and its script

Call == [caller : Sockets, recipient : Users, accepted : Sockets \cup {None},
         status : {"ringing", "active", "ended"},
         expires_in : 0 .. ActiveTTL, ttl : 1 .. ActiveTTL]

Key == [call : CallIds, ttl : 1 .. ActiveTTL]

Token == [holder : Sockets, ttl : 1 .. AdmissionTTL]

Command == [op : {"start", "release"}, peer : Users]
             \cup [op : {"accept"}, call : CallIds, in_time : BOOLEAN]

Phases == {"new", "open", "device", "end device", "user", "end user", "cleaned", "lost"}

\* The calls that the socket's device key and user key named; and, history, the call
\* ids that had been drawn when the user key was read.
Cleanup == [device : CallIds \cup {None}, user : CallIds \cup {None}, issued : SUBSET CallIds]
NoCleanup == [device |-> None, user |-> None, issued |-> {}]

ASSUME DirectCallAssumption ==
    /\ SocketUser \in [Sockets -> Users]
    /\ SocketDevice \in [Sockets -> Devices]
    /\ \A s, t \in Sockets : SocketDevice[s] = SocketDevice[t] => SocketUser[s] = SocketUser[t]
    /\ None \notin Users \cup Sockets \cup Devices \cup CallIds
    /\ None \notin Call \cup Key \cup Token \cup Command
    /\ AdmissionTTL \in Nat \ {0}
    /\ RingTTL \in Nat /\ AdmissionTTL <= RingTTL
    /\ EndedTTL \in Nat /\ RingTTL < EndedTTL
    /\ ActiveTTL \in Nat /\ EndedTTL < ActiveTTL
    /\ Callers \subseteq Sockets /\ Frail \subseteq Sockets /\ GroupUsers \subseteq Users
    /\ Punctual \in BOOLEAN

VARIABLES
    calls,        \* zwei:call:<id> hashes
    user_key,     \* zwei:call:user:<user>
    device_key,   \* zwei:call:device:<user>:<device>
    expirations,  \* zwei:calls:expires
    admission,    \* zwei:call:admission:<user>
    group_key,    \* users with a zwei:group-call:user:<user> key
    issued,       \* call ids drawn so far
    phase,        \* per socket: "open" in some replica's Hub.clients, then how far
                  \* Hub.Remove has come with its calls
    cleanup,      \* per socket: what Hub.Remove has read of its calls, see Cleanup
    online,       \* sockets whose presence lease exists
    command       \* per socket: the call command its read pump is in

store == <<calls, user_key, device_key, expirations>>
sockets == <<phase, cleanup, online>>
vars == <<store, issued, admission, group_key, sockets, command>>

-----------------------------------------------------------------------------
CallerOf(c) == SocketUser[calls[c].caller]
Parties(c) == {CallerOf(c), calls[c].recipient}

\* The devices whose key may name the call.
CallDevices(c) == {SocketDevice[s] : s \in {calls[c].caller, calls[c].accepted} \ {None}}

Live(c) == calls[c] # None /\ calls[c].status # "ended"

UserOnline(u) == \E s \in online : SocketUser[s] = u

Names(key, c) == key # None /\ key.call = c

In(s, op) == command[s] # None /\ command[s].op = op

Open(s) == phase[s] = "open"

-----------------------------------------------------------------------------
(* What the scripts write: the store as a record, so that the start script *)
(* can recover a stale call before it reserves.                            *)

Store == [calls |-> calls, user_key |-> user_key, device_key |-> device_key,
          expirations |-> expirations]

Write(s) ==
    /\ calls' = s.calls
    /\ user_key' = s.user_key
    /\ device_key' = s.device_key
    /\ expirations' = s.expirations

\* Faulty: the recipient's reservation stays.
EndedKeepsRecipient(D) ==
    [calls |-> [c \in CallIds |->
                  IF c \in D THEN [calls[c] EXCEPT !.status = "ended", !.ttl = EndedTTL]
                             ELSE calls[c]],
     user_key |-> [u \in Users |-> IF \E c \in D : Names(user_key[u], c) /\ u = CallerOf(c)
                                     THEN None ELSE user_key[u]],
     device_key |-> [d \in Devices |-> IF \E c \in D : Names(device_key[d], c) /\ d \in CallDevices(c)
                                         THEN None ELSE device_key[d]],
     expirations |-> expirations \ D]

\* The calls of D end: their keys go, unless a key already names another call.
Ended(D) ==
    [calls |-> [c \in CallIds |->
                  IF c \in D THEN [calls[c] EXCEPT !.status = "ended", !.ttl = EndedTTL]
                             ELSE calls[c]],
     user_key |-> [u \in Users |-> IF \E c \in D : Names(user_key[u], c) /\ u \in Parties(c)
                                     THEN None ELSE user_key[u]],
     device_key |-> [d \in Devices |-> IF \E c \in D : Names(device_key[d], c) /\ d \in CallDevices(c)
                                         THEN None ELSE device_key[d]],
     expirations |-> expirations \ D]

\* recoverStaleCall: the call is over or one of its sockets is gone.
Stale(c) ==
    \/ calls[c].status = "ended"
    \/ calls[c].caller \notin online
    \/ calls[c].status = "active" /\ calls[c].accepted \notin online
    \/ calls[c].status = "ringing" /\ ~UserOnline(calls[c].recipient)

\* The store after the recovery of the call the caller is reserved for or, if the
\* caller is free, of the recipient's.
Recovered(caller, recipient) ==
    LET key == IF user_key[caller] # None THEN user_key[caller] ELSE user_key[recipient]
    IN  IF key = None THEN Store
        ELSE IF calls[key.call] = None
          THEN [Store EXCEPT !.user_key =
                  [u \in Users |-> IF u \in {caller, recipient} /\ Names(user_key[u], key.call)
                                     THEN None ELSE user_key[u]]]
        ELSE IF Stale(key.call) THEN Ended({key.call}) ELSE Store

\* Faulty: the keys are set without EX (a ttl of 0: they never lapse).
ReservedForever(s, c, socket, recipient) ==
    [calls |-> [s.calls EXCEPT ![c] =
                  [caller |-> socket, recipient |-> recipient, accepted |-> None,
                   status |-> "ringing", expires_in |-> RingTTL, ttl |-> EndedTTL]],
     user_key |-> [u \in Users |-> IF u \in {SocketUser[socket], recipient}
                                     THEN [call |-> c, ttl |-> 0] ELSE s.user_key[u]],
     device_key |-> [s.device_key EXCEPT ![SocketDevice[socket]] = [call |-> c, ttl |-> 0]],
     expirations |-> s.expirations \cup {c}]

Reserved(s, c, socket, recipient) ==
    [calls |-> [s.calls EXCEPT ![c] =
                  [caller |-> socket, recipient |-> recipient, accepted |-> None,
                   status |-> "ringing", expires_in |-> RingTTL, ttl |-> EndedTTL]],
     user_key |-> [u \in Users |-> IF u \in {SocketUser[socket], recipient}
                                     THEN [call |-> c, ttl |-> RingTTL] ELSE s.user_key[u]],
     device_key |-> [s.device_key EXCEPT ![SocketDevice[socket]] = [call |-> c, ttl |-> RingTTL]],
     expirations |-> s.expirations \cup {c}]

-----------------------------------------------------------------------------
Init ==
    /\ calls = [c \in CallIds |-> None]
    /\ user_key = [u \in Users |-> None]
    /\ device_key = [d \in Devices |-> None]
    /\ expirations = {}
    /\ admission = [u \in Users |-> None]
    /\ group_key = {}
    /\ issued = {}
    /\ phase = [s \in Sockets |-> "new"]
    /\ cleanup = [s \in Sockets |-> NoCleanup]
    /\ online = {}
    /\ command = [s \in Sockets |-> None]

(* call.start.                                                             *)

\* The recipient is online and neither user's admission is taken.
StartAdmitted(s, recipient) ==
    LET caller == SocketUser[s] IN
    /\ Open(s) /\ s \in Callers
    /\ command[s] = None
    /\ recipient # caller
    /\ UserOnline(recipient)
    /\ admission[caller] = None /\ admission[recipient] = None
    /\ admission' = [u \in Users |-> IF u \in {caller, recipient}
                                       THEN [holder |-> s, ttl |-> AdmissionTTL]
                                       ELSE admission[u]]
    /\ command' = [command EXCEPT ![s] = [op |-> "start", peer |-> recipient]]
    /\ UNCHANGED <<store, issued, group_key, sockets>>

Admits(s, u) == admission[u] # None /\ admission[u].holder = s

\* Faulty: only the caller's reservation is looked at.
FreeCallerOnly(s, caller, recipient) == s.user_key[caller] = None

Free(s, caller, recipient) == s.user_key[caller] = None /\ s.user_key[recipient] = None

\* Faulty: the recipient's group call is not looked at.
NoGroupCallCallerOnly(caller, recipient) == caller \notin group_key

NoGroupCall(caller, recipient) == group_key \cap {caller, recipient} = {}

\* startCallScript.
StartScript(s) ==
    LET caller == SocketUser[s]
        recipient == command[s].peer
        recovered == Recovered(caller, recipient)
        admitted == /\ Admits(s, caller) /\ Admits(s, recipient)
                    /\ NoGroupCall(caller, recipient)
    IN  /\ In(s, "start")
        /\ command' = [command EXCEPT ![s].op = "release"]
        /\ \/ /\ ~admitted
              /\ UNCHANGED <<store, issued>>
           \/ /\ admitted
              /\ Free(recovered, caller, recipient) /\ UserOnline(recipient)
              /\ \E c \in CallIds \ issued : /\ issued' = issued \cup {c}
                                             /\ Write(Reserved(recovered, c, s, recipient))
           \/ /\ admitted
              /\ ~ (Free(recovered, caller, recipient) /\ UserOnline(recipient))
              /\ Write(recovered)
              /\ UNCHANGED issued
        /\ UNCHANGED <<admission, group_key, sockets>>

\* Redis or the context failed before the script ran.
StartFails(s) ==
    /\ In(s, "start") /\ s \in Frail
    /\ command' = [command EXCEPT ![s].op = "release"]
    /\ UNCHANGED <<store, issued, admission, group_key, sockets>>

\* The deferred release, which may itself fail and leave the token to lapse.
StartReleases(s) ==
    /\ In(s, "release")
    /\ command' = [command EXCEPT ![s] = None]
    /\ \/ admission' = [u \in Users |-> IF u \in {SocketUser[s], command[s].peer} /\ Admits(s, u)
                                          THEN None ELSE admission[u]]
       \/ s \in Frail /\ UNCHANGED admission
    /\ UNCHANGED <<store, issued, group_key, sockets>>

(* call.accept, call.decline, call.cancel, call.end.                       *)

\* transitionCall reads the clock; a call already over, or another user's, is
\* refused whatever the clock says.
AcceptReadsClock(s, c) ==
    /\ Open(s)
    /\ command[s] = None
    /\ Live(c) /\ calls[c].status = "ringing" /\ calls[c].recipient = SocketUser[s]
    /\ command' = [command EXCEPT ![s] = [op |-> "accept", call |-> c,
                                          in_time |-> calls[c].expires_in > 0]]
    /\ UNCHANGED <<store, issued, admission, group_key, sockets>>

\* Faulty: the ring time is not looked at.
AcceptableLate(s, c) == Live(c) /\ calls[c].status = "ringing"

\* Faulty: a second device can still take the call.
AcceptableLive(s, c) == Live(c) /\ command[s].in_time

Acceptable(s, c) == Live(c) /\ calls[c].status = "ringing" /\ command[s].in_time

\* acceptCallScript.
AcceptScript(s) ==
    LET c == command[s].call
        device == SocketDevice[s]
        key == [call |-> c, ttl |-> ActiveTTL]
    IN  /\ In(s, "accept")
        /\ command' = [command EXCEPT ![s] = None]
        /\ \/ /\ Acceptable(s, c)
              /\ calls' = [calls EXCEPT ![c] = [@ EXCEPT !.accepted = s, !.status = "active",
                                                         !.expires_in = ActiveTTL, !.ttl = ActiveTTL]]
              /\ user_key' = [u \in Users |-> IF u \in Parties(c) THEN key ELSE user_key[u]]
              /\ device_key' = [d \in Devices |->
                                  IF d \in {SocketDevice[calls[c].caller], device}
                                    THEN key ELSE device_key[d]]
              /\ expirations' = expirations \cup {c}
           \/ /\ ~Acceptable(s, c)
              /\ UNCHANGED store
        /\ UNCHANGED <<issued, admission, group_key, sockets>>

\* declineCallScript and cancelCallScript.
Decline(s, c) ==
    /\ Open(s) /\ command[s] = None
    /\ Live(c) /\ calls[c].status = "ringing" /\ calls[c].recipient = SocketUser[s]
    /\ Write(Ended({c}))
    /\ UNCHANGED <<issued, admission, group_key, sockets, command>>

Cancel(s, c) ==
    /\ Open(s) /\ command[s] = None
    /\ Live(c) /\ calls[c].status = "ringing" /\ calls[c].caller = s
    /\ Write(Ended({c}))
    /\ UNCHANGED <<issued, admission, group_key, sockets, command>>

\* Faulty: the accepting side cannot end the call.
MayEndCaller(s, c) == Live(c) /\ s = calls[c].caller

\* endCallScript: the caller's or the accepting socket, or the recipient of a
\* ringing call once no socket of theirs is online.
MayEnd(s, c) ==
    /\ Live(c)
    /\ \/ s = calls[c].caller
       \/ s = calls[c].accepted
       \/ /\ calls[c].status = "ringing"
          /\ SocketUser[s] = calls[c].recipient
          /\ ~UserOnline(calls[c].recipient)

End(s, c) ==
    /\ Open(s) /\ command[s] = None
    /\ MayEnd(s, c)
    /\ Write(Ended({c}))
    /\ UNCHANGED <<issued, admission, group_key, sockets, command>>

(* Sockets.                                                                *)

\* A connection id is new: it never comes back.
Connect(s) ==
    /\ phase[s] = "new"
    /\ phase' = [phase EXCEPT ![s] = "open"]
    /\ online' = online \cup {s}
    /\ UNCHANGED <<store, issued, admission, group_key, cleanup, command>>

\* Hub.Remove up to the presence Disconnect, by the read pump after its last
\* command or by the write pump at any time.  Disconnect may fail: the lease lapses.
Remove(s) ==
    /\ Open(s)
    /\ phase' = [phase EXCEPT ![s] = "device"]
    /\ \/ online' = online \ {s}
       \/ s \in Frail /\ UNCHANGED online
    /\ UNCHANGED <<store, issued, admission, group_key, cleanup, command>>

(* EndByDevice: the device key and then the user key are read, and each call    *)
(* they name is ended by a script of its own. A key may name another call by    *)
(* the time the script runs.                                                    *)

Named(key) == IF key = None THEN None ELSE key.call

\* The loop goes on with the call that a key names, or without one.
GetDeviceKey(s) ==
    LET c == Named(device_key[SocketDevice[s]]) IN
    /\ phase[s] = "device"
    /\ cleanup' = [cleanup EXCEPT ![s] = [NoCleanup EXCEPT !.device = c]]
    /\ phase' = [phase EXCEPT ![s] = IF c = None THEN "user" ELSE "end device"]
    /\ UNCHANGED <<store, issued, admission, group_key, online, command>>

\* A call that was seen is not ended twice.
GetUserKey(s) ==
    LET c == Named(user_key[SocketUser[s]])
        over == c = None \/ c = cleanup[s].device
    IN  /\ phase[s] = "user"
        /\ cleanup' = [cleanup EXCEPT ![s] = IF over THEN NoCleanup
                                             ELSE [@ EXCEPT !.user = c, !.issued = issued]]
        /\ phase' = [phase EXCEPT ![s] = IF over THEN "cleaned" ELSE "end user"]
        /\ UNCHANGED <<store, issued, admission, group_key, online, command>>

EndNamed(s, c) ==
    \/ MayEnd(s, c) /\ Write(Ended({c}))
    \/ ~MayEnd(s, c) /\ UNCHANGED store

EndDeviceCall(s) ==
    /\ phase[s] = "end device"
    /\ EndNamed(s, cleanup[s].device)
    /\ phase' = [phase EXCEPT ![s] = "user"]
    /\ UNCHANGED <<issued, admission, group_key, cleanup, online, command>>

EndUserCall(s) ==
    /\ phase[s] = "end user"
    /\ EndNamed(s, cleanup[s].user)
    /\ phase' = [phase EXCEPT ![s] = "cleaned"]
    /\ cleanup' = [cleanup EXCEPT ![s] = NoCleanup]
    /\ UNCHANGED <<issued, admission, group_key, online, command>>

\* Redis fails: Remove gives up on the calls.
CleanupFails(s) ==
    /\ phase[s] \in {"device", "end device", "user", "end user"} /\ s \in Frail
    /\ phase' = [phase EXCEPT ![s] = "lost"]
    /\ cleanup' = [cleanup EXCEPT ![s] = NoCleanup]
    /\ UNCHANGED <<store, issued, admission, group_key, online, command>>

\* The replica dies with its sockets; their presence leases lapse later.
Crash(s) ==
    /\ Open(s) /\ s \in Frail
    /\ phase' = [phase EXCEPT ![s] = "lost"]
    /\ command' = [command EXCEPT ![s] = None]
    /\ UNCHANGED <<store, issued, admission, group_key, cleanup, online>>

LeaseLapses(s) ==
    /\ s \in online /\ ~Open(s)
    /\ online' = online \ {s}
    /\ UNCHANGED <<store, issued, admission, group_key, phase, cleanup, command>>

(* Group calls: startGroupRoomScript and joinGroupRoomScript reserve a free *)
(* user under an admission of their own, leaving and ending release it.     *)

GroupReserve(u) ==
    /\ u \in GroupUsers \ group_key
    /\ admission[u] = None
    /\ user_key[u] = None
    /\ group_key' = group_key \cup {u}
    /\ UNCHANGED <<store, issued, admission, sockets, command>>

GroupRelease(u) ==
    /\ u \in group_key
    /\ group_key' = group_key \ {u}
    /\ UNCHANGED <<store, issued, admission, sockets, command>>

(* Time.                                                                   *)

Lapse(key) ==
    IF key = None \/ key.ttl = 1 THEN None ELSE [key EXCEPT !.ttl = @ - 1]

Tick ==
    /\ Punctual => \A s \in Sockets : ~In(s, "accept")
    /\ calls' = [c \in CallIds |->
                   IF calls[c] = None \/ calls[c].ttl = 1 THEN None
                   ELSE [calls[c] EXCEPT !.ttl = @ - 1,
                                         !.expires_in = IF @ = 0 THEN 0 ELSE @ - 1]]
    /\ user_key' = [u \in Users |-> Lapse(user_key[u])]
    /\ device_key' = [d \in Devices |-> Lapse(device_key[d])]
    /\ admission' = [u \in Users |-> Lapse(admission[u])]
    /\ UNCHANGED <<expirations, issued, group_key, sockets, command>>

\* expireCallsScript, run every second by every replica.
ExpireCalls ==
    LET due == {c \in expirations : calls[c] = None \/ calls[c].expires_in = 0} IN
    /\ due # {}
    /\ Write([Ended({c \in due : calls[c] # None}) EXCEPT !.expirations = expirations \ due])
    /\ UNCHANGED <<issued, admission, group_key, sockets, command>>

-----------------------------------------------------------------------------
Starting(s) ==
    \/ \E u \in Users : StartAdmitted(s, u)
    \/ StartScript(s)
    \/ StartFails(s)
    \/ StartReleases(s)

Answering(s) ==
    \/ \E c \in CallIds : AcceptReadsClock(s, c) \/ Decline(s, c) \/ Cancel(s, c) \/ End(s, c)
    \/ AcceptScript(s)

Connection(s) ==
    \/ Connect(s)
    \/ Remove(s)
    \/ GetDeviceKey(s)
    \/ EndDeviceCall(s)
    \/ GetUserKey(s)
    \/ EndUserCall(s)
    \/ CleanupFails(s)
    \/ Crash(s)
    \/ LeaseLapses(s)

Next ==
    \/ \E s \in Sockets : Starting(s) \/ Answering(s) \/ Connection(s)
    \/ \E u \in Users : GroupReserve(u) \/ GroupRelease(u)
    \/ Tick
    \/ ExpireCalls

Spec == Init /\ [][Next]_vars

-----------------------------------------------------------------------------
(* Properties.                                                             *)

RemovalsTyped(p, k) ==
    /\ p \in [Sockets -> Phases] /\ k \in [Sockets -> Cleanup]
    /\ \A s \in Sockets : /\ p[s] = "end device" => k[s].device \in CallIds
                          /\ p[s] = "end user" => k[s].user \in CallIds

TypeOK ==
    /\ calls \in [CallIds -> Call \cup {None}]
    /\ user_key \in [Users -> Key \cup {None}]
    /\ device_key \in [Devices -> Key \cup {None}]
    /\ expirations \subseteq CallIds
    /\ admission \in [Users -> Token \cup {None}]
    /\ group_key \subseteq Users
    /\ issued \subseteq CallIds
    /\ RemovalsTyped(phase, cleanup)
    /\ online \subseteq Sockets
    /\ command \in [Sockets -> Command \cup {None}]

\* A reservation always names a call that is ringing or active and that its user,
\* or its device, takes part in: no ended, expired or recovered call keeps anyone
\* busy, whichever of the scripts ended it and whatever ran in between.
ReservationIsLive ==
    /\ \A u \in Users : user_key[u] # None =>
          /\ Live(user_key[u].call)
          /\ u \in Parties(user_key[u].call)
    /\ \A d \in Devices : device_key[d] # None =>
          /\ Live(device_key[d].call)
          /\ d \in CallDevices(device_key[d].call)

\* Calls that still hold their users: active, or ringing within the ring time.
Holding(c) == Live(c) /\ calls[c].expires_in > 0

\* Nobody is in two calls, and nobody is in a direct and a group call.
NoDoubleBooking ==
    \A u \in Users :
        LET booked == {c \in CallIds : Holding(c) /\ u \in Parties(c)} IN
        /\ Cardinality(booked) <= 1
        /\ u \in group_key => booked = {}

\* Only issued calls exist, and only accepted ones have an accepting socket.
CallsInOrder ==
    /\ \A c \in CallIds \ issued : calls[c] = None
    /\ \A c \in CallIds : calls[c] # None /\ calls[c].status = "ringing" =>
          calls[c].accepted = None

\* No key outlives the hash of the call it names.
KeysLapseFirst ==
    /\ \A u \in Users : user_key[u] # None => user_key[u].ttl <= calls[user_key[u].call].ttl
    /\ \A d \in Devices : device_key[d] # None => device_key[d].ttl <= calls[device_key[d].call].ttl

\* The keys of both parties name a holding call for exactly as long as it holds.
PartiesReserved ==
    \A c \in CallIds : Holding(c) =>
        \A u \in Parties(c) : user_key[u] = [call |-> c, ttl |-> calls[c].expires_in]

\* An accept in time meets a call that still holds its users, or one that is over.
AcceptsInTime ==
    \A s \in Sockets : In(s, "accept") =>
        (command[s].in_time /\ Live(command[s].call) => Holding(command[s].call))

GroupUsersFree == \A u \in group_key : user_key[u] = None

\* The inductive invariant: the reservation keys and the calls agree, from which
\* NoDoubleBooking follows where accepts are punctual.
IInv ==
    /\ TypeOK
    /\ CallsInOrder
    /\ ReservationIsLive
    /\ KeysLapseFirst
    /\ Punctual => PartiesReserved /\ AcceptsInTime /\ GroupUsersFree

\* A call is accepted by a socket of its recipient, and an accept in flight finds the
\* call its socket was rung for, or none: call ids are not drawn twice.
AcceptedByRecipient ==
    /\ \A c \in CallIds : calls[c] # None /\ calls[c].accepted # None =>
          SocketUser[calls[c].accepted] = calls[c].recipient
    /\ \A s \in Sockets : In(s, "accept") =>
          /\ command[s].call \in issued
          /\ calls[command[s].call] # None =>
                calls[command[s].call].recipient = SocketUser[s]

\* Of all devices that answer, one gets the call, for good; and a call that is
\* over stays over.
FirstAcceptWins ==
    [][\A c \in CallIds : calls[c] # None /\ calls'[c] # None =>
          /\ calls[c].accepted # None => calls'[c].accepted = calls[c].accepted
          /\ calls[c].status = "ended" => calls'[c].status = "ended"]_vars

Finished(s) == phase[s] # "cleaned" /\ phase'[s] = "cleaned"

\* Calls there were when Remove read the user key for the last time.
Asked(s) == IF phase[s] = "end user" THEN cleanup[s].issued ELSE issued

\* When Remove has dealt with a socket's calls, no call bound to it holds its users,
\* whatever ran between its reads and its scripts; but one that a call.start of the
\* socket, still under way, reserved after the last read (calls.go:105, :120).
CleanupEndsCalls ==
    [][\A s \in Sockets : Finished(s) =>
          \A c \in Asked(s) : Holding(c)' => s \notin {calls'[c].caller, calls'[c].accepted}]_vars
=============================================================================
