-------------------------- MODULE DirectCallProofs --------------------------
(***************************************************************************)
(* Proofs that the reservation keys and the calls agree, that one device   *)
(* wins, and, where accepts are punctual, that nobody is in two calls and  *)
(* that a removed socket's calls are over, for every set of users,         *)
(* sockets, devices and calls and every choice of lifetimes.               *)
(*                                                                         *)
(* The start script writes the store twice in one step: it recovers a      *)
(* stale call, then reserves.  So the invariant of the store is stated     *)
(* over its values, Agree(C, U, D), and proved of every store a script     *)
(* computes.                                                               *)
(***************************************************************************)
EXTENDS DirectCall, TLAPS, FiniteSetTheorems

StoreTypes(C, U, D) ==
    /\ C \in [CallIds -> Call \cup {None}]
    /\ U \in [Users -> Key \cup {None}]
    /\ D \in [Devices -> Key \cup {None}]

RingingUnanswered(C) ==
    \A c \in CallIds : C[c] # None /\ C[c].status = "ringing" => C[c].accepted = None

PartiesOf(call) == {SocketUser[call.caller], call.recipient}

DevicesOf(call) == {SocketDevice[s] : s \in {call.caller, call.accepted} \ {None}}

LiveCall(call) == call # None /\ call.status # "ended"

UserKeysLive(C, U) ==
    \A u \in Users : U[u] # None =>
        /\ LiveCall(C[U[u].call])
        /\ u \in PartiesOf(C[U[u].call])
        /\ U[u].ttl <= C[U[u].call].ttl

DeviceKeysLive(C, D) ==
    \A d \in Devices : D[d] # None =>
        /\ LiveCall(C[D[d].call])
        /\ d \in DevicesOf(C[D[d].call])
        /\ D[d].ttl <= C[D[d].call].ttl

BothReserved(C, U) ==
    \A c \in CallIds : LiveCall(C[c]) /\ C[c].expires_in > 0 =>
        \A u \in PartiesOf(C[c]) : U[u] = [call |-> c, ttl |-> C[c].expires_in]

\* The store invariant: the keys name live calls they belong to and lapse before
\* them, and both parties of a holding call are reserved for it.
Agree(C, U, D) ==
    /\ StoreTypes(C, U, D)
    /\ RingingUnanswered(C)
    /\ UserKeysLive(C, U)
    /\ DeviceKeysLive(C, D)
    /\ Punctual => BothReserved(C, U)

\* The part of the invariant outside the store, for the store's new values.
RestOK ==
    /\ expirations \subseteq CallIds
    /\ admission \in [Users -> Token \cup {None}]
    /\ group_key \subseteq Users
    /\ issued \subseteq CallIds
    /\ RemovalsTyped(phase, cleanup)
    /\ online \subseteq Sockets
    /\ command \in [Sockets -> Command \cup {None}]
    /\ \A c \in CallIds \ issued : calls[c] = None
    /\ Punctual => AcceptsInTime /\ GroupUsersFree

\* The invariant is the store invariant and the rest.
LEMMA Split == IInv <=> Agree(calls, user_key, device_key) /\ RestOK
BY DEF IInv, TypeOK, CallsInOrder, ReservationIsLive, KeysLapseFirst, PartiesReserved, Agree,
   StoreTypes, RingingUnanswered, UserKeysLive, DeviceKeysLive, BothReserved, RestOK,
   LiveCall, Live, PartiesOf, Parties, CallerOf, DevicesOf, CallDevices, Holding

LEMMA SplitNext ==
    Agree(calls', user_key', device_key') /\ RestOK' => IInv'
BY DEF IInv, TypeOK, CallsInOrder, ReservationIsLive, KeysLapseFirst, PartiesReserved, Agree,
   StoreTypes, RingingUnanswered, UserKeysLive, DeviceKeysLive, BothReserved, RestOK,
   LiveCall, Live, PartiesOf, Parties, CallerOf, DevicesOf, CallDevices, Holding

\* The order of the lifetimes.
LEMMA Lifetimes ==
    /\ AdmissionTTL \in 1 .. ActiveTTL /\ RingTTL \in 1 .. ActiveTTL
    /\ EndedTTL \in 1 .. ActiveTTL /\ ActiveTTL \in 1 .. ActiveTTL
    /\ RingTTL < EndedTTL
BY DirectCallAssumption

LEMMA Initially == Init => IInv
<1>. SUFFICES ASSUME Init PROVE IInv  OBVIOUS
<1>1. StoreTypes(calls, user_key, device_key)  BY DEF Init, StoreTypes
<1>2. Agree(calls, user_key, device_key)
  BY <1>1 DEF Init, Agree, RingingUnanswered, UserKeysLive, DeviceKeysLive, BothReserved, LiveCall
<1>3. RemovalsTyped(phase, cleanup)
  BY DEF Init, RemovalsTyped, Phases, Cleanup, NoCleanup
<1>4. RestOK  BY <1>3 DEF Init, RestOK, AcceptsInTime, GroupUsersFree, In
<1>. QED  BY <1>2, <1>4, Split

-----------------------------------------------------------------------------
(* The stores that the scripts compute.                                    *)

\* Two states of one call with the same parties and the same accepting socket.
SameCall(new, old) ==
    new.caller = old.caller /\ new.recipient = old.recipient /\ new.accepted = old.accepted

\* What calls.go's ending scripts leave: the calls of E ended, no key naming one
\* of them, everything else as it was.
LEMMA EndedStore ==
    ASSUME Agree(calls, user_key, device_key), NEW E \in SUBSET CallIds,
           \A c \in E : calls[c] # None
    PROVE  /\ \A c \in E : /\ Ended(E).calls[c] # None
                           /\ Ended(E).calls[c] \in Call
                           /\ Ended(E).calls[c].status = "ended"
                           /\ SameCall(Ended(E).calls[c], calls[c])
           /\ \A c \in CallIds \ E : Ended(E).calls[c] = calls[c]
           /\ \A u \in Users : Ended(E).user_key[u] =
                 IF user_key[u] # None /\ user_key[u].call \in E THEN None ELSE user_key[u]
           /\ \A d \in Devices : Ended(E).device_key[d] =
                 IF device_key[d] # None /\ device_key[d].call \in E THEN None ELSE device_key[d]
<1>1. \A c \in E : calls[c] \in Call  BY DEF Agree, StoreTypes
<1>2. ASSUME NEW c \in E
      PROVE  /\ Ended(E).calls[c] = [calls[c] EXCEPT !.status = "ended", !.ttl = EndedTTL]
             /\ Ended(E).calls[c] \in Call
             /\ Ended(E).calls[c].status = "ended"
             /\ SameCall(Ended(E).calls[c], calls[c])
  BY <1>1, <1>2, Lifetimes DEF Ended, Call, SameCall
<1>3. \A c \in CallIds \ E : Ended(E).calls[c] = calls[c]  BY DEF Ended
<1>4. ASSUME NEW u \in Users
      PROVE  Ended(E).user_key[u] =
                IF user_key[u] # None /\ user_key[u].call \in E THEN None ELSE user_key[u]
  <2>1. \A c \in E : Names(user_key[u], c) => u \in Parties(c)
    BY DEF Agree, UserKeysLive, Names, PartiesOf, Parties, CallerOf
  <2>. QED  BY <2>1 DEF Ended, Names
<1>5. ASSUME NEW d \in Devices
      PROVE  Ended(E).device_key[d] =
                IF device_key[d] # None /\ device_key[d].call \in E THEN None ELSE device_key[d]
  <2>1. \A c \in E : Names(device_key[d], c) => d \in CallDevices(c)
    BY DEF Agree, DeviceKeysLive, Names, DevicesOf, CallDevices
  <2>. QED  BY <2>1 DEF Ended, Names
<1>. QED  BY <1>2, <1>3, <1>4, <1>5, DirectCallAssumption

LEMMA EndedAgrees ==
    ASSUME Agree(calls, user_key, device_key), NEW E \in SUBSET CallIds,
           \A c \in E : calls[c] # None
    PROVE  Agree(Ended(E).calls, Ended(E).user_key, Ended(E).device_key)
<1>. DEFINE C == Ended(E).calls
            U == Ended(E).user_key
            D == Ended(E).device_key
<1>1. /\ \A c \in E : C[c] # None /\ C[c] \in Call /\ C[c].status = "ended"
      /\ \A c \in CallIds \ E : C[c] = calls[c]
      /\ \A u \in Users : U[u] = IF user_key[u] # None /\ user_key[u].call \in E
                                   THEN None ELSE user_key[u]
      /\ \A d \in Devices : D[d] = IF device_key[d] # None /\ device_key[d].call \in E
                                     THEN None ELSE device_key[d]
  BY EndedStore
<1>2. C = [c \in CallIds |-> C[c]] /\ U = [u \in Users |-> U[u]] /\ D = [d \in Devices |-> D[d]]
  BY DEF Ended
<1>. HIDE DEF C, U, D
<1>3. StoreTypes(C, U, D)
  BY <1>1, <1>2 DEF Agree, StoreTypes
<1>4. RingingUnanswered(C)
  BY <1>1 DEF Agree, RingingUnanswered
<1>5. UserKeysLive(C, U)
  <2>1. \A u \in Users : user_key[u] # None => user_key[u].call \in CallIds
    BY DEF Agree, StoreTypes, Key
  <2>. QED  BY <1>1, <2>1 DEF Agree, UserKeysLive
<1>6. DeviceKeysLive(C, D)
  <2>1. \A d \in Devices : device_key[d] # None => device_key[d].call \in CallIds
    BY DEF Agree, StoreTypes, Key
  <2>. QED  BY <1>1, <2>1 DEF Agree, DeviceKeysLive
<1>7. ASSUME Punctual  PROVE BothReserved(C, U)
  <2>. SUFFICES ASSUME NEW c \in CallIds, LiveCall(C[c]), C[c].expires_in > 0,
                       NEW u \in PartiesOf(C[c])
                PROVE  U[u] = [call |-> c, ttl |-> C[c].expires_in]
    BY DEF BothReserved
  <2>1. c \notin E /\ C[c] = calls[c]  BY <1>1 DEF LiveCall
  <2>2. user_key[u] = [call |-> c, ttl |-> calls[c].expires_in]
    BY <1>7, <2>1 DEF Agree, BothReserved
  <2>3. u \in Users
    BY <2>1, DirectCallAssumption DEF LiveCall, PartiesOf, Agree, StoreTypes, Call
  <2>. QED  BY <1>1, <2>1, <2>2, <2>3
<1>8. Agree(C, U, D)  BY <1>3, <1>4, <1>5, <1>6, <1>7 DEF Agree
<1>. QED  BY <1>8 DEF C, U, D

\* The store after the recovery of a stale call: the same, or one call ended.
LEMMA RecoveredCases ==
    ASSUME Agree(calls, user_key, device_key), NEW caller \in Users, NEW recipient \in Users
    PROVE  \/ Recovered(caller, recipient) = Store
           \/ \E c \in CallIds : calls[c] # None /\ Recovered(caller, recipient) = Ended({c})
<1>. DEFINE key == IF user_key[caller] # None THEN user_key[caller] ELSE user_key[recipient]
<1>1. key # None => key.call \in CallIds /\ calls[key.call] # None
  BY DEF Agree, StoreTypes, UserKeysLive, LiveCall, Key
<1>. QED  BY <1>1 DEF Recovered

LEMMA RecoveredAgrees ==
    ASSUME Agree(calls, user_key, device_key), NEW caller \in Users, NEW recipient \in Users
    PROVE  LET s == Recovered(caller, recipient) IN
           /\ Agree(s.calls, s.user_key, s.device_key)
           /\ \A c \in CallIds :
                 \/ s.calls[c] = calls[c]
                 \/ /\ calls[c] # None /\ s.calls[c] # None
                    /\ s.calls[c].status = "ended"
                    /\ SameCall(s.calls[c], calls[c])
           /\ \A u \in Users : s.user_key[u] \in {None, user_key[u]}
           /\ s.expirations \subseteq expirations
<1>1. CASE Recovered(caller, recipient) = Store
  BY <1>1 DEF Store
<1>2. ASSUME NEW c \in CallIds, calls[c] # None, Recovered(caller, recipient) = Ended({c})
      PROVE  LET s == Recovered(caller, recipient) IN
           /\ Agree(s.calls, s.user_key, s.device_key)
           /\ \A k \in CallIds :
                 \/ s.calls[k] = calls[k]
                 \/ /\ calls[k] # None /\ s.calls[k] # None
                    /\ s.calls[k].status = "ended"
                    /\ SameCall(s.calls[k], calls[k])
           /\ \A u \in Users : s.user_key[u] \in {None, user_key[u]}
           /\ s.expirations \subseteq expirations
  <2>1. Ended({c}).expirations \subseteq expirations  BY DEF Ended
  <2>2. {c} \in SUBSET CallIds /\ \A k \in {c} : calls[k] # None  BY <1>2
  <2>3. Agree(Ended({c}).calls, Ended({c}).user_key, Ended({c}).device_key)
    BY <2>2, EndedAgrees
  <2>4. /\ \A k \in CallIds :
                 \/ Ended({c}).calls[k] = calls[k]
                 \/ /\ calls[k] # None /\ Ended({c}).calls[k] # None
                    /\ Ended({c}).calls[k].status = "ended"
                    /\ SameCall(Ended({c}).calls[k], calls[k])
        /\ \A u \in Users : Ended({c}).user_key[u] \in {None, user_key[u]}
    BY <2>2, EndedStore
  <2>. QED  BY <1>2, <2>1, <2>3, <2>4
<1>. QED  BY <1>1, <1>2, RecoveredCases

\* The store after a reservation: a fresh call between two free users.
LEMMA ReservedAgrees ==
    ASSUME NEW s, Agree(s.calls, s.user_key, s.device_key),
           NEW c \in CallIds, s.calls[c] = None,
           NEW socket \in Sockets, NEW recipient \in Users,
           s.user_key[SocketUser[socket]] = None, s.user_key[recipient] = None
    PROVE  LET r == Reserved(s, c, socket, recipient) IN
           /\ Agree(r.calls, r.user_key, r.device_key)
           /\ r.calls[c] # None /\ r.calls[c].expires_in > 0
           /\ \A k \in CallIds \ {c} : r.calls[k] = s.calls[k]
           /\ \A u \in Users \ {SocketUser[socket], recipient} : r.user_key[u] = s.user_key[u]
<1>. DEFINE call == [caller |-> socket, recipient |-> recipient, accepted |-> None,
                     status |-> "ringing", expires_in |-> RingTTL, ttl |-> EndedTTL]
            key == [call |-> c, ttl |-> RingTTL]
            C == [s.calls EXCEPT ![c] = call]
            U == [u \in Users |-> IF u \in {SocketUser[socket], recipient} THEN key
                                    ELSE s.user_key[u]]
            D == [s.device_key EXCEPT ![SocketDevice[socket]] = key]
<1>. DEFINE r == Reserved(s, c, socket, recipient)
<1>0. r.calls = C /\ r.user_key = U /\ r.device_key = D  BY DEF Reserved
<1>1. call \in Call /\ call # None /\ key \in Key /\ key # None
  BY Lifetimes, DirectCallAssumption DEF Call, Key
<1>2. SocketUser[socket] \in Users /\ SocketDevice[socket] \in Devices
  BY DirectCallAssumption
<1>3. /\ s.calls \in [CallIds -> Call \cup {None}]
      /\ s.user_key \in [Users -> Key \cup {None}]
      /\ s.device_key \in [Devices -> Key \cup {None}]
  BY DEF Agree, StoreTypes
<1>4. StoreTypes(C, U, D)
  BY <1>1, <1>2, <1>3 DEF StoreTypes
<1>5. C[c] = call /\ \A k \in CallIds \ {c} : C[k] = s.calls[k]
  BY <1>3
<1>6. /\ call.accepted = None /\ call.status = "ringing" /\ call.expires_in = RingTTL
      /\ call.caller = socket /\ call.recipient = recipient /\ call.ttl = EndedTTL
      /\ key.call = c /\ key.ttl = RingTTL
  OBVIOUS
<1>7. /\ \A u \in Users : U[u] = IF u \in {SocketUser[socket], recipient} THEN key
                                    ELSE s.user_key[u]
      /\ \A d \in Devices : D[d] = IF d = SocketDevice[socket] THEN key ELSE s.device_key[d]
  BY <1>2, <1>3
<1>. HIDE DEF call, key, C, U, D
<1>8. RingingUnanswered(C)
  BY <1>5, <1>6 DEF Agree, RingingUnanswered
<1>9. LiveCall(C[c]) /\ RingTTL <= C[c].ttl
  BY <1>1, <1>5, <1>6, Lifetimes DEF LiveCall
<1>10. UserKeysLive(C, U)
  <2>1. ASSUME NEW u \in Users, U[u] # None, u \in {SocketUser[socket], recipient}
        PROVE  /\ LiveCall(C[U[u].call])
               /\ u \in PartiesOf(C[U[u].call])
               /\ U[u].ttl <= C[U[u].call].ttl
    BY <2>1, <1>5, <1>6, <1>7, <1>9 DEF PartiesOf
  <2>2. ASSUME NEW u \in Users, U[u] # None, u \notin {SocketUser[socket], recipient}
        PROVE  /\ LiveCall(C[U[u].call])
               /\ u \in PartiesOf(C[U[u].call])
               /\ U[u].ttl <= C[U[u].call].ttl
    <3>1. U[u] = s.user_key[u]  BY <2>2, <1>7
    <3>2. U[u].call \in CallIds  BY <2>2, <3>1, <1>3 DEF Key
    <3>3. U[u].call # c  BY <2>2, <3>1 DEF Agree, UserKeysLive, LiveCall
    <3>. QED  BY <2>2, <3>1, <3>2, <3>3, <1>5 DEF Agree, UserKeysLive
  <2>. QED  BY <2>1, <2>2 DEF UserKeysLive
<1>11. DeviceKeysLive(C, D)
  <2>1. ASSUME NEW d \in Devices, D[d] # None, d = SocketDevice[socket]
        PROVE  /\ LiveCall(C[D[d].call])
               /\ d \in DevicesOf(C[D[d].call])
               /\ D[d].ttl <= C[D[d].call].ttl
    BY <2>1, <1>5, <1>6, <1>7, <1>9, DirectCallAssumption DEF DevicesOf
  <2>2. ASSUME NEW d \in Devices, D[d] # None, d # SocketDevice[socket]
        PROVE  /\ LiveCall(C[D[d].call])
               /\ d \in DevicesOf(C[D[d].call])
               /\ D[d].ttl <= C[D[d].call].ttl
    <3>1. D[d] = s.device_key[d]  BY <2>2, <1>7
    <3>2. D[d].call \in CallIds  BY <2>2, <3>1, <1>3 DEF Key
    <3>3. D[d].call # c  BY <2>2, <3>1 DEF Agree, DeviceKeysLive, LiveCall
    <3>. QED  BY <2>2, <3>1, <3>2, <3>3, <1>5 DEF Agree, DeviceKeysLive
  <2>. QED  BY <2>1, <2>2 DEF DeviceKeysLive
<1>12. ASSUME Punctual  PROVE BothReserved(C, U)
  <2>. SUFFICES ASSUME NEW k \in CallIds, LiveCall(C[k]), C[k].expires_in > 0,
                       NEW u \in PartiesOf(C[k])
                PROVE  U[u] = [call |-> k, ttl |-> C[k].expires_in]
    BY DEF BothReserved
  <2>1. CASE k = c
    BY <2>1, <1>2, <1>5, <1>6, <1>7 DEF PartiesOf, key
  <2>2. CASE k # c
    <3>1. C[k] = s.calls[k]  BY <2>2, <1>5
    <3>2. s.user_key[u] = [call |-> k, ttl |-> C[k].expires_in]
      BY <3>1, <1>12 DEF Agree, BothReserved
    <3>3. C[k] \in Call  BY <3>1, <1>3 DEF LiveCall
    <3>4. u \in Users
      BY <3>3, DirectCallAssumption DEF PartiesOf, Call
    <3>5. U[u] # key => U[u] = s.user_key[u]  BY <3>4, <1>7
    <3>6. s.user_key[u] # None
      <4>1. s.user_key[u].call = k  BY <3>2
      <4>2. C[k].ttl \in 1 .. ActiveTTL /\ C[k].expires_in \in 0 .. ActiveTTL  BY <3>3 DEF Call
      <4>3. C[k].expires_in \in 1 .. ActiveTTL  BY <4>2
      <4>4. [call |-> k, ttl |-> C[k].expires_in] \in Key  BY <4>3 DEF Key
      <4>. QED  BY <3>2, <4>4, DirectCallAssumption
    <3>7. u \notin {SocketUser[socket], recipient}  BY <3>6
    <3>. QED  BY <3>2, <3>4, <3>7, <1>7
  <2>. QED  BY <2>1, <2>2
<1>13. Agree(C, U, D)  BY <1>4, <1>8, <1>10, <1>11, <1>12 DEF Agree
<1>14. C[c].expires_in > 0  BY <1>5, <1>6, Lifetimes
<1>. QED  BY <1>0, <1>1, <1>5, <1>7, <1>13, <1>14

-----------------------------------------------------------------------------
(* The steps.                                                              *)

LEMMA CommandFields ==
    ASSUME command \in [Sockets -> Command \cup {None}], NEW s \in Sockets
    PROVE  /\ In(s, "accept") => command[s].call \in CallIds
           /\ In(s, "start") \/ In(s, "release") =>
                 command[s].peer \in Users /\ [command[s] EXCEPT !.op = "release"] \in Command
BY DEF In, Command

\* A step that leaves the calls and the keys alone and adds no accept command.
LEMMA QuietStep ==
    ASSUME IInv, UNCHANGED <<calls, user_key, device_key>>,
           expirations' \subseteq CallIds,
           admission' \in [Users -> Token \cup {None}],
           group_key' \subseteq Users,
           \A u \in group_key' : user_key[u] = None \/ u \in group_key,
           issued' \subseteq CallIds, issued \subseteq issued',
           RemovalsTyped(phase', cleanup'),
           online' \subseteq Sockets,
           command' \in [Sockets -> Command \cup {None}],
           \A s \in Sockets : In(s, "accept")' =>
              \/ command'[s] = command[s]
              \/ /\ calls[command'[s].call] # None
                 /\ command'[s].in_time = (calls[command'[s].call].expires_in > 0)
    PROVE  IInv'
<1>1. Agree(calls, user_key, device_key) /\ RestOK  BY Split
<1>2. Agree(calls', user_key', device_key')  BY <1>1
<1>3. ASSUME Punctual  PROVE AcceptsInTime'
  <2>. SUFFICES ASSUME NEW s \in Sockets, In(s, "accept")',
                       command'[s].in_time, Live(command[s].call)'
                PROVE  Holding(command[s].call)'
    BY DEF AcceptsInTime
  <2>1. CASE command'[s] = command[s]
    <3>1. In(s, "accept")  BY <2>1 DEF In
    <3>. QED  BY <1>1, <1>3, <2>1, <3>1 DEF RestOK, AcceptsInTime, Live, Holding
  <2>2. CASE command'[s].in_time = (calls[command'[s].call].expires_in > 0)
    BY <2>2 DEF Live, Holding
  <2>. QED  BY <2>1, <2>2
<1>4. Punctual => GroupUsersFree'  BY <1>1 DEF RestOK, GroupUsersFree
<1>5. \A c \in CallIds \ issued' : calls'[c] = None  BY <1>1 DEF RestOK
<1>6. RestOK'  BY <1>3, <1>4, <1>5 DEF RestOK
<1>. QED  BY <1>2, <1>6, SplitNext

\* A step that ends the calls of E, whatever it does to sockets.
LEMMA EndingStep ==
    ASSUME IInv, NEW E \in SUBSET CallIds, \A c \in E : calls[c] # None,
           calls' = Ended(E).calls, user_key' = Ended(E).user_key,
           device_key' = Ended(E).device_key, expirations' \subseteq expirations,
           UNCHANGED <<issued, admission, group_key, online, command>>,
           RemovalsTyped(phase', cleanup')
    PROVE  IInv'
<1>1. Agree(calls, user_key, device_key) /\ RestOK  BY Split
<1>2. Agree(calls', user_key', device_key')  BY <1>1, EndedAgrees
<1>3. /\ \A c \in E : calls'[c] # None /\ calls'[c].status = "ended"
      /\ \A c \in CallIds \ E : calls'[c] = calls[c]
      /\ \A u \in Users : user_key'[u] \in {None, user_key[u]}
  BY <1>1, EndedStore
<1>4. ASSUME Punctual  PROVE AcceptsInTime'
  <2>. SUFFICES ASSUME NEW s \in Sockets, In(s, "accept")',
                       command'[s].in_time, Live(command[s].call)'
                PROVE  Holding(command[s].call)'
    BY DEF AcceptsInTime
  <2>1. In(s, "accept") /\ command'[s] = command[s]  BY DEF In
  <2>2. command[s].call \in CallIds  BY <1>1, <2>1, CommandFields DEF RestOK
  <2>3. calls'[command[s].call] = calls[command[s].call]
    BY <1>3, <2>1, <2>2 DEF Live
  <2>. QED  BY <1>1, <1>4, <2>1, <2>3 DEF RestOK, AcceptsInTime, Live, Holding
<1>5. Punctual => GroupUsersFree'  BY <1>1, <1>3 DEF RestOK, GroupUsersFree
<1>6. \A c \in CallIds \ issued' : calls'[c] = None
  BY <1>1, <1>3 DEF RestOK
<1>7. RestOK'  BY <1>1, <1>4, <1>5, <1>6 DEF RestOK
<1>. QED  BY <1>2, <1>7, SplitNext

\* call.start: the admission, the two ways out, and the script.
LEMMA StartingStep ==
    ASSUME IInv, NEW s \in Sockets, Starting(s)
    PROVE  IInv'
<1>1. Agree(calls, user_key, device_key) /\ RestOK  BY Split
<1>2. SocketUser[s] \in Users  BY DirectCallAssumption
<1>3. ASSUME NEW recipient \in Users, StartAdmitted(s, recipient)  PROVE IInv'
  <2>1. [holder |-> s, ttl |-> AdmissionTTL] \in Token
    BY DirectCallAssumption DEF Token
  <2>2. admission' \in [Users -> Token \cup {None}]
    BY <1>1, <1>3, <2>1 DEF StartAdmitted, RestOK
  <2>3. [op |-> "start", peer |-> recipient] \in Command  BY DEF Command
  <2>4. /\ command' \in [Sockets -> Command \cup {None}]
        /\ \A t \in Sockets : In(t, "accept")' => command'[t] = command[t]
    BY <1>1, <1>3, <2>3 DEF StartAdmitted, RestOK, In
  <2>. QED  BY <1>1, <1>3, <2>2, <2>4, QuietStep DEF StartAdmitted, RestOK, store, sockets
<1>4. ASSUME In(s, "start"), command' = [command EXCEPT ![s].op = "release"]
      PROVE  /\ command' \in [Sockets -> Command \cup {None}]
             /\ \A t \in Sockets : In(t, "accept")' => command'[t] = command[t]
  <2>1. [command[s] EXCEPT !.op = "release"] \in Command  BY <1>1, <1>4, CommandFields DEF RestOK
  <2>2. command'[s] = [command[s] EXCEPT !.op = "release"]  BY <1>1, <1>4 DEF RestOK
  <2>3. command'[s].op = "release"  BY <1>1, <1>4, <2>2 DEF RestOK, In, Command
  <2>4. \A t \in Sockets \ {s} : command'[t] = command[t]  BY <1>1, <1>4 DEF RestOK
  <2>5. command' = [t \in Sockets |-> command'[t]]  BY <1>1, <1>4 DEF RestOK
  <2>6. command' \in [Sockets -> Command \cup {None}]
    <3>1. \A t \in Sockets : command'[t] \in Command \cup {None}
      BY <1>1, <2>1, <2>2, <2>4 DEF RestOK
    <3>. QED  BY <2>5, <3>1
  <2>7. ~ In(s, "accept")'  BY <2>3 DEF In
  <2>. QED  BY <2>4, <2>6, <2>7
<1>5. CASE StartFails(s)
  BY <1>1, <1>4, <1>5, QuietStep DEF StartFails, RestOK, store, sockets
<1>6. CASE StartReleases(s)
  <2>1. /\ command' \in [Sockets -> Command \cup {None}]
        /\ \A t \in Sockets : In(t, "accept")' => command'[t] = command[t]
    BY <1>1, <1>6 DEF StartReleases, RestOK, In
  <2>2. admission' \in [Users -> Token \cup {None}]
    BY <1>1, <1>6 DEF StartReleases, RestOK
  <2>. QED  BY <1>1, <1>6, <2>1, <2>2, QuietStep DEF StartReleases, RestOK, store, sockets
<1>7. CASE StartScript(s)
  <2>. DEFINE caller == SocketUser[s]
              recipient == command[s].peer
              rec == Recovered(caller, recipient)
  <2>1. In(s, "start") /\ command' = [command EXCEPT ![s].op = "release"]
    BY <1>7 DEF StartScript
  <2>2. recipient \in Users  BY <1>1, <2>1, CommandFields DEF RestOK
  <2>3. /\ Agree(rec.calls, rec.user_key, rec.device_key)
        /\ \A c \in CallIds :
              \/ rec.calls[c] = calls[c]
              \/ calls[c] # None /\ rec.calls[c] # None /\ rec.calls[c].status = "ended"
        /\ \A u \in Users : rec.user_key[u] \in {None, user_key[u]}
        /\ rec.expirations \subseteq expirations
    BY <1>1, <1>2, <2>2, RecoveredAgrees
  <2>4. UNCHANGED <<admission, group_key, phase, cleanup, online>>
    BY <1>7 DEF StartScript, sockets
  <2>. HIDE DEF rec
  <2>5. ASSUME Agree(calls', user_key', device_key'), expirations' \subseteq CallIds,
               issued' \subseteq CallIds, \A c \in CallIds \ issued' : calls'[c] = None,
               \A c \in CallIds : Live(c)' => calls'[c] = calls[c] \/ calls'[c].expires_in > 0,
               Punctual => \A u \in group_key : user_key'[u] = None
        PROVE  IInv'
    <3>1. ASSUME Punctual  PROVE AcceptsInTime'
      <4>. SUFFICES ASSUME NEW t \in Sockets, In(t, "accept")',
                           command'[t].in_time, Live(command[t].call)'
                    PROVE  Holding(command[t].call)'
        BY DEF AcceptsInTime
      <4>1. command'[t] = command[t] /\ In(t, "accept")  BY <1>4, <2>1 DEF In
      <4>2. command[t].call \in CallIds  BY <1>1, <4>1, CommandFields DEF RestOK
      <4>. QED  BY <1>1, <2>5, <3>1, <4>1, <4>2 DEF RestOK, AcceptsInTime, Live, Holding
    <3>2. Punctual => GroupUsersFree'  BY <2>4, <2>5 DEF GroupUsersFree
    <3>3. RestOK'  BY <1>1, <1>4, <2>1, <2>4, <2>5, <3>1, <3>2 DEF RestOK
    <3>. QED  BY <2>5, <3>3, SplitNext
  <2>6. CASE UNCHANGED <<store, issued>>
    <3>1. UNCHANGED <<calls, user_key, device_key, expirations, issued>>  BY <2>6 DEF store
    <3>. QED  BY <1>1, <2>5, <3>1 DEF RestOK, GroupUsersFree, Live
  <2>7. CASE Write(rec) /\ UNCHANGED issued
    <3>1. \A c \in CallIds : Live(c)' => calls'[c] = calls[c]
      BY <2>3, <2>7 DEF Write, Live
    <3>2. \A c \in CallIds \ issued' : calls'[c] = None
      BY <1>1, <2>3, <2>7 DEF Write, RestOK
    <3>3. Punctual => \A u \in group_key : user_key'[u] = None
      BY <1>1, <2>3, <2>7 DEF Write, RestOK, GroupUsersFree
    <3>. QED  BY <1>1, <2>3, <2>5, <2>7, <3>1, <3>2, <3>3 DEF Write, RestOK
  <2>8. ASSUME NEW c \in CallIds \ issued, issued' = issued \cup {c},
               NoGroupCall(caller, recipient), Free(rec, caller, recipient),
               Write(Reserved(rec, c, s, recipient))
        PROVE  IInv'
    <3>. DEFINE r == Reserved(rec, c, s, recipient)
    <3>1. calls[c] = None /\ rec.calls[c] = None  BY <1>1, <2>3 DEF RestOK
    <3>2. /\ Agree(r.calls, r.user_key, r.device_key)
          /\ r.calls[c] # None /\ r.calls[c].expires_in > 0
          /\ \A k \in CallIds \ {c} : r.calls[k] = rec.calls[k]
          /\ \A u \in Users \ {caller, recipient} : r.user_key[u] = rec.user_key[u]
      BY <2>2, <2>3, <2>8, <3>1, ReservedAgrees DEF Free
    <3>3. r.expirations = rec.expirations \cup {c}  BY DEF Reserved
    <3>. HIDE DEF r
    <3>4. calls' = r.calls /\ user_key' = r.user_key /\ device_key' = r.device_key
          /\ expirations' = r.expirations
      BY <2>8 DEF Write, r
    <3>5. \A k \in CallIds : Live(k)' => calls'[k] = calls[k] \/ calls'[k].expires_in > 0
      BY <2>3, <3>2, <3>4 DEF Live
    <3>6. \A k \in CallIds \ issued' : calls'[k] = None
      BY <1>1, <2>3, <2>8, <3>2, <3>4 DEF RestOK
    <3>7. Punctual => \A u \in group_key : user_key'[u] = None
      BY <1>1, <2>3, <2>8, <3>2, <3>4 DEF RestOK, GroupUsersFree, NoGroupCall
    <3>. QED  BY <1>1, <2>3, <2>5, <2>8, <3>2, <3>3, <3>4, <3>5, <3>6, <3>7 DEF RestOK
  <2>. QED  BY <1>7, <2>6, <2>7, <2>8 DEF StartScript, rec
<1>. QED  BY <1>3, <1>5, <1>6, <1>7 DEF Starting

\* The hash of an accepted call: the caller and the recipient are the same.
LEMMA AcceptedCall ==
    ASSUME NEW r \in Call, NEW s \in Sockets
    PROVE  LET x == [r EXCEPT !.accepted = s, !.status = "active",
                              !.expires_in = ActiveTTL, !.ttl = ActiveTTL]
           IN  /\ x \in Call
               /\ x.caller = r.caller /\ x.recipient = r.recipient /\ x.accepted = s
               /\ x.status = "active" /\ x.expires_in = ActiveTTL /\ x.ttl = ActiveTTL
<1>. DEFINE r1 == [r EXCEPT !.accepted = s]
            r2 == [r1 EXCEPT !.status = "active"]
            r3 == [r2 EXCEPT !.expires_in = ActiveTTL]
            r4 == [r3 EXCEPT !.ttl = ActiveTTL]
<1>0. ActiveTTL \in 0 .. ActiveTTL /\ ActiveTTL \in 1 .. ActiveTTL
  BY DirectCallAssumption
<1>1. r1 \in Call /\ r1.caller = r.caller /\ r1.recipient = r.recipient /\ r1.accepted = s
  BY DEF Call
<1>. HIDE DEF r1
<1>2. r2 \in Call /\ r2.caller = r.caller /\ r2.recipient = r.recipient /\ r2.accepted = s
      /\ r2.status = "active"
  BY <1>1 DEF Call
<1>. HIDE DEF r2
<1>3. r3 \in Call /\ r3.caller = r.caller /\ r3.recipient = r.recipient /\ r3.accepted = s
      /\ r3.status = "active" /\ r3.expires_in = ActiveTTL
  BY <1>0, <1>2 DEF Call
<1>. HIDE DEF r3
<1>4. r4 \in Call /\ r4.caller = r.caller /\ r4.recipient = r.recipient /\ r4.accepted = s
      /\ r4.status = "active" /\ r4.expires_in = ActiveTTL /\ r4.ttl = ActiveTTL
  BY <1>0, <1>3 DEF Call
<1>. QED BY <1>4 DEF r1, r2, r3

\* acceptCallScript on a ringing call: both parties' keys and both devices' keys
\* now name the active call.
LEMMA AcceptAgrees ==
    ASSUME IInv, NEW s \in Sockets, In(s, "accept"), Acceptable(s, command[s].call),
           AcceptScript(s)
    PROVE  /\ Agree(calls', user_key', device_key')
           /\ \A k \in CallIds : Live(k)' => calls'[k] = calls[k] \/ calls'[k].expires_in > 0
           /\ Punctual => \A u \in group_key : user_key'[u] = None
           /\ issued' = issued /\ expirations' \subseteq CallIds
           /\ \A k \in CallIds \ issued : calls'[k] = None
<1>. DEFINE c == command[s].call
            call == [calls[c] EXCEPT !.accepted = s, !.status = "active",
                                     !.expires_in = ActiveTTL, !.ttl = ActiveTTL]
            key == [call |-> c, ttl |-> ActiveTTL]
<1>1. Agree(calls, user_key, device_key) /\ RestOK  BY Split
<1>2. c \in CallIds  BY <1>1, CommandFields DEF RestOK
<1>3. /\ calls[c] # None /\ calls[c].status = "ringing"
      /\ command[s].in_time /\ Live(c)
  BY DEF Acceptable, Live
<1>4. /\ calls \in [CallIds -> Call \cup {None}]
      /\ user_key \in [Users -> Key \cup {None}]
      /\ device_key \in [Devices -> Key \cup {None}]
  BY <1>1 DEF Agree, StoreTypes
<1>5. calls[c] \in Call /\ calls[c].caller \in Sockets /\ calls[c].recipient \in Users
      /\ calls[c].accepted = None
  BY <1>1, <1>2, <1>3, <1>4 DEF Call, Agree, RingingUnanswered
<1>6. /\ call \in Call /\ call # None
      /\ call.caller = calls[c].caller /\ call.recipient = calls[c].recipient
      /\ call.accepted = s /\ call.status = "active"
      /\ call.expires_in = ActiveTTL /\ call.ttl = ActiveTTL
  <2>1. /\ call \in Call
        /\ call.caller = calls[c].caller /\ call.recipient = calls[c].recipient
        /\ call.accepted = s /\ call.status = "active"
        /\ call.expires_in = ActiveTTL /\ call.ttl = ActiveTTL
    <3>. HIDE DEF c
    <3>. QED  BY <1>5, AcceptedCall, Zenon
  <2>. HIDE DEF call
  <2>. QED  BY <2>1, DirectCallAssumption
<1>7. key \in Key /\ key # None /\ key.call = c /\ key.ttl = ActiveTTL
  BY <1>2, Lifetimes, DirectCallAssumption DEF Key
<1>8. /\ calls' = [calls EXCEPT ![c] = call]
      /\ user_key' = [u \in Users |-> IF u \in Parties(c) THEN key ELSE user_key[u]]
      /\ device_key' = [d \in Devices |->
                          IF d \in {SocketDevice[calls[c].caller], SocketDevice[s]}
                            THEN key ELSE device_key[d]]
      /\ expirations' = expirations \cup {c}
      /\ UNCHANGED <<issued, group_key>>
  BY DEF AcceptScript
<1>9. /\ calls'[c] = call /\ \A k \in CallIds \ {c} : calls'[k] = calls[k]
      /\ StoreTypes(calls', user_key', device_key')
  BY <1>2, <1>4, <1>6, <1>7, <1>8 DEF StoreTypes
<1>10. /\ \A u \in Users : user_key'[u] = IF u \in Parties(c) THEN key ELSE user_key[u]
       /\ \A d \in Devices : device_key'[d] =
             IF d \in {SocketDevice[calls[c].caller], SocketDevice[s]} THEN key ELSE device_key[d]
  BY <1>8
<1>11. PartiesOf(call) = Parties(c) /\ Parties(c) \subseteq Users
       /\ DevicesOf(call) = {SocketDevice[calls[c].caller], SocketDevice[s]}
  BY <1>5, <1>6, DirectCallAssumption DEF PartiesOf, Parties, CallerOf, DevicesOf
<1>12. Punctual => \A u \in Parties(c) : user_key[u] # None /\ user_key[u].call = c
  <2>. SUFFICES ASSUME Punctual, NEW u \in Parties(c)
                PROVE  user_key[u] # None /\ user_key[u].call = c
    OBVIOUS
  <2>1. Holding(c)  BY <1>1, <1>3 DEF RestOK, AcceptsInTime
  <2>2. user_key[u] = [call |-> c, ttl |-> calls[c].expires_in]
    BY <1>1, <1>2, <2>1
       DEF Agree, BothReserved, Holding, Live, LiveCall, PartiesOf, Parties, CallerOf
  <2>3. calls[c].expires_in \in 1 .. ActiveTTL  BY <1>5, <2>1 DEF Call, Holding
  <2>4. user_key[u] \in Key  BY <1>2, <2>2, <2>3 DEF Key
  <2>. QED  BY <2>2, <2>4, DirectCallAssumption
<1>. HIDE DEF c, call, key
<1>13. RingingUnanswered(calls')
  BY <1>1, <1>6, <1>9 DEF Agree, RingingUnanswered
<1>14. LiveCall(calls'[c]) /\ calls'[c].ttl = ActiveTTL
  BY <1>6, <1>9 DEF LiveCall
<1>15. UserKeysLive(calls', user_key')
  <2>. SUFFICES ASSUME NEW u \in Users, user_key'[u] # None
                PROVE  /\ LiveCall(calls'[user_key'[u].call])
                       /\ u \in PartiesOf(calls'[user_key'[u].call])
                       /\ user_key'[u].ttl <= calls'[user_key'[u].call].ttl
    BY DEF UserKeysLive
  <2>1. CASE u \in Parties(c)
    BY <2>1, <1>7, <1>9, <1>10, <1>11, <1>14, Lifetimes
  <2>2. CASE u \notin Parties(c)
    <3>1. user_key'[u] = user_key[u]  BY <2>2, <1>10
    <3>2. user_key[u].call \in CallIds  BY <3>1, <1>4 DEF Key
    <3>3. user_key[u].call # c
      BY <1>1, <2>2, <3>1 DEF Agree, UserKeysLive, PartiesOf, Parties, CallerOf
    <3>. QED  BY <1>1, <1>9, <3>1, <3>2, <3>3 DEF Agree, UserKeysLive
  <2>. QED  BY <2>1, <2>2
<1>16. DeviceKeysLive(calls', device_key')
  <2>. SUFFICES ASSUME NEW d \in Devices, device_key'[d] # None
                PROVE  /\ LiveCall(calls'[device_key'[d].call])
                       /\ d \in DevicesOf(calls'[device_key'[d].call])
                       /\ device_key'[d].ttl <= calls'[device_key'[d].call].ttl
    BY DEF DeviceKeysLive
  <2>1. CASE d \in {SocketDevice[calls[c].caller], SocketDevice[s]}
    BY <2>1, <1>7, <1>9, <1>10, <1>11, <1>14, Lifetimes
  <2>2. CASE d \notin {SocketDevice[calls[c].caller], SocketDevice[s]}
    <3>1. device_key'[d] = device_key[d]  BY <2>2, <1>10
    <3>2. device_key[d].call \in CallIds  BY <3>1, <1>4 DEF Key
    <3>3. device_key[d].call # c
      <4>1. DevicesOf(calls[c]) \subseteq {SocketDevice[calls[c].caller]}
        BY <1>5 DEF DevicesOf
      <4>. QED  BY <1>1, <2>2, <3>1, <4>1 DEF Agree, DeviceKeysLive
    <3>. QED  BY <1>1, <1>9, <3>1, <3>2, <3>3 DEF Agree, DeviceKeysLive
  <2>. QED  BY <2>1, <2>2
<1>17. ASSUME Punctual  PROVE BothReserved(calls', user_key')
  <2>. SUFFICES ASSUME NEW k \in CallIds, LiveCall(calls'[k]), calls'[k].expires_in > 0,
                       NEW u \in PartiesOf(calls'[k])
                PROVE  user_key'[u] = [call |-> k, ttl |-> calls'[k].expires_in]
    BY DEF BothReserved
  <2>1. CASE k = c
    BY <2>1, <1>6, <1>9, <1>10, <1>11 DEF key
  <2>2. CASE k # c
    <3>1. calls'[k] = calls[k]  BY <2>2, <1>9
    <3>2. user_key[u] = [call |-> k, ttl |-> calls[k].expires_in]
      BY <1>1, <1>17, <3>1 DEF Agree, BothReserved
    <3>3. user_key[u].call # c  BY <2>2, <3>2
    <3>4. u \notin Parties(c)  BY <1>12, <1>17, <3>3
    <3>5. u \in Users
      BY <3>1, <1>4, DirectCallAssumption DEF LiveCall, PartiesOf, Call
    <3>. QED  BY <1>10, <3>1, <3>2, <3>4, <3>5
  <2>. QED  BY <2>1, <2>2
<1>18. Punctual => \A u \in group_key : user_key'[u] = None
  BY <1>1, <1>10, <1>12 DEF RestOK, GroupUsersFree
<1>19. \A k \in CallIds : Live(k)' => calls'[k] = calls[k] \/ calls'[k].expires_in > 0
  BY <1>6, <1>9, Lifetimes
<1>20. \A k \in CallIds \ issued : calls'[k] = None
  BY <1>1, <1>2, <1>3, <1>9 DEF RestOK
<1>. QED
  BY <1>1, <1>2, <1>8, <1>9, <1>13, <1>15, <1>16, <1>17, <1>18, <1>19, <1>20 DEF Agree, RestOK

\* The commands of a ringing or active call.
LEMMA AnsweringStep ==
    ASSUME IInv, NEW s \in Sockets, Answering(s)
    PROVE  IInv'
<1>1. Agree(calls, user_key, device_key) /\ RestOK  BY Split
<1>2. ASSUME NEW c \in CallIds, AcceptReadsClock(s, c)  PROVE IInv'
  <2>. DEFINE cmd == [op |-> "accept", call |-> c, in_time |-> calls[c].expires_in > 0]
  <2>1. command' = [command EXCEPT ![s] = cmd] /\ calls[c] # None
    BY <1>2 DEF AcceptReadsClock, Live
  <2>2. cmd \in Command  BY DEF Command
  <2>3. command' \in [Sockets -> Command \cup {None}]  BY <1>1, <2>1, <2>2 DEF RestOK
  <2>4. ASSUME NEW t \in Sockets
        PROVE  \/ command'[t] = command[t]
               \/ /\ calls[command'[t].call] # None
                  /\ command'[t].in_time = (calls[command'[t].call].expires_in > 0)
    <3>1. CASE t = s
      <4>1. command'[t] = cmd  BY <1>1, <2>1, <3>1 DEF RestOK
      <4>2. command'[t].call = c  BY <4>1
      <4>3. command'[t].in_time = (calls[c].expires_in > 0)  BY <4>1
      <4>. QED  BY <2>1, <4>2, <4>3
    <3>2. CASE t # s  BY <1>1, <2>1, <3>2 DEF RestOK
    <3>. QED  BY <3>1, <3>2
  <2>5. UNCHANGED <<calls, user_key, device_key, expirations, issued, admission, group_key,
                    phase, cleanup, online>>
    BY <1>2 DEF AcceptReadsClock, store, sockets
  <2>. QED  BY <1>1, <2>3, <2>4, <2>5, QuietStep DEF RestOK
<1>3. ASSUME NEW c \in CallIds, Decline(s, c) \/ Cancel(s, c) \/ End(s, c)  PROVE IInv'
  <2>1. Live(c) /\ Write(Ended({c})) /\ UNCHANGED <<issued, admission, group_key, sockets, command>>
    BY <1>3 DEF Decline, Cancel, End, MayEnd
  <2>2. Ended({c}).expirations \subseteq expirations  BY DEF Ended
  <2>. QED  BY <1>1, <2>1, <2>2, EndingStep DEF Live, Write, RestOK, sockets
<1>4. CASE AcceptScript(s)
  <2>1. /\ In(s, "accept") /\ command' = [command EXCEPT ![s] = None]
        /\ UNCHANGED <<issued, admission, group_key, phase, cleanup, online>>
    BY <1>4 DEF AcceptScript, sockets
  <2>2. /\ command' \in [Sockets -> Command \cup {None}]
        /\ \A t \in Sockets : In(t, "accept")' => command'[t] = command[t]
    BY <1>1, <2>1 DEF RestOK, In
  <2>3. CASE UNCHANGED store
    <3>1. UNCHANGED <<calls, user_key, device_key, expirations>>  BY <2>3 DEF store
    <3>. QED  BY <1>1, <2>1, <2>2, <3>1, QuietStep DEF RestOK
  <2>4. CASE Acceptable(s, command[s].call)
    <3>1. /\ Agree(calls', user_key', device_key')
          /\ \A k \in CallIds : Live(k)' => calls'[k] = calls[k] \/ calls'[k].expires_in > 0
          /\ Punctual => \A u \in group_key : user_key'[u] = None
          /\ expirations' \subseteq CallIds
          /\ \A k \in CallIds \ issued : calls'[k] = None
      BY <1>4, <2>1, <2>4, AcceptAgrees
    <3>2. ASSUME Punctual  PROVE AcceptsInTime'
      <4>. SUFFICES ASSUME NEW t \in Sockets, In(t, "accept")',
                           command'[t].in_time, Live(command[t].call)'
                    PROVE  Holding(command[t].call)'
        BY DEF AcceptsInTime
      <4>1. command'[t] = command[t] /\ In(t, "accept")  BY <2>2 DEF In
      <4>2. command[t].call \in CallIds  BY <1>1, <4>1, CommandFields DEF RestOK
      <4>. QED  BY <1>1, <3>1, <3>2, <4>1, <4>2 DEF RestOK, AcceptsInTime, Live, Holding
    <3>3. Punctual => GroupUsersFree'  BY <2>1, <3>1 DEF GroupUsersFree
    <3>4. RestOK'  BY <1>1, <2>1, <2>2, <3>1, <3>2, <3>3 DEF RestOK
    <3>. QED  BY <3>1, <3>4, SplitNext
  <2>. QED  BY <1>4, <2>3, <2>4 DEF AcceptScript
<1>. QED  BY <1>2, <1>3, <1>4 DEF Answering

\* Connecting, Hub.Remove and what follows a replica's death.
LEMMA ConnectionStep ==
    ASSUME IInv, NEW s \in Sockets, Connection(s)
    PROVE  IInv'
<1>1. Agree(calls, user_key, device_key) /\ RestOK  BY Split
<1>2. CASE Connect(s) \/ Remove(s) \/ GetDeviceKey(s) \/ GetUserKey(s)
              \/ CleanupFails(s) \/ LeaseLapses(s)
  <2>1. /\ UNCHANGED <<calls, user_key, device_key, expirations, issued, admission, group_key,
                       command>>
        /\ online' \subseteq Sockets
    BY <1>1, <1>2
       DEF Connect, Remove, GetDeviceKey, GetUserKey, CleanupFails, LeaseLapses, RestOK, store
  <2>2. RemovalsTyped(phase', cleanup')
    <3>1. /\ device_key[SocketDevice[s]] \in Key \cup {None}
          /\ user_key[SocketUser[s]] \in Key \cup {None}
      BY <1>1, DirectCallAssumption DEF Agree, StoreTypes
    <3>2. \A key \in Key \cup {None} : Named(key) \in CallIds \cup {None}  BY DEF Named, Key
    <3>3. RemovalsTyped(phase, cleanup)  BY <1>1 DEF RestOK
    <3>4. issued \in SUBSET CallIds  BY <1>1 DEF RestOK
    <3>5. CASE Connect(s) \/ Remove(s) \/ LeaseLapses(s)
      BY <3>3, <3>5 DEF Connect, Remove, LeaseLapses, RemovalsTyped, Phases
    <3>6. CASE GetDeviceKey(s)
      BY <3>1, <3>2, <3>3, <3>6 DEF GetDeviceKey, RemovalsTyped, Phases, Cleanup, NoCleanup
    <3>7. CASE GetUserKey(s)
      BY <3>1, <3>2, <3>3, <3>4, <3>7 DEF GetUserKey, RemovalsTyped, Phases, Cleanup, NoCleanup
    <3>8. CASE CleanupFails(s)
      BY <3>3, <3>8 DEF CleanupFails, RemovalsTyped, Phases, Cleanup, NoCleanup
    <3>. QED  BY <1>2, <3>5, <3>6, <3>7, <3>8
  <2>. QED  BY <1>1, <2>1, <2>2, QuietStep DEF RestOK
<1>3. CASE Crash(s)
  <2>1. /\ UNCHANGED <<calls, user_key, device_key, expirations, issued, admission, group_key,
                       online>>
        /\ command' \in [Sockets -> Command \cup {None}]
        /\ \A t \in Sockets : In(t, "accept")' => command'[t] = command[t]
    BY <1>1, <1>3 DEF Crash, RestOK, store, In
  <2>2. RemovalsTyped(phase', cleanup')
    BY <1>1, <1>3 DEF Crash, RestOK, RemovalsTyped, Phases
  <2>. QED  BY <1>1, <2>1, <2>2, QuietStep DEF RestOK
<1>4. ASSUME NEW c \in CallIds, EndNamed(s, c),
             UNCHANGED <<issued, admission, group_key, online, command>>,
             RemovalsTyped(phase', cleanup')
      PROVE  IInv'
  <2>1. CASE UNCHANGED store
    <3>1. UNCHANGED <<calls, user_key, device_key, expirations>>  BY <2>1 DEF store
    <3>. QED  BY <1>1, <1>4, <3>1, QuietStep DEF RestOK
  <2>2. CASE MayEnd(s, c) /\ Write(Ended({c}))
    <3>1. calls[c] # None  BY <2>2 DEF MayEnd, Live
    <3>2. Ended({c}).expirations \subseteq expirations  BY DEF Ended
    <3>. QED  BY <1>4, <2>2, <3>1, <3>2, EndingStep DEF Write
  <2>. QED  BY <1>4, <2>1, <2>2 DEF EndNamed
<1>5. CASE EndDeviceCall(s)
  <2>1. cleanup[s].device \in CallIds  BY <1>1, <1>5 DEF EndDeviceCall, RestOK, RemovalsTyped
  <2>2. RemovalsTyped(phase', cleanup')
    BY <1>1, <1>5 DEF EndDeviceCall, RestOK, RemovalsTyped, Phases
  <2>. QED  BY <1>4, <1>5, <2>1, <2>2 DEF EndDeviceCall
<1>6. CASE EndUserCall(s)
  <2>1. cleanup[s].user \in CallIds  BY <1>1, <1>6 DEF EndUserCall, RestOK, RemovalsTyped
  <2>2. RemovalsTyped(phase', cleanup')
    BY <1>1, <1>6 DEF EndUserCall, RestOK, RemovalsTyped, Phases, Cleanup, NoCleanup
  <2>. QED  BY <1>4, <1>6, <2>1, <2>2 DEF EndUserCall
<1>. QED  BY <1>2, <1>3, <1>5, <1>6 DEF Connection

LEMMA GroupStep ==
    ASSUME IInv, NEW u \in Users, GroupReserve(u) \/ GroupRelease(u)
    PROVE  IInv'
<1>1. RestOK  BY Split
<1>2. /\ UNCHANGED <<calls, user_key, device_key, expirations, issued, admission, phase, cleanup, online,
                     command>>
      /\ group_key' \subseteq Users
      /\ \A v \in group_key' : user_key[v] = None \/ v \in group_key
  BY <1>1 DEF GroupReserve, GroupRelease, store, sockets, RestOK
<1>. QED  BY <1>1, <1>2, QuietStep DEF RestOK

LEMMA ExpireStep ==
    ASSUME IInv, ExpireCalls
    PROVE  IInv'
<1>1. RestOK  BY Split
<1>. DEFINE due == {c \in expirations : calls[c] = None \/ calls[c].expires_in = 0}
            E == {c \in due : calls[c] # None}
            new == [Ended(E) EXCEPT !.expirations = expirations \ due]
<1>2. E \in SUBSET CallIds /\ \A c \in E : calls[c] # None  BY <1>1 DEF RestOK
<1>3. Write(new) /\ UNCHANGED <<issued, admission, group_key, sockets, command>>
  BY DEF ExpireCalls
<1>4. /\ new.calls = Ended(E).calls /\ new.user_key = Ended(E).user_key
      /\ new.device_key = Ended(E).device_key /\ new.expirations = expirations \ due
  BY DEF Ended
<1>. HIDE DEF new, E
<1>. QED  BY <1>1, <1>2, <1>3, <1>4, EndingStep DEF Write, RestOK, sockets

\* One second passes: keys lapse before the calls they name.
LEMMA TickStep ==
    ASSUME IInv, Tick
    PROVE  IInv'
<1>1. Agree(calls, user_key, device_key) /\ RestOK  BY Split
<1>2. /\ calls \in [CallIds -> Call \cup {None}]
      /\ user_key \in [Users -> Key \cup {None}]
      /\ device_key \in [Devices -> Key \cup {None}]
  BY <1>1 DEF Agree, StoreTypes
<1>3. /\ calls' = [c \in CallIds |->
                     IF calls[c] = None \/ calls[c].ttl = 1 THEN None
                     ELSE [calls[c] EXCEPT !.ttl = @ - 1,
                                           !.expires_in = IF @ = 0 THEN 0 ELSE @ - 1]]
      /\ user_key' = [u \in Users |-> Lapse(user_key[u])]
      /\ device_key' = [d \in Devices |-> Lapse(device_key[d])]
      /\ admission' = [u \in Users |-> Lapse(admission[u])]
      /\ UNCHANGED <<expirations, issued, group_key, phase, cleanup, online, command>>
  BY DEF Tick, sockets
\* What is left of a call.
<1>4. ASSUME NEW c \in CallIds, calls[c] # None, calls[c].ttl # 1
      PROVE  /\ calls'[c] \in Call /\ calls'[c] # None
             /\ calls'[c].caller = calls[c].caller /\ calls'[c].recipient = calls[c].recipient
             /\ calls'[c].accepted = calls[c].accepted /\ calls'[c].status = calls[c].status
             /\ calls'[c].ttl = calls[c].ttl - 1
             /\ calls'[c].expires_in =
                   IF calls[c].expires_in = 0 THEN 0 ELSE calls[c].expires_in - 1
  <2>. DEFINE r == calls[c]
              r1 == [r EXCEPT !.ttl = @ - 1]
              r2 == [r1 EXCEPT !.expires_in = IF @ = 0 THEN 0 ELSE @ - 1]
  <2>1. calls'[c] = r2  BY <1>3, <1>4
  <2>2. r \in Call /\ r.ttl \in 2 .. ActiveTTL  BY <1>2, <1>4 DEF Call
  <2>. HIDE DEF r
  <2>3. /\ r1 \in Call /\ r1.caller = r.caller /\ r1.recipient = r.recipient
        /\ r1.accepted = r.accepted /\ r1.status = r.status
        /\ r1.ttl = r.ttl - 1 /\ r1.expires_in = r.expires_in
    <3>1. r.ttl - 1 \in 1 .. ActiveTTL  BY <2>2, Lifetimes
    <3>. QED  BY <2>2, <3>1 DEF Call
  <2>. HIDE DEF r1
  <2>4. /\ r2 \in Call /\ r2.caller = r.caller /\ r2.recipient = r.recipient
        /\ r2.accepted = r.accepted /\ r2.status = r.status /\ r2.ttl = r.ttl - 1
        /\ r2.expires_in = IF r.expires_in = 0 THEN 0 ELSE r.expires_in - 1
    <3>1. r1.expires_in \in 0 .. ActiveTTL  BY <2>3 DEF Call
    <3>2. (IF r1.expires_in = 0 THEN 0 ELSE r1.expires_in - 1) \in 0 .. ActiveTTL
      BY <3>1, Lifetimes
    <3>. QED  BY <2>3, <3>2 DEF Call
  <2>. HIDE DEF r2
  <2>. QED  BY <2>1, <2>4, DirectCallAssumption DEF r
<1>5. \A c \in CallIds : calls[c] = None \/ calls[c].ttl = 1 => calls'[c] = None
  BY <1>3
\* What is left of a key.
<1>6. ASSUME NEW key \in Key \cup {None}
      PROVE  /\ Lapse(key) \in Key \cup {None}
             /\ Lapse(key) # None => /\ key # None /\ Lapse(key).call = key.call
                                     /\ Lapse(key).ttl = key.ttl - 1
                                     /\ key.ttl \in 2 .. ActiveTTL
             /\ key # None /\ key.ttl # 1 => Lapse(key) = [call |-> key.call, ttl |-> key.ttl - 1]
  <2>1. CASE key = None \/ key.ttl = 1  BY <2>1, DirectCallAssumption DEF Lapse
  <2>2. CASE ~ (key = None \/ key.ttl = 1)
    <3>1. key.call \in CallIds /\ key.ttl \in 2 .. ActiveTTL  BY <2>2 DEF Key
    <3>2. key.ttl - 1 \in 1 .. ActiveTTL  BY <3>1, Lifetimes
    <3>3. Lapse(key) = [call |-> key.call, ttl |-> key.ttl - 1]  BY <2>2 DEF Lapse, Key
    <3>. QED  BY <2>2, <3>1, <3>2, <3>3 DEF Key
  <2>. QED  BY <2>1, <2>2
<1>7. /\ \A u \in Users : user_key'[u] = Lapse(user_key[u])
      /\ \A d \in Devices : device_key'[d] = Lapse(device_key[d])
  BY <1>3
<1>8. calls' \in [CallIds -> Call \cup {None}]
  <2>1. \A c \in CallIds : calls'[c] \in Call \cup {None}  BY <1>4, <1>5
  <2>2. calls' = [c \in CallIds |-> calls'[c]]  BY <1>3
  <2>. QED  BY <2>1, <2>2
<1>9. StoreTypes(calls', user_key', device_key')
  BY <1>2, <1>3, <1>6, <1>8 DEF StoreTypes
<1>10. RingingUnanswered(calls')
  BY <1>1, <1>4, <1>5 DEF Agree, RingingUnanswered
<1>11. UserKeysLive(calls', user_key')
  <2>. SUFFICES ASSUME NEW u \in Users, user_key'[u] # None
                PROVE  /\ LiveCall(calls'[user_key'[u].call])
                       /\ u \in PartiesOf(calls'[user_key'[u].call])
                       /\ user_key'[u].ttl <= calls'[user_key'[u].call].ttl
    BY DEF UserKeysLive
  <2>1. /\ user_key[u] # None /\ user_key[u] \in Key
        /\ user_key'[u].call = user_key[u].call
        /\ user_key'[u].ttl = user_key[u].ttl - 1 /\ user_key[u].ttl \in 2 .. ActiveTTL
    BY <1>2, <1>6, <1>7
  <2>. DEFINE c == user_key[u].call
  <2>2. /\ c \in CallIds /\ LiveCall(calls[c]) /\ u \in PartiesOf(calls[c])
        /\ user_key[u].ttl <= calls[c].ttl
    BY <1>1, <2>1 DEF Agree, UserKeysLive, Key
  <2>. HIDE DEF c
  <2>3. calls[c].ttl \in 1 .. ActiveTTL  BY <1>2, <2>2 DEF LiveCall, Call
  <2>4. calls[c].ttl # 1  BY <2>1, <2>2, <2>3
  <2>5. LiveCall(calls'[c]) /\ u \in PartiesOf(calls'[c]) /\ calls'[c].ttl = calls[c].ttl - 1
    BY <1>4, <2>2, <2>4 DEF LiveCall, PartiesOf
  <2>6. user_key[u].ttl - 1 <= calls[c].ttl - 1  BY <2>1, <2>2, <2>3
  <2>. QED  BY <2>1, <2>5, <2>6 DEF c
<1>12. DeviceKeysLive(calls', device_key')
  <2>. SUFFICES ASSUME NEW d \in Devices, device_key'[d] # None
                PROVE  /\ LiveCall(calls'[device_key'[d].call])
                       /\ d \in DevicesOf(calls'[device_key'[d].call])
                       /\ device_key'[d].ttl <= calls'[device_key'[d].call].ttl
    BY DEF DeviceKeysLive
  <2>1. /\ device_key[d] # None /\ device_key[d] \in Key
        /\ device_key'[d].call = device_key[d].call
        /\ device_key'[d].ttl = device_key[d].ttl - 1 /\ device_key[d].ttl \in 2 .. ActiveTTL
    BY <1>2, <1>6, <1>7
  <2>. DEFINE c == device_key[d].call
  <2>2. /\ c \in CallIds /\ LiveCall(calls[c]) /\ d \in DevicesOf(calls[c])
        /\ device_key[d].ttl <= calls[c].ttl
    BY <1>1, <2>1 DEF Agree, DeviceKeysLive, Key
  <2>. HIDE DEF c
  <2>3. calls[c].ttl \in 1 .. ActiveTTL  BY <1>2, <2>2 DEF LiveCall, Call
  <2>4. calls[c].ttl # 1  BY <2>1, <2>2, <2>3
  <2>5. LiveCall(calls'[c]) /\ d \in DevicesOf(calls'[c]) /\ calls'[c].ttl = calls[c].ttl - 1
    BY <1>4, <2>2, <2>4 DEF LiveCall, DevicesOf
  <2>6. device_key[d].ttl - 1 <= calls[c].ttl - 1  BY <2>1, <2>2, <2>3
  <2>. QED  BY <2>1, <2>5, <2>6 DEF c
<1>13. ASSUME Punctual  PROVE BothReserved(calls', user_key')
  <2>. SUFFICES ASSUME NEW c \in CallIds, LiveCall(calls'[c]), calls'[c].expires_in > 0,
                       NEW u \in PartiesOf(calls'[c])
                PROVE  user_key'[u] = [call |-> c, ttl |-> calls'[c].expires_in]
    BY DEF BothReserved
  <2>1. calls[c] # None /\ calls[c].ttl # 1  BY <1>5 DEF LiveCall
  <2>2. calls[c] \in Call  BY <1>2, <2>1
  <2>3. /\ calls[c].expires_in \in 2 .. ActiveTTL
        /\ calls'[c].expires_in = calls[c].expires_in - 1
    <3>1. calls[c].expires_in \in 0 .. ActiveTTL  BY <2>2 DEF Call
    <3>. QED  BY <1>4, <2>1, <3>1
  <2>4. user_key[u] = [call |-> c, ttl |-> calls[c].expires_in]
    BY <1>1, <1>4, <1>13, <2>1, <2>3 DEF Agree, BothReserved, LiveCall, PartiesOf
  <2>5. user_key[u] \in Key  BY <2>3, <2>4 DEF Key
  <2>6. u \in Users
    BY <1>4, <2>1, <2>2, DirectCallAssumption DEF PartiesOf, Call
  <2>7. user_key[u] # None /\ user_key[u].ttl # 1 /\ user_key[u].call = c
        /\ user_key[u].ttl = calls[c].expires_in
    BY <2>3, <2>4, <2>5, DirectCallAssumption
  <2>. QED  BY <1>6, <1>7, <2>3, <2>5, <2>6, <2>7
<1>14. admission' \in [Users -> Token \cup {None}]
  <2>. SUFFICES ASSUME NEW key \in Token \cup {None}  PROVE Lapse(key) \in Token \cup {None}
    BY <1>1, <1>3 DEF RestOK
  <2>1. CASE key = None \/ key.ttl = 1  BY <2>1 DEF Lapse
  <2>2. CASE ~ (key = None \/ key.ttl = 1)
    <3>1. key.holder \in Sockets /\ key.ttl \in 2 .. AdmissionTTL  BY <2>2 DEF Token
    <3>2. key.ttl - 1 \in 1 .. AdmissionTTL  BY <3>1, DirectCallAssumption
    <3>3. Lapse(key) = [key EXCEPT !.ttl = @ - 1]  BY <2>2 DEF Lapse
    <3>. QED  BY <2>2, <3>2, <3>3 DEF Token
  <2>. QED  BY <2>1, <2>2
<1>15. ASSUME Punctual  PROVE AcceptsInTime' /\ GroupUsersFree'
  <2>1. \A s \in Sockets : ~ In(s, "accept")'  BY <1>3, <1>15 DEF Tick, In
  <2>2. \A u \in group_key : user_key[u] = None  BY <1>1, <1>15 DEF RestOK, GroupUsersFree
  <2>3. Lapse(None) = None  BY DEF Lapse
  <2>. QED  BY <1>1, <1>3, <1>7, <2>1, <2>2, <2>3 DEF AcceptsInTime, GroupUsersFree, RestOK
<1>16. \A c \in CallIds \ issued : calls'[c] = None  BY <1>1, <1>5 DEF RestOK
<1>17. RestOK'  BY <1>1, <1>3, <1>14, <1>15, <1>16 DEF RestOK
<1>. QED
  BY <1>9, <1>10, <1>11, <1>12, <1>13, <1>17, SplitNext DEF Agree

-----------------------------------------------------------------------------
(* Theorems.                                                               *)

LEMMA Inductive == IInv /\ [Next]_vars => IInv'
<1>. SUFFICES ASSUME IInv, [Next]_vars  PROVE IInv'  OBVIOUS
<1>1. CASE UNCHANGED vars
  <2>1. Agree(calls, user_key, device_key) /\ RestOK  BY Split
  <2>2. UNCHANGED <<calls, user_key, device_key, expirations, issued, admission, group_key, phase,
                    cleanup, online, command>>
    BY <1>1 DEF vars, store, sockets
  <2>. QED  BY <2>1, <2>2, QuietStep DEF RestOK
<1>2. CASE Next
  BY <1>2, StartingStep, AnsweringStep, ConnectionStep, GroupStep, TickStep, ExpireStep DEF Next
<1>. QED  BY <1>1, <1>2

\* The keys and the calls agree in every state: see IInv (the call scripts of calls.go).
THEOREM Invariance == Spec => []IInv
BY Initially, Inductive, PTL DEF Spec

\* Every value keeps the type the store and the hub give it.
THEOREM TypeCorrect == Spec => []TypeOK
<1>1. IInv => TypeOK  BY DEF IInv
<1>. QED  BY <1>1, Invariance, PTL

\* A reservation key never names a call that is over, or one its owner has no part in.
THEOREM ReservationsAreLive == Spec => []ReservationIsLive
<1>1. IInv => ReservationIsLive  BY DEF IInv
<1>. QED  BY <1>1, Invariance, PTL

\* Where accepts are punctual, nobody is in two calls, direct or group.
THEOREM NobodyDoubleBooked == Punctual => (Spec => []NoDoubleBooking)
<1>. SUFFICES ASSUME Punctual  PROVE Spec => []NoDoubleBooking  OBVIOUS
<1>1. IInv => NoDoubleBooking
  <2>. SUFFICES ASSUME IInv, NEW u \in Users
                PROVE  LET booked == {c \in CallIds : Holding(c) /\ u \in Parties(c)}
                       IN  Cardinality(booked) <= 1 /\ (u \in group_key => booked = {})
    BY DEF NoDoubleBooking
  <2>. DEFINE booked == {c \in CallIds : Holding(c) /\ u \in Parties(c)}
  <2>1. TypeOK /\ PartiesReserved /\ GroupUsersFree  BY DEF IInv
  <2>2. ASSUME NEW c \in booked
        PROVE  user_key[u] # None /\ user_key[u].call = c
    <3>1. user_key[u] = [call |-> c, ttl |-> calls[c].expires_in]
      BY <2>1 DEF PartiesReserved
    <3>2. calls[c].expires_in \in 1 .. ActiveTTL
      BY <2>1 DEF TypeOK, Holding, Live, Call
    <3>3. user_key[u] \in Key  BY <3>1, <3>2 DEF Key
    <3>. QED  BY <3>1, <3>3, DirectCallAssumption
  <2>3. \A c, d \in booked : c = d  BY <2>2
  <2>4. booked = {} \/ \E c : booked = {c}
    <3>1. ASSUME NEW c \in booked  PROVE booked = {c}  BY <2>3
    <3>. QED  BY <3>1
  <2>5. u \in group_key => booked = {}
    BY <2>1, <2>2 DEF GroupUsersFree
  <2>. HIDE DEF booked
  <2>6. Cardinality(booked) <= 1
    <3>1. Cardinality(booked) = 0 \/ Cardinality(booked) = 1
      BY <2>4, FS_EmptySet, FS_Singleton
    <3>. QED  BY <3>1
  <2>. QED  BY <2>5, <2>6 DEF booked
<1>. QED  BY <1>1, Invariance, PTL

\* What an ending script, alone or before a reservation, leaves of the calls.
LEMMA EndedKept ==
    ASSUME IInv, NEW E \in SUBSET CallIds, \A c \in E : calls[c] # None,
           calls' = Ended(E).calls
    PROVE  \A c \in CallIds :
              \/ calls'[c] = calls[c]
              \/ /\ calls[c] # None /\ SameCall(calls'[c], calls[c])
                 /\ calls'[c].status = "ended"
<1>1. Agree(calls, user_key, device_key)  BY Split
<1>. QED  BY <1>1, EndedStore

\* What a step makes of a call: it draws a fresh one, that nobody has accepted; it
\* keeps the parties of an old one, and an ended one ended; only an accept script in
\* flight for a ringing call binds it to a socket, or lets it hold its users for longer.
CallStep(c) ==
    calls'[c] # None =>
        \/ /\ calls[c] = None /\ c \notin issued /\ calls'[c].accepted = None
           /\ \E s \in Sockets : /\ In(s, "start") /\ calls'[c].caller = s
                                 /\ calls'[c].recipient = command[s].peer
        \/ /\ calls[c] # None
           /\ calls'[c].caller = calls[c].caller /\ calls'[c].recipient = calls[c].recipient
           /\ calls[c].status = "ended" => calls'[c].status = "ended"
           /\ \/ /\ calls'[c].accepted = calls[c].accepted
                 /\ calls'[c].status # "ended" /\ calls'[c].expires_in > 0 =>
                       calls[c].expires_in > 0
              \/ \E s \in Sockets : /\ In(s, "accept") /\ command[s].call = c
                                    /\ command[s].in_time
                                    /\ calls[c].status = "ringing" /\ calls[c].accepted = None
                                    /\ calls'[c].accepted = s

LEMMA CallsKept ==
    ASSUME IInv, [Next]_vars
    PROVE  \A c \in CallIds : CallStep(c)
<1>. DEFINE Kept == \A c \in CallIds : CallStep(c)
<1>. SUFFICES Kept  OBVIOUS
<1>1. Agree(calls, user_key, device_key) /\ RestOK  BY Split
<1>2. calls \in [CallIds -> Call \cup {None}]  BY <1>1 DEF Agree, StoreTypes
<1>3. CASE UNCHANGED calls  BY <1>3 DEF CallStep
<1>4. ASSUME NEW E \in SUBSET CallIds, \A c \in E : calls[c] # None, calls' = Ended(E).calls
      PROVE  Kept
  BY <1>4, EndedKept DEF CallStep, SameCall
<1>5. ASSUME NEW s \in Sockets, StartScript(s)  PROVE Kept
  <2>. DEFINE caller == SocketUser[s]
              recipient == command[s].peer
              rec == Recovered(caller, recipient)
  <2>1. caller \in Users /\ recipient \in Users
    BY <1>1, <1>5, CommandFields, DirectCallAssumption DEF StartScript, RestOK
  <2>2. /\ \A c \in CallIds : \/ rec.calls[c] = calls[c]
                              \/ /\ calls[c] # None /\ rec.calls[c] # None
                                 /\ rec.calls[c].status = "ended"
                                 /\ SameCall(rec.calls[c], calls[c])
        /\ rec.calls \in [CallIds -> Call \cup {None}]
    BY <1>1, <2>1, RecoveredAgrees DEF Agree, StoreTypes
  <2>. HIDE DEF rec
  <2>3. CASE Write(rec)  BY <2>2, <2>3 DEF Write, CallStep, SameCall
  <2>4. ASSUME NEW c \in CallIds \ issued, Write(Reserved(rec, c, s, recipient))  PROVE Kept
    <3>1. /\ calls[c] = None /\ calls'[c].accepted = None
          /\ calls'[c].caller = s /\ calls'[c].recipient = recipient /\ In(s, "start")
      BY <1>1, <1>5, <2>2, <2>4 DEF RestOK, Write, Reserved, StartScript
    <3>2. \A k \in CallIds \ {c} : calls'[k] = rec.calls[k]
      BY <2>2, <2>4 DEF Write, Reserved
    <3>. QED  BY <2>2, <2>4, <3>1, <3>2 DEF CallStep, SameCall
  <2>. QED  BY <1>3, <1>5, <2>3, <2>4 DEF StartScript, store, rec
<1>6. ASSUME NEW s \in Sockets, AcceptScript(s), Acceptable(s, command[s].call)  PROVE Kept
  <2>. DEFINE c == command[s].call
              new == [calls[c] EXCEPT !.accepted = s, !.status = "active",
                                      !.expires_in = ActiveTTL, !.ttl = ActiveTTL]
  <2>1. c \in CallIds  BY <1>1, <1>6, CommandFields DEF AcceptScript, RestOK
  <2>2. /\ calls[c] # None /\ calls[c].status = "ringing" /\ calls[c].accepted = None
        /\ calls[c] \in Call
    BY <1>1, <1>2, <1>6, <2>1 DEF Acceptable, Live, Agree, RingingUnanswered
  <2>3. calls' = [calls EXCEPT ![c] = new]  BY <1>6 DEF AcceptScript
  <2>4. new.accepted = s /\ new.caller = calls[c].caller /\ new.recipient = calls[c].recipient
    BY <2>2 DEF Call
  <2>. HIDE DEF new
  <2>5. calls'[c] = new /\ \A k \in CallIds \ {c} : calls'[k] = calls[k]  BY <1>2, <2>1, <2>3
  <2>6. In(s, "accept") /\ command[s].in_time  BY <1>6 DEF AcceptScript, Acceptable
  <2>7. CallStep(c)  BY <2>2, <2>4, <2>5, <2>6 DEF CallStep
  <2>. QED  BY <2>5, <2>7 DEF CallStep
<1>7. ASSUME NEW s \in Sockets, Answering(s)  PROVE Kept
  <2>1. ASSUME NEW c \in CallIds, Decline(s, c) \/ Cancel(s, c) \/ End(s, c)  PROVE Kept
    <3>1. calls[c] # None /\ calls' = Ended({c}).calls
      BY <2>1 DEF Decline, Cancel, End, MayEnd, Live, Write
    <3>. HIDE DEF Kept
    <3>. QED  BY <1>4, <3>1
  <2>2. ASSUME NEW c \in CallIds, AcceptReadsClock(s, c)  PROVE Kept
    BY <1>3, <2>2 DEF AcceptReadsClock, store
  <2>3. CASE AcceptScript(s)  BY <1>3, <1>6, <2>3 DEF AcceptScript, store
  <2>. HIDE DEF Kept
  <2>. QED  BY <1>7, <2>1, <2>2, <2>3 DEF Answering
<1>8. ASSUME NEW s \in Sockets, Starting(s)  PROVE Kept
  BY <1>3, <1>5, <1>8 DEF Starting, StartAdmitted, StartFails, StartReleases, store
<1>9. ASSUME NEW s \in Sockets, Connection(s)  PROVE Kept
  <2>1. ASSUME NEW c \in CallIds, EndNamed(s, c)  PROVE Kept
    <3>1. CASE UNCHANGED store  BY <1>3, <3>1 DEF store
    <3>2. CASE calls[c] # None /\ calls' = Ended({c}).calls
      <4>. HIDE DEF Kept
      <4>. QED  BY <1>4, <3>2
    <3>. QED  BY <2>1, <3>1, <3>2 DEF EndNamed, MayEnd, Live, Write
  <2>2. /\ phase[s] = "end device" => cleanup[s].device \in CallIds
        /\ phase[s] = "end user" => cleanup[s].user \in CallIds
    BY <1>1 DEF RestOK, RemovalsTyped
  <2>. HIDE DEF Kept
  <2>. QED
    BY <1>3, <1>9, <2>1, <2>2
       DEF Connection, Connect, Remove, GetDeviceKey, EndDeviceCall, GetUserKey, EndUserCall,
           CleanupFails, Crash, LeaseLapses, store
<1>10. CASE Tick
  <2>. SUFFICES ASSUME NEW c \in CallIds, calls'[c] # None
                PROVE  /\ calls[c] # None /\ SameCall(calls'[c], calls[c])
                       /\ calls'[c].status = calls[c].status
                       /\ calls'[c].expires_in > 0 => calls[c].expires_in > 0
    BY DEF CallStep, SameCall
  <2>. DEFINE r == [calls[c] EXCEPT !.ttl = @ - 1]
  <2>1. calls[c] # None /\ calls'[c] = [r EXCEPT !.expires_in = IF @ = 0 THEN 0 ELSE @ - 1]
    BY <1>10 DEF Tick
  <2>2. calls[c] \in Call  BY <1>2, <2>1
  <2>3. /\ SameCall(r, calls[c]) /\ r.status = calls[c].status
        /\ r.expires_in = calls[c].expires_in
        /\ r \in [caller : Sockets, recipient : Users, accepted : Sockets \cup {None},
                  status : {"ringing", "active", "ended"}, expires_in : 0 .. ActiveTTL, ttl : Int]
    BY <2>2 DEF Call, SameCall
  <2>. HIDE DEF r
  <2>. QED  BY <2>1, <2>3 DEF SameCall
<1>11. CASE ExpireCalls
  <2>. DEFINE due == {c \in expirations : calls[c] = None \/ calls[c].expires_in = 0}
              E == {c \in due : calls[c] # None}
  <2>1. calls' = Ended(E).calls  BY <1>11 DEF ExpireCalls, Write, Ended
  <2>. QED  BY <1>1, <1>4, <2>1 DEF RestOK
<1>12. ASSUME NEW u \in Users, GroupReserve(u) \/ GroupRelease(u)  PROVE Kept
  BY <1>3, <1>12 DEF GroupReserve, GroupRelease, store
<1>13. CASE UNCHANGED vars  BY <1>3, <1>13 DEF vars, store
<1>. HIDE DEF Kept
<1>. QED  BY <1>7, <1>8, <1>9, <1>10, <1>11, <1>12, <1>13 DEF Next

\* One device wins a call, and a call that is over stays over.
THEOREM OneWinner == Spec => FirstAcceptWins
<1>1. IInv /\ [Next]_vars =>
        [\A c \in CallIds : calls[c] # None /\ calls'[c] # None =>
            /\ calls[c].accepted # None => calls'[c].accepted = calls[c].accepted
            /\ calls[c].status = "ended" => calls'[c].status = "ended"]_vars
  BY CallsKept DEF CallStep
<1>. QED  BY <1>1, Invariance, PTL DEF Spec, FirstAcceptWins

-----------------------------------------------------------------------------
(* Cleanup.                                                                *)

\* No step gives a call to a socket of another user.
LEMMA AcceptedStep ==
    ASSUME IInv, AcceptedByRecipient, [Next]_vars
    PROVE  AcceptedByRecipient'
<1>1. RestOK  BY Split
<1>2. ASSUME NEW c \in CallIds, calls'[c] # None, calls'[c].accepted # None
      PROVE  SocketUser[calls'[c].accepted] = calls'[c].recipient
  BY <1>2, CallsKept DEF CallStep, AcceptedByRecipient
<1>3. issued \subseteq issued'
  BY DEF Next, Starting, StartAdmitted, StartScript, StartFails, StartReleases, Answering,
         AcceptReadsClock, AcceptScript, Decline, Cancel, End, Connection, Connect, Remove,
         GetDeviceKey, EndDeviceCall, GetUserKey, EndUserCall, CleanupFails, Crash, LeaseLapses, GroupReserve, GroupRelease,
         Tick, ExpireCalls, vars
\* Every accept in flight was so before, or has just read the clock.
<1>4. ASSUME NEW s \in Sockets, In(s, "accept")'
      PROVE  \/ In(s, "accept") /\ command'[s] = command[s]
             \/ /\ command'[s].call \in CallIds /\ UNCHANGED <<calls, issued>>
                /\ calls[command'[s].call] # None
                /\ calls[command'[s].call].recipient = SocketUser[s]
  <2>1. command \in [Sockets -> Command \cup {None}]  BY <1>1 DEF RestOK
  <2>2. ASSUME NEW t \in Sockets, Starting(t)  PROVE In(s, "accept") /\ command'[s] = command[s]
    <3>1. CASE s # t
      BY <1>4, <2>1, <2>2, <3>1
         DEF Starting, StartAdmitted, StartScript, StartFails, StartReleases, In
    <3>2. CASE s = t
      <4>1. CASE StartScript(s) \/ StartFails(s)
        <5>1. In(s, "start") /\ command' = [command EXCEPT ![s].op = "release"]
          BY <4>1 DEF StartScript, StartFails
        <5>2. command[s] \in Command  BY <2>1, <5>1 DEF In
        <5>3. command'[s] = [command[s] EXCEPT !.op = "release"]  BY <2>1, <5>1
        <5>4. command'[s].op = "release"  BY <5>2, <5>3 DEF Command
        <5>. QED  BY <1>4, <5>4 DEF In
      <4>2. CASE StartReleases(s)  BY <1>4, <2>1, <4>2 DEF StartReleases, In
      <4>3. ASSUME NEW u \in Users, StartAdmitted(s, u)  PROVE FALSE
        <5>1. command'[s] = [op |-> "start", peer |-> u]  BY <2>1, <4>3 DEF StartAdmitted
        <5>. QED  BY <1>4, <5>1 DEF In
      <4>. QED  BY <2>2, <3>2, <4>1, <4>2, <4>3 DEF Starting
    <3>. QED  BY <3>1, <3>2
  <2>3. ASSUME NEW t \in Sockets, NEW c \in CallIds, AcceptReadsClock(t, c)
        PROVE  \/ In(s, "accept") /\ command'[s] = command[s]
               \/ /\ command'[s].call \in CallIds /\ UNCHANGED <<calls, issued>>
                  /\ calls[command'[s].call] # None
                  /\ calls[command'[s].call].recipient = SocketUser[s]
    BY <1>4, <2>1, <2>3 DEF AcceptReadsClock, In, Live, store
  <2>4. ASSUME NEW t \in Sockets, AcceptScript(t) \/ Crash(t)
        PROVE  In(s, "accept") /\ command'[s] = command[s]
    BY <1>4, <2>1, <2>4 DEF AcceptScript, Crash, In
  <2>5. CASE UNCHANGED command  BY <1>4, <2>5 DEF In
  <2>. QED
    BY <2>2, <2>3, <2>4, <2>5
       DEF Next, Answering, Decline, Cancel, End, Connection, Connect, Remove, GetDeviceKey,
           EndDeviceCall, GetUserKey, EndUserCall, CleanupFails, LeaseLapses, GroupReserve, GroupRelease, Tick, ExpireCalls,
           vars
<1>5. ASSUME NEW s \in Sockets, In(s, "accept")'
      PROVE  /\ command'[s].call \in issued'
             /\ calls'[command'[s].call] # None =>
                   calls'[command'[s].call].recipient = SocketUser[s]
  <2>1. CASE In(s, "accept") /\ command'[s] = command[s]
    <3>1. command[s].call \in CallIds  BY <1>1, <2>1, CommandFields DEF RestOK
    <3>2. command[s].call \in issued  BY <2>1 DEF AcceptedByRecipient
    <3>3. CallStep(command[s].call)  BY <3>1, CallsKept
    <3>. QED  BY <1>3, <2>1, <3>2, <3>3 DEF CallStep, AcceptedByRecipient
  <2>2. CASE /\ command'[s].call \in CallIds /\ UNCHANGED <<calls, issued>>
             /\ calls[command'[s].call] # None
             /\ calls[command'[s].call].recipient = SocketUser[s]
    BY <1>1, <2>2 DEF RestOK
  <2>. QED  BY <1>4, <1>5, <2>1, <2>2
<1>. QED  BY <1>2, <1>5 DEF AcceptedByRecipient

\* No step lets a user call themselves: the admission excludes it.
CallsOthers ==
    /\ \A c \in CallIds : calls[c] # None => SocketUser[calls[c].caller] # calls[c].recipient
    /\ \A s \in Sockets : In(s, "start") => command[s].peer # SocketUser[s]

LEMMA CallsOthersStep ==
    ASSUME IInv, CallsOthers, [Next]_vars
    PROVE  CallsOthers'
<1>1. command \in [Sockets -> Command \cup {None}]  BY Split DEF RestOK
<1>2. ASSUME NEW c \in CallIds, calls'[c] # None
      PROVE  SocketUser[calls'[c].caller] # calls'[c].recipient
  BY <1>2, CallsKept DEF CallStep, CallsOthers
<1>3. ASSUME NEW s \in Sockets, In(s, "start")'  PROVE command'[s].peer # SocketUser[s]
  <2>1. CASE command'[s] = command[s]  BY <1>3, <2>1 DEF CallsOthers, In
  <2>2. ASSUME NEW u \in Users, StartAdmitted(s, u)  PROVE command'[s].peer # SocketUser[s]
    BY <1>1, <2>2 DEF StartAdmitted
  <2>3. ASSUME NEW t \in Sockets, StartScript(t) \/ StartFails(t)
        PROVE  command'[s] = command[s]
    <3>1. In(t, "start") /\ command' = [command EXCEPT ![t].op = "release"]
      BY <2>3 DEF StartScript, StartFails
    <3>2. CASE s = t
      <4>1. command[s] \in Command  BY <1>1, <3>1, <3>2 DEF In
      <4>2. command'[s] = [command[s] EXCEPT !.op = "release"]  BY <1>1, <3>1, <3>2
      <4>3. command'[s].op = "release"  BY <4>1, <4>2 DEF Command
      <4>. QED  BY <1>3, <4>3 DEF In
    <3>. QED  BY <1>1, <3>1, <3>2
  <2>4. ASSUME NEW t \in Sockets, t # s,
               \/ \E u \in Users : StartAdmitted(t, u)
               \/ StartReleases(t) \/ AcceptScript(t) \/ Crash(t)
               \/ \E c \in CallIds : AcceptReadsClock(t, c)
        PROVE  command'[s] = command[s]
    BY <1>1, <2>4 DEF StartAdmitted, StartReleases, AcceptScript, Crash, AcceptReadsClock
  <2>5. ~ (StartReleases(s) \/ AcceptScript(s) \/ Crash(s))
    BY <1>1, <1>3 DEF StartReleases, AcceptScript, Crash, In
  <2>6. ASSUME NEW c \in CallIds, AcceptReadsClock(s, c)  PROVE FALSE
    <3>1. command'[s].op = "accept"  BY <1>1, <2>6 DEF AcceptReadsClock
    <3>. QED  BY <1>3, <3>1 DEF In
  <2>7. CASE UNCHANGED command  BY <2>1, <2>7
  <2>. QED
    BY <2>1, <2>2, <2>3, <2>4, <2>5, <2>6, <2>7
       DEF Next, Starting, Answering, Decline, Cancel, End, Connection, Connect, Remove,
           GetDeviceKey, EndDeviceCall, GetUserKey, EndUserCall, CleanupFails, LeaseLapses,
           GroupReserve, GroupRelease, Tick, ExpireCalls, vars
<1>. QED  BY <1>2, <1>3 DEF CallsOthers

\* What a step makes of a socket that is being removed.
RemovalStep(s) ==
    \/ phase'[s] = phase[s] /\ cleanup'[s] = cleanup[s]
    \/ GetDeviceKey(s) \/ EndDeviceCall(s) \/ GetUserKey(s) \/ EndUserCall(s)
    \/ phase'[s] \in {"open", "device", "lost"}

LEMMA RemovalSteps ==
    ASSUME IInv, [Next]_vars
    PROVE  \A s \in Sockets : RemovalStep(s)
<1>. SUFFICES ASSUME NEW s \in Sockets  PROVE RemovalStep(s)  OBVIOUS
<1>1. phase \in [Sockets -> Phases] /\ cleanup \in [Sockets -> Cleanup]
  BY Split DEF RestOK, RemovalsTyped
<1>2. ASSUME NEW t \in Sockets, Connection(t)  PROVE RemovalStep(s)
  BY <1>1, <1>2
     DEF Connection, Connect, Remove, GetDeviceKey, EndDeviceCall, GetUserKey, EndUserCall,
         CleanupFails, Crash, LeaseLapses, RemovalStep
<1>3. CASE UNCHANGED <<phase, cleanup>>  BY <1>3 DEF RemovalStep
<1>. QED
  BY <1>2, <1>3
     DEF Next, Starting, StartAdmitted, StartScript, StartFails, StartReleases, Answering,
         AcceptReadsClock, AcceptScript, Decline, Cancel, End, GroupReserve, GroupRelease,
         Tick, ExpireCalls, vars, sockets

\* A call that there was and that holds its users did so before.
LEMMA HoldingStep ==
    ASSUME Punctual, IInv, [Next]_vars, NEW c \in issued, Holding(c)'
    PROVE  /\ Holding(c)
           /\ calls'[c].caller = calls[c].caller /\ calls'[c].recipient = calls[c].recipient
<1>1. Agree(calls, user_key, device_key) /\ RestOK  BY Split
<1>2. c \in CallIds  BY <1>1 DEF RestOK
<1>3. CallStep(c) /\ calls'[c] # None  BY <1>2, CallsKept DEF Holding, Live
<1>4. ASSUME NEW s \in Sockets, In(s, "accept"), command[s].call = c, command[s].in_time, Live(c)
      PROVE  Holding(c)
  BY <1>1, <1>4 DEF RestOK, AcceptsInTime
<1>. QED  BY <1>3, <1>4 DEF CallStep, Holding, Live

BoundTo(s, c) == s \in {calls[c].caller, calls[c].accepted}

\* Socket s cannot accept the call: it has been accepted, or is offered to others.
NotOffered(s, c) ==
    calls[c] # None => calls[c].accepted # None \/ calls[c].recipient # SocketUser[s]

\* What Remove knows of the calls it has read: that of the device key is none the socket
\* could still accept, and is not bound to it any more once it was ended; and of all
\* calls there were when the user key was read, only the one it named can hold the user.
Removals ==
    \A s \in Sockets :
        /\ phase[s] \in {"end device", "user"} /\ cleanup[s].device # None =>
              cleanup[s].device \in issued /\ NotOffered(s, cleanup[s].device)
        /\ phase[s] = "user" /\ cleanup[s].device # None =>
              ~ (Live(cleanup[s].device) /\ BoundTo(s, cleanup[s].device))
        /\ phase[s] = "end user" =>
              /\ cleanup[s].issued \subseteq issued
              /\ \A c \in cleanup[s].issued :
                    Holding(c) /\ SocketUser[s] \in Parties(c) => c = cleanup[s].user

CleanupInv == AcceptedByRecipient /\ CallsOthers /\ Removals

\* The user's key names every call that holds the user.
LEMMA KeyNames ==
    ASSUME Punctual, IInv, NEW u \in Users, NEW c \in CallIds, Holding(c), u \in Parties(c)
    PROVE  Named(user_key[u]) = c
<1>1. Agree(calls, user_key, device_key)  BY Split
<1>2. user_key[u] = [call |-> c, ttl |-> calls[c].expires_in]  BY DEF IInv, PartiesReserved
<1>3. calls[c] \in Call  BY <1>1 DEF Agree, StoreTypes, Holding, Live
<1>4. user_key[u] \in Key  BY <1>2, <1>3 DEF Key, Call, Holding
<1>. QED  BY <1>2, <1>4, DirectCallAssumption DEF Named

LEMMA RemovalsStep ==
    ASSUME Punctual, IInv, CleanupInv, [Next]_vars
    PROVE  Removals'
<1>. SUFFICES ASSUME NEW s \in Sockets
     PROVE  (/\ phase[s] \in {"end device", "user"} /\ cleanup[s].device # None =>
                  cleanup[s].device \in issued /\ NotOffered(s, cleanup[s].device)
             /\ phase[s] = "user" /\ cleanup[s].device # None =>
                  ~ (Live(cleanup[s].device) /\ BoundTo(s, cleanup[s].device))
             /\ phase[s] = "end user" =>
                  /\ cleanup[s].issued \subseteq issued
                  /\ \A c \in cleanup[s].issued :
                        Holding(c) /\ SocketUser[s] \in Parties(c) => c = cleanup[s].user)'
  BY DEF Removals
<1>1. Agree(calls, user_key, device_key) /\ RestOK  BY Split
<1>2. /\ phase \in [Sockets -> Phases] /\ cleanup \in [Sockets -> Cleanup]
      /\ phase[s] = "end device" => cleanup[s].device \in CallIds
      /\ SocketUser[s] \in Users /\ SocketDevice[s] \in Devices /\ issued \subseteq CallIds
  BY <1>1, DirectCallAssumption DEF RestOK, RemovalsTyped
<1>3. issued \subseteq issued'
  BY DEF Next, Starting, StartAdmitted, StartScript, StartFails, StartReleases, Answering,
         AcceptReadsClock, AcceptScript, Decline, Cancel, End, Connection, Connect, Remove,
         GetDeviceKey, EndDeviceCall, GetUserKey, EndUserCall, CleanupFails, Crash, LeaseLapses,
         GroupReserve, GroupRelease, Tick, ExpireCalls, vars
<1>4. ASSUME NEW d \in issued, NotOffered(s, d)  PROVE NotOffered(s, d)'
  <2>1. CallStep(d)  BY <1>2, CallsKept
  <2>. QED  BY <1>4, <2>1, DirectCallAssumption DEF CallStep, NotOffered
<1>5. ASSUME NEW d \in issued, NotOffered(s, d), ~ (Live(d) /\ BoundTo(s, d))
      PROVE  ~ (Live(d) /\ BoundTo(s, d))'
  <2>1. CallStep(d)  BY <1>2, CallsKept
  <2>2. ASSUME In(s, "accept"), command[s].call = d, calls[d] # None
        PROVE  calls[d].accepted # None
    BY <1>5, <2>2 DEF CleanupInv, AcceptedByRecipient, NotOffered
  <2>. QED  BY <1>5, <2>1, <2>2 DEF CallStep, BoundTo, Live
<1>6. CASE phase'[s] = phase[s] /\ cleanup'[s] = cleanup[s]
  <2>1. ASSUME phase[s] = "end user", NEW c \in cleanup[s].issued,
               Holding(c)', (SocketUser[s] \in Parties(c))'
        PROVE  c = cleanup[s].user
    <3>1. c \in issued  BY <2>1 DEF CleanupInv, Removals
    <3>2. Holding(c) /\ SocketUser[s] \in Parties(c)
      BY <2>1, <3>1, HoldingStep DEF Parties, CallerOf
    <3>. QED  BY <2>1, <3>2 DEF CleanupInv, Removals
  <2>. QED  BY <1>3, <1>4, <1>5, <1>6, <2>1 DEF CleanupInv, Removals
<1>7. CASE GetDeviceKey(s)
  <2>. DEFINE c == Named(device_key[SocketDevice[s]])
  <2>1. /\ cleanup'[s].device = c /\ (c = None <=> phase'[s] = "user") /\ phase'[s] # "end user"
        /\ UNCHANGED <<calls, issued>>
    BY <1>2, <1>7 DEF GetDeviceKey, store, NoCleanup
  <2>2. ASSUME c # None  PROVE c \in issued /\ NotOffered(s, c)
    <3>1. device_key[SocketDevice[s]] # None /\ c = device_key[SocketDevice[s]].call
      BY <2>2 DEF Named
    <3>2. c \in CallIds  BY <1>1, <1>2, <3>1 DEF Agree, StoreTypes, Key
    <3>3. /\ LiveCall(calls[c]) /\ calls[c] \in Call
          /\ SocketDevice[s] \in DevicesOf(calls[c])
      BY <1>1, <1>2, <3>1, <3>2 DEF Agree, StoreTypes, DeviceKeysLive, LiveCall
    <3>4. c \in issued  BY <1>1, <3>2, <3>3 DEF RestOK, LiveCall
    <3>5. PICK t \in {calls[c].caller, calls[c].accepted} \ {None} :
            SocketDevice[s] = SocketDevice[t]
      BY <3>3 DEF DevicesOf
    <3>6. t \in Sockets  BY <3>3, <3>5 DEF Call
    <3>7. SocketUser[s] = SocketUser[t]  BY <3>5, <3>6, DirectCallAssumption
    <3>. QED  BY <3>2, <3>3, <3>4, <3>5, <3>7 DEF NotOffered, CleanupInv, CallsOthers, LiveCall
  <2>. HIDE DEF c
  <2>. QED  BY <2>1, <2>2 DEF NotOffered
<1>8. CASE EndDeviceCall(s)
  <2>. PICK d \in CallIds : d = cleanup[s].device  BY <1>2, <1>8 DEF EndDeviceCall
  <2>1. /\ phase[s] = "end device" /\ phase'[s] = "user" /\ cleanup'[s] = cleanup[s]
        /\ EndNamed(s, d) /\ issued' = issued
    BY <1>2, <1>8 DEF EndDeviceCall
  <2>2. d \in CallIds /\ d \in issued /\ NotOffered(s, d)
    BY <1>2, <2>1, DirectCallAssumption DEF CleanupInv, Removals
  <2>3. ~ (Live(d) /\ BoundTo(s, d))'
    <3>1. CASE MayEnd(s, d) /\ Write(Ended({d}))
      <4>1. calls[d] # None /\ calls' = Ended({d}).calls  BY <3>1 DEF MayEnd, Live, Write
      <4>2. calls'[d].status = "ended"
        <5>1. {d} \in SUBSET CallIds /\ \A k \in {d} : calls[k] # None  BY <2>2, <4>1
        <5>. QED  BY <1>1, <4>1, <5>1, EndedStore
      <4>. QED  BY <4>2 DEF Live
    <3>2. CASE ~MayEnd(s, d) /\ UNCHANGED store
      <4>1. ~ (Live(d) /\ BoundTo(s, d))  BY <3>2 DEF MayEnd, BoundTo
      <4>2. UNCHANGED calls  BY <3>2 DEF store
      <4>. QED  BY <4>1, <4>2 DEF Live, BoundTo
    <3>. QED  BY <2>1, <3>1, <3>2 DEF EndNamed
  <2>4. NotOffered(s, d)'  BY <1>4, <2>2
  <2>. QED  BY <2>1, <2>2, <2>3, <2>4
<1>9. CASE GetUserKey(s)
  <2>1. /\ phase'[s] \in {"cleaned", "end user"} /\ UNCHANGED <<calls, issued>>
        /\ phase'[s] = "end user" => /\ cleanup'[s].user = Named(user_key[SocketUser[s]])
                                     /\ cleanup'[s].issued = issued
    BY <1>2, <1>9 DEF GetUserKey, store, Cleanup
  <2>2. ASSUME NEW c \in issued, Holding(c), SocketUser[s] \in Parties(c)
        PROVE  Named(user_key[SocketUser[s]]) = c
    BY <1>2, <2>2, KeyNames
  <2>. QED  BY <2>1, <2>2 DEF Holding, Live, Parties, CallerOf
<1>10. CASE EndUserCall(s) \/ phase'[s] \in {"open", "device", "lost"}
  <2>1. phase'[s] \in {"cleaned", "open", "device", "lost"}  BY <1>2, <1>10 DEF EndUserCall
  <2>. QED  BY <2>1
<1>. QED  BY <1>6, <1>7, <1>8, <1>9, <1>10, RemovalSteps DEF RemovalStep

\* When the cleanup of a socket is through, no call there was when its user's key was read
\* holds its users and is bound to it: where accepts are punctual, the key names the one
\* call there can be. What is left out is a call that a start of the socket still under
\* way reserves later (calls.go:105, :120).
THEOREM CleanedUp == Punctual => (Spec => CleanupEndsCalls)
<1>. SUFFICES ASSUME Punctual  PROVE Spec => CleanupEndsCalls  OBVIOUS
<1>1. Init => CleanupInv
  BY DEF Init, CleanupInv, AcceptedByRecipient, CallsOthers, Removals, In
<1>2. IInv /\ CleanupInv /\ [Next]_vars => CleanupInv'
  BY AcceptedStep, CallsOthersStep, RemovalsStep DEF CleanupInv
<1>. DEFINE Clean ==
       \A s \in Sockets : Finished(s) =>
          \A c \in Asked(s) : Holding(c)' => s \notin {calls'[c].caller, calls'[c].accepted}
<1>3. IInv /\ CleanupInv /\ [Next]_vars => [Clean]_vars
  <2>. SUFFICES ASSUME IInv, CleanupInv, Next, NEW s \in Sockets, Finished(s),
                       NEW c \in Asked(s), Holding(c)', BoundTo(s, c)'
                PROVE  FALSE
    BY DEF BoundTo
  <2>1. Agree(calls, user_key, device_key) /\ RestOK  BY Split
  <2>2. /\ phase \in [Sockets -> Phases] /\ cleanup \in [Sockets -> Cleanup]
        /\ issued \subseteq CallIds /\ SocketUser[s] \in Users
        /\ phase[s] = "end user" => cleanup[s].user \in CallIds
    BY <2>1, DirectCallAssumption DEF RestOK, RemovalsTyped
  <2>3. (GetUserKey(s) /\ phase'[s] = "cleaned") \/ EndUserCall(s)
    BY <2>2, RemovalSteps DEF RemovalStep, Finished, GetDeviceKey, EndDeviceCall
  <2>4. c \in issued  BY <2>3 DEF Asked, GetUserKey, EndUserCall, CleanupInv, Removals
  <2>5. c \in CallIds /\ Holding(c)  BY <2>2, <2>4, HoldingStep
  \* A call bound to the socket is one of its user.
  <2>6. ASSUME BoundTo(s, c)  PROVE SocketUser[s] \in Parties(c)
    BY <2>5, <2>6, DirectCallAssumption
       DEF BoundTo, Parties, CallerOf, CleanupInv, AcceptedByRecipient, Holding, Live
  <2>7. CASE GetUserKey(s) /\ phase'[s] = "cleaned"
    <3>1. BoundTo(s, c)  BY <2>7 DEF GetUserKey, store, BoundTo
    <3>2. Named(user_key[SocketUser[s]]) = c  BY <2>2, <2>5, <2>6, <3>1, KeyNames
    <3>3. phase[s] = "user" /\ cleanup[s].device = c
      BY <2>2, <2>5, <2>7, <3>2, DirectCallAssumption DEF GetUserKey
    <3>. QED  BY <2>5, <3>1, <3>3, DirectCallAssumption DEF CleanupInv, Removals, Holding
  <2>8. CASE EndUserCall(s)
    <3>. DEFINE k == cleanup[s].user
    <3>1. k \in CallIds /\ EndNamed(s, k) /\ c \in cleanup[s].issued /\ phase[s] = "end user"
      BY <2>2, <2>8 DEF EndUserCall, Asked
    <3>. HIDE DEF k
    <3>2. ASSUME MayEnd(s, k), Write(Ended({k}))  PROVE c # k /\ calls'[c] = calls[c]
      <4>1. calls[k] # None /\ calls' = Ended({k}).calls  BY <3>2 DEF MayEnd, Live, Write
      <4>2. {k} \in SUBSET CallIds /\ \A j \in {k} : calls[j] # None  BY <3>1, <4>1
      <4>3. /\ calls'[k].status = "ended"
            /\ \A j \in CallIds \ {k} : calls'[j] = calls[j]
        BY <2>1, <4>1, <4>2, EndedStore
      <4>. QED  BY <2>5, <4>3 DEF Holding, Live
    <3>3. ASSUME ~MayEnd(s, k), UNCHANGED store  PROVE calls'[c] = calls[c]
      BY <3>3 DEF store
    <3>4. BoundTo(s, c)  BY <3>1, <3>2, <3>3 DEF EndNamed, BoundTo
    <3>5. c = k  BY <2>5, <2>6, <3>1, <3>4 DEF CleanupInv, Removals, k
    <3>6. MayEnd(s, k)  BY <2>5, <3>4, <3>5 DEF MayEnd, Holding, BoundTo
    <3>. QED  BY <3>1, <3>2, <3>5, <3>6 DEF EndNamed
  <2>. QED  BY <2>3, <2>7, <2>8
<1>. QED  BY <1>1, <1>2, <1>3, Invariance, PTL DEF Spec, CleanupEndsCalls

=============================================================================
