------------------------------ MODULE GroupCall ------------------------------
(***************************************************************************)
(* The group call of one conversation in one browser tab: the rooms,       *)
(* requests and reconciliations of GroupCallFacade, and the microphone it  *)
(* holds. Peers' media and presentations are left out (GroupPresentation   *)
(* has the latter). A local generation fences media callbacks, the room's  *)
(* state revision fences socket frames.                                    *)
(*                                                                         *)
(* The server is external: one room of the conversation at a time, this    *)
(* user and one peer in it, a revision that every change bumps. It tells   *)
(* all members that a room started and only participants what follows.     *)
(* Revision 0 stands for the code's -1: none applied.                      *)
(***************************************************************************)
EXTENDS Integers, SequencesExt

CONSTANTS
    MaxRooms,       \* rooms the server opens
    MaxRev,         \* revisions of a room, its end not counted
    MaxGen,         \* generations begun or left
    MaxEffort,      \* refusals, drops, aborts and losses, see Spend
    Drops,          \* whether the realtime connection is ever lost
    Lossy,          \* whether the server's fan-out may lose an event
    Refusals,       \* whether the server refuses to take a user out of a room
    EarlyEnds,      \* whether a call is ended before the server named the room
    FullEnds,       \* whether a room's end comes with its roster and reference
    Races           \* whether a peer's room is told of while one's own is being started

GroupCallAssumption ==
    /\ {MaxRooms, MaxRev, MaxGen, MaxEffort} \subseteq Nat
    /\ {Drops, Lossy, Refusals, EarlyEnds, FullEnds, Races} \subseteq BOOLEAN

VARIABLES
    g,          \* the facade, see FacadeType
    up,         \* requests on their way to the server, in order
    down,       \* events on their way to the facade
    server,     \* the room of the conversation, the last id given, whether the seat
                \* in it is one of a lost connection, and whether the user is a member
    ready,      \* readyChanges of the transport
    ended,      \* history: rooms whose end event the facade has applied
    spent       \* of MaxEffort

vars == <<g, up, down, server, ready, ended, spent>>

(* Types.                                                                  *)

RoomIds == 1 .. MaxRooms
Revs == Nat
Gens == Nat

Room == [id : RoomIds \cup {0}, rev : Revs, me : BOOLEAN, peer : BOOLEAN]
NoRoom == [id |-> 0, rev |-> 0, me |-> FALSE, peer |-> FALSE]

Asks == {"start", "discover", "join", "leave", "end", "sync", "resync"}
Request == [type : Asks, id : RoomIds \cup {0}, gen : Gens]

\* An answer names the request by its type and generation.
Event == [type : {"started", "joined", "left", "ended", "rejected", "discovered", "synced"},
          room : Room, of : Asks, gen : Gens, gone : BOOLEAN]

\* pendingControl and pendingControlReconciliation; ask is the request's
\* generation, gen the one that followed it.
Control == [type : {"leave", "end"}, room : Room, base : Revs, ask : Gens, gen : Gens,
            advanced : BOOLEAN]
NoControl == [type |-> "end", room |-> NoRoom, base |-> 0, ask |-> 0, gen |-> 0,
              advanced |-> FALSE]

FacadeType ==
    [phase : {"idle", "requesting", "ringing", "joining", "active", "left", "ended", "error"},
     gen : Gens,
     room : Room, rev : Revs,                   \* state.room, lastAppliedStateRevision
     mic : Gens,                                \* localStream, named by its generation
     rejoin : Room, rejoinRev : Revs,
     asked : Gens, disc : Gens,                 \* pendingStartOrJoin, pendingDiscovery
     sync : Gens,                               \* pendingSync
     control : Control, recon : Control, uncertain : BOOLEAN,
     retired : SUBSET RoomIds,
     timer : BOOLEAN,                           \* dismissTimer
     mics : SUBSET (Gens \X {"start", "join"}), \* microphone promises
     live : SUBSET Gens]                        \* microphones captured, not stopped

TypeOK ==
    /\ g \in FacadeType
    /\ up \in Seq(Request)
    /\ down \subseteq Event
    /\ server \in [room : Room, last : RoomIds \cup {0}, stale : BOOLEAN, member : BOOLEAN]
    /\ ready \in BOOLEAN
    /\ ended \subseteq RoomIds
    /\ spent \in 0 .. MaxEffort

Init ==
    /\ g = [phase |-> "idle", gen |-> 0, room |-> NoRoom, rev |-> 0, mic |-> 0,
            rejoin |-> NoRoom, rejoinRev |-> 0, asked |-> 0, disc |-> 0, sync |-> 0,
            control |-> NoControl, recon |-> NoControl, uncertain |-> FALSE,
            retired |-> {}, timer |-> FALSE, mics |-> {}, live |-> {}]
    /\ up = <<>> /\ down = {}
    /\ server = [room |-> NoRoom, last |-> 0, stale |-> FALSE, member |-> TRUE]
    /\ ready = TRUE /\ ended = {} /\ spent = 0

Spend == spent < MaxEffort /\ spent' = spent + 1

(* What a handler works on.                                                *)

World == [f |-> g, up |-> up, ready |-> ready]
With(f) == [World EXCEPT !.f = f]
Become(w) == g' = w.f /\ up' = w.up

\* state set anew from idleState: what of it the model keeps.
Fresh(f, phase) == [f EXCEPT !.phase = phase, !.room = NoRoom, !.mic = 0]

\* Faulty: the microphone of the call goes on.
TerminalCapturing(f) ==
    [Fresh(f, "ended") EXCEPT
        !.gen = @ + 1, !.rev = 0, !.rejoin = NoRoom, !.rejoinRev = 0,
        !.asked = 0, !.disc = 0, !.sync = 0, !.control = NoControl, !.recon = NoControl,
        !.uncertain = FALSE, !.retired = @ \cup ({f.room.id} \ {0})]

\* terminal: retires the room it shows.
Terminal(f) ==
    [Fresh(f, "ended") EXCEPT
        !.gen = @ + 1, !.rev = 0, !.rejoin = NoRoom, !.rejoinRev = 0,
        !.asked = 0, !.disc = 0, !.sync = 0, !.control = NoControl, !.recon = NoControl,
        !.uncertain = FALSE, !.retired = @ \cup ({f.room.id} \ {0}), !.live = @ \ {f.mic}]

Dismissing(f) == [f EXCEPT !.timer = TRUE]

Larger(a, b) == IF a > b THEN a ELSE b

\* Faulty: a failure has a phase of its own.
FailPlainly(f) == [Terminal(f) EXCEPT !.phase = "failed"]

\* fail: a call that was being rejoined can be tried again.
Fail(f) ==
    LET over == Terminal(f)
    IN  IF f.room.id # 0 /\ f.rejoin.id = f.room.id
          THEN [over EXCEPT !.phase = "left", !.rejoin = f.rejoin,
                            !.rejoinRev = Larger(f.rejoinRev, f.rev)]
          ELSE [over EXCEPT !.phase = "error"]

\* send: what cannot be sent fails the call of its generation.
Send(w, type, id, gen) ==
    CASE gen # w.f.gen -> w
      [] gen = w.f.gen /\ ~w.ready -> [w EXCEPT !.f = Fail(@)]
      [] OTHER -> [w EXCEPT !.up = Append(@, [type |-> type, id |-> id, gen |-> gen])]

IsOngoing == g.phase \in {"ringing", "joining", "active"}
CanStart == g.phase \in {"idle", "left", "ended", "error", "ringing"}

CanRejoin == g.phase \in {"left", "idle"} /\ g.recon = NoControl /\ ~g.uncertain
               /\ g.rejoin.id # 0

\* beginGeneration, and requesting from idleState.
Begun(f) ==
    [Fresh(f, "requesting") EXCEPT
        !.gen = @ + 1, !.rev = 0, !.sync = 0, !.control = NoControl,
        !.recon = NoControl, !.timer = FALSE]

Starting(f) ==
    [Begun(f) EXCEPT !.rejoin = NoRoom, !.rejoinRev = 0,
                     !.mics = @ \cup {<<f.gen + 1, "start">>}]

Joining(f, room) ==
    [Begun(f) EXCEPT
        !.room = room, !.mics = @ \cup {<<f.gen + 1, "join">>},
        !.rev = IF room.rev > 0 THEN room.rev
                ELSE IF f.phase = "left" /\ f.rejoin.id = room.id THEN f.rejoinRev ELSE 0]

(* The user.                                                               *)

\* discoverAndStart, where the button of the conversation is enabled.
DiscoverAndStart ==
    /\ ~IsOngoing /\ g.phase # "requesting" /\ g.disc = 0 /\ ready /\ g.gen < MaxGen
    /\ Become(Send(With([Begun(g) EXCEPT !.disc = g.gen + 1]), "discover", 0, g.gen + 1))
    /\ UNCHANGED <<down, server, ready, ended, spent>>

\* The 8 s of a discovery are over; the timer does not ask for the generation.
DiscoveryTimesOut ==
    /\ g.disc # 0 /\ Spend
    /\ g' = Fail([g EXCEPT !.disc = 0])
    /\ UNCHANGED <<up, down, server, ready, ended>>

\* The surface offers it for a room that rings.
Join ==
    /\ g.phase = "ringing" /\ g.mic = 0 /\ g.room.id # 0 /\ g.gen < MaxGen
    /\ g' = Joining(g, [g.room EXCEPT !.rev = g.rev])
    /\ UNCHANGED <<up, down, server, ready, ended, spent>>

Rejoin ==
    /\ CanRejoin /\ g.gen < MaxGen
    /\ g' = Joining(g, g.rejoin)
    /\ UNCHANGED <<up, down, server, ready, ended, spent>>

Leaving(w, type) ==
    LET over == Terminal(w.f)
        control == [type |-> type, room |-> w.f.room, base |-> w.f.rev, ask |-> w.f.gen,
                    gen |-> over.gen, advanced |-> FALSE]
        away == type = "leave" /\ (w.f.room.peer \/ ~w.f.room.me)
    IN  [w EXCEPT !.f = Dismissing([over EXCEPT
            !.control = control,
            !.phase = IF away THEN "left" ELSE "ended",
            !.rejoin = IF away THEN w.f.room ELSE NoRoom,
            !.rejoinRev = IF away THEN w.f.rev ELSE 0])]

Leave(type) ==
    LET asked == Send(World, type, g.room.id, g.gen)
    IN  /\ g.phase \in {"joining", "active"} \cup (IF type = "end" THEN {"ringing"} ELSE {})
        /\ g.room.id # 0 /\ g.control = NoControl
        /\ Become(IF ready THEN Leaving(asked, type) ELSE asked)
        /\ UNCHANGED <<down, server, ready, ended, spent>>

\* end without a room.
EndUnnamed ==
    /\ EarlyEnds /\ g.phase = "ringing" /\ g.room.id = 0
    /\ g' = Dismissing(Terminal(g))
    /\ UNCHANGED <<up, down, server, ready, ended, spent>>

\* abort: the user is no member any more, and the server has closed the room.
Abort ==
    /\ g.room.id # 0 \/ g.rejoin.id # 0 \/ g.phase \in {"requesting", "ringing"}
    /\ Spend
    /\ g' = [Terminal(g) EXCEPT !.phase = "idle"]
    /\ server' = [server EXCEPT !.room = NoRoom, !.stale = FALSE, !.member = FALSE]
    /\ UNCHANGED <<up, down, ready, ended>>

DismissFires ==
    /\ g.timer
    /\ g' = IF g.phase \in {"left", "ended"} THEN [Fresh(g, "idle") EXCEPT !.timer = FALSE]
                                             ELSE [g EXCEPT !.timer = FALSE]
    /\ UNCHANGED <<up, down, server, ready, ended, spent>>

\* Faulty: a browser that answers late goes on with its call.
GrantedToAny(m) ==
    LET with == [g EXCEPT !.mics = @ \ {m}, !.mic = m[1], !.asked = m[1],
                          !.phase = IF m[2] = "start" THEN "ringing" ELSE "joining",
                          !.live = @ \cup {m[1]}]
        ask == IF m[2] = "start" THEN "start" ELSE "join"
    IN  /\ m \in g.mics
        /\ Become(Send(With(with), ask, g.room.id, g.gen))
        /\ UNCHANGED <<down, server, ready, ended, spent>>

\* The answer of the browser; start and join go on with the stream.
Granted(m) ==
    LET f == [g EXCEPT !.mics = @ \ {m}]
        ask == IF m[2] = "start" THEN "start" ELSE "join"
        with == [f EXCEPT !.phase = IF m[2] = "start" THEN "ringing" ELSE "joining",
                          !.mic = m[1], !.live = @ \cup {m[1]}, !.asked = m[1]]
    IN  /\ m \in g.mics
        /\ Become(IF m[1] = g.gen THEN Send(With(with), ask, g.room.id, m[1]) ELSE With(f))
        /\ UNCHANGED <<down, server, ready, ended, spent>>

\* The catch of microphone does not ask for the generation.
Denied(m) ==
    /\ m \in g.mics /\ Spend
    /\ g' = Fail([g EXCEPT !.mics = @ \ {m}])
    /\ UNCHANGED <<up, down, server, ready, ended>>

\* The interval of 10 s, once somebody has joined and the room's status is active.
Sync ==
    /\ g.phase = "active" /\ g.mic # 0 /\ g.room.rev > 1 /\ ready /\ g.sync = 0
    /\ g' = [g EXCEPT !.sync = g.gen]
    /\ up' = Append(up, [type |-> "sync", id |-> g.room.id, gen |-> g.gen])
    /\ UNCHANGED <<down, server, ready, ended, spent>>

\* The 8 s of a reconciliation are over.
ReconciliationTimesOut ==
    /\ g.recon # NoControl /\ ~g.uncertain /\ Spend
    /\ g' = [g EXCEPT !.recon = NoControl, !.uncertain = g.recon.gen = g.gen]
    /\ UNCHANGED <<up, down, server, ready, ended>>

(* Events: handleEvent.                                                    *)

Uncertain(f, control) == [f EXCEPT !.uncertain = @ \/ control.gen = f.gen]

\* reconcileRejectedControl: ask what the room is.
Reconcile(w, control) ==
    LET f == [w.f EXCEPT !.recon = control]
    IN  CASE w.f.recon # NoControl -> w
          [] w.f.recon = NoControl /\ ~w.ready -> [w EXCEPT !.f = Uncertain(f, control)]
          [] OTHER -> [w EXCEPT !.f = f,
                                !.up = Append(@, [type |-> "resync", id |-> control.room.id,
                                                  gen |-> control.ask])]

Rejected(e) ==
    LET kept == [g EXCEPT !.control = NoControl]
    IN  /\ e.type = "rejected"
        /\ Become(
             CASE e.of = "discover" /\ g.disc = e.gen /\ e.gen = g.gen ->
                    With(Fail([g EXCEPT !.disc = 0]))
               [] e.of \in {"start", "join"} /\ g.asked = e.gen /\ e.gen = g.gen ->
                    With(Fail(IF e.gone THEN [g EXCEPT !.asked = 0, !.rejoin = NoRoom,
                                                       !.rejoinRev = 0]
                                        ELSE [g EXCEPT !.asked = 0]))
               [] e.of = "resync" /\ g.recon.ask = e.gen /\ g.recon # NoControl ->
                    With(Uncertain(g, g.recon))
               [] e.of = g.control.type /\ g.control.ask = e.gen /\ g.control # NoControl ->
                    IF g.gen = g.control.gen
                         /\ g.phase = (IF e.of = "leave" THEN "left" ELSE "ended")
                      THEN Reconcile(With(kept), g.control) ELSE With(kept)
               [] OTHER -> World)
        /\ UNCHANGED ended

Discovered(e) ==
    /\ e.type = "discovered"
    /\ g' = IF g.disc = e.gen /\ e.gen = g.gen
              THEN LET f == [Fresh(g, "idle") EXCEPT !.disc = 0]
                   IN  IF e.room.id # 0 THEN Joining(f, e.room) ELSE Starting(f)
              ELSE g
    /\ UNCHANGED <<up, ended>>

\* Faulty: a frame of any age is applied.
AcceptsAnyAge(type, room) ==
    IF g.room.id # 0 THEN g.room.id = room.id
    ELSE /\ type = "started" /\ room.id \notin g.retired
         /\ g.phase # "joining" /\ g.phase # "active"

\* Faulty: a retired room rings again.
AcceptsRetired(type, room) ==
    IF g.room.id # 0 THEN g.room.id = room.id /\ room.rev > g.rev
    ELSE /\ type = "started" /\ room.rev > g.rev
         /\ g.phase # "joining" /\ g.phase # "active"

\* acceptsRoomEvent.
Accepts(type, room) ==
    IF g.room.id # 0 THEN g.room.id = room.id /\ room.rev > g.rev
    ELSE /\ type = "started" /\ room.id \notin g.retired /\ room.rev > g.rev
         /\ g.phase # "joining" /\ g.phase # "active"

\* Faulty: a room that is heard of is a room one is in.
AppliedActive(f, room) == [f EXCEPT !.room = room, !.rev = room.rev, !.phase = "active"]

\* applyRoom without the peers' connections.
Applied(f, room) ==
    [f EXCEPT !.room = room, !.rev = room.rev,
              !.phase = IF f.mic # 0 THEN "active" ELSE "ringing"]

Answered(f, type, room) ==
    IF type = "started" \/ (type = "joined" /\ f.phase = "joining" /\ room.me)
      THEN [f EXCEPT !.asked = 0, !.rejoin = IF room.me THEN NoRoom ELSE @,
                     !.rejoinRev = IF room.me THEN 0 ELSE @]
      ELSE f

OwnStart == g.asked # 0 \/ <<g.gen, "start">> \in g.mics

RoomEvent(e) ==
    LET departed == g.phase = "left" /\ g.rejoin.id = e.room.id
        newer == [g EXCEPT !.rejoin = e.room, !.rejoinRev = e.room.rev, !.rev = e.room.rev,
                           !.recon.advanced = @ \/ (g.recon.room.id = e.room.id
                                                      /\ e.room.rev > g.recon.base),
                           !.uncertain = @ /\ ~(g.recon.room.id = e.room.id
                                                  /\ e.room.rev > g.recon.base)]
        rings == [Fresh(Answered(g, e.type, e.room), "ringing") EXCEPT
                    !.room = e.room, !.rev = e.room.rev, !.timer = FALSE,
                    !.rejoin = NoRoom, !.rejoinRev = 0]
    IN  /\ e.type \in {"started", "joined", "left"}
        /\ Races \/ g.room.id # 0 \/ e.room.me \/ ~OwnStart
        /\ g' = CASE departed -> IF e.room.rev > g.rejoinRev THEN newer ELSE g
                  [] ~departed /\ ~Accepts(e.type, e.room) -> g
                  [] ~departed /\ Accepts(e.type, e.room)
                       /\ e.type = "started" /\ g.phase \in {"idle", "left", "ended", "error"}
                       -> rings
                  [] OTHER -> Applied(Answered(g, e.type, e.room), e.room)
        /\ UNCHANGED <<up, ended>>

\* handleTerminalRoom: the room a terminal frame may be about, and the revision
\* it has to be newer than.
Known(f) ==
    CASE f.room.id # 0 -> <<f.room.id, f.rev>>
      [] f.room.id = 0 /\ f.rejoin.id # 0 -> <<f.rejoin.id, f.rejoinRev>>
      [] f.room.id = 0 /\ f.rejoin.id = 0 /\ f.control # NoControl ->
           <<f.control.room.id, f.control.base>>
      [] OTHER -> <<f.recon.room.id, f.recon.base>>

\* handleRejectedControlTerminal: the end of the room a refused control is about.
Verified(e) ==
    /\ g.recon # NoControl /\ g.recon.room.id = e.room.id /\ g.recon.gen = g.gen
    /\ g.recon.advanced /\ e.room.rev > g.recon.base

Ended(e) ==
    LET f == IF FullEnds THEN [g EXCEPT !.room = e.room] ELSE g
        known == Known(f)
        applies == known[1] = e.room.id /\ e.room.rev > known[2]
    IN  /\ e.type = "ended"
        /\ g' = CASE applies -> Dismissing([Terminal(f) EXCEPT !.retired = @ \cup {e.room.id}])
                  [] ~applies /\ Verified(e) ->
                       [Fresh(f, "ended") EXCEPT !.recon = NoControl,
                                                 !.retired = @ \cup {e.room.id}]
                  [] OTHER -> f
        /\ ended' = IF applies \/ Verified(e) THEN ended \cup {e.room.id} ELSE ended
        /\ UNCHANGED up

\* handleSynced, the answer to a reconciliation.
Reconciled(e) ==
    LET control == g.recon
        f == [g EXCEPT !.recon = NoControl]
        over == [Fresh(f, "ended") EXCEPT !.retired = @ \cup {control.room.id},
                                          !.uncertain = FALSE]
    IN  /\ e.type = "synced" /\ e.of = "resync"
        /\ control # NoControl /\ control.ask = e.gen
        /\ g' = CASE control.gen # g.gen -> f
                  [] control.gen = g.gen /\ ~e.gone /\ e.room.rev < control.base ->
                       Uncertain(f, control)
                  [] control.gen = g.gen /\ ~e.gone /\ e.room.rev >= control.base /\ e.room.me ->
                       [Fresh(f, "left") EXCEPT !.rejoin = e.room, !.rejoinRev = e.room.rev,
                                                !.rev = e.room.rev, !.uncertain = FALSE]
                  [] OTHER -> over
        /\ UNCHANGED <<up, ended>>

\* Faulty: the answer is only taken for a room that goes on.
SyncedSilently(e) ==
    LET asked == g.sync # 0 /\ e.gen = g.sync /\ g.sync = g.gen /\ g.room.id = e.room.id
    IN  /\ e.type = "synced" /\ e.of = "sync"
        /\ g' = IF asked /\ ~e.gone THEN Applied([g EXCEPT !.sync = 0], e.room) ELSE g
        /\ UNCHANGED <<up, ended>>

\* handleSynced, the answer to the loop.
Synced(e) ==
    LET asked == g.sync # 0 /\ e.gen = g.sync /\ g.sync = g.gen /\ g.room.id = e.room.id
        f == [g EXCEPT !.sync = 0]
    IN  /\ e.type = "synced" /\ e.of = "sync"
        /\ g' = CASE asked /\ e.gone -> Dismissing(Terminal(f))
                  [] asked /\ ~e.gone /\ e.room.rev >= g.rev -> Applied(f, e.room)
                  [] asked /\ ~e.gone /\ e.room.rev < g.rev -> f
                  [] OTHER -> g
        /\ UNCHANGED <<up, ended>>

\* An answer nobody waits for any more.
Ignored(e) ==
    /\ e.type = "synced" /\ e.of = "resync"
    /\ g.recon = NoControl \/ g.recon.ask # e.gen
    /\ UNCHANGED <<g, up, ended>>

HandleEvent(e) ==
    /\ \/ Rejected(e) \/ Discovered(e) \/ RoomEvent(e) \/ Ended(e)
       \/ Reconciled(e) \/ Synced(e) \/ Ignored(e)
    /\ down' = down \ {e}
    /\ UNCHANGED <<server, ready, spent>>

\* handleDisconnect.
Drop ==
    LET room == IF g.room.id # 0 /\ g.room.peer THEN g.room ELSE g.rejoin
        rev == IF g.room.id = room.id THEN g.rev ELSE g.rejoinRev
    IN  /\ ready /\ Drops /\ Spend
        /\ ready' = FALSE
        /\ g' = CASE ~IsOngoing /\ g.phase # "left" -> g
                  [] (IsOngoing \/ g.phase = "left") /\ room.id = 0 -> Fail(g)
                  [] OTHER -> [Terminal(g) EXCEPT !.phase = "left", !.rejoin = room,
                                                  !.rejoinRev = rev]
        /\ up' = <<>> /\ down' = {}
        /\ server' = [server EXCEPT !.stale = server.room.me]
        /\ UNCHANGED ended

Recover ==
    /\ ~ready /\ ready' = TRUE
    /\ UNCHANGED <<g, up, down, server, ended, spent>>

(* The server, external: from how the facade uses it.                      *)

Told(type, room) == [type |-> type, room |-> room, of |-> "sync", gen |-> 0, gone |-> FALSE]
Answer(type, req, room, gone) ==
    [type |-> type, room |-> room, of |-> req.type, gen |-> req.gen, gone |-> gone]

\* A room changes and its participants, or all members, are told.
Change(room, type, told) ==
    /\ server' = [server EXCEPT !.room = IF room.me \/ room.peer THEN room ELSE NoRoom,
                                !.last = room.id, !.stale = @ /\ room.me]
    /\ \/ /\ down' = IF told /\ ready /\ server.member THEN down \cup {Told(type, room)} ELSE down
          /\ UNCHANGED spent
       \/ /\ Lossy /\ told /\ Spend
          /\ UNCHANGED down

Bumped(me, peer) == [server.room EXCEPT !.rev = @ + 1, !.me = me, !.peer = peer]
Seated == server.room.me /\ ~server.stale

Reply(e) == down' = down \cup {e} /\ UNCHANGED <<server, spent>>

\* The end of a room is told with the roster it had.
Closed ==
    LET told == [server.room EXCEPT !.rev = @ + 1]
    IN  /\ server' = [server EXCEPT !.room = NoRoom, !.stale = FALSE]
        /\ \/ /\ down' = IF Seated /\ ready THEN down \cup {Told("ended", told)} ELSE down
              /\ UNCHANGED spent
           \/ /\ Lossy /\ Seated /\ Spend
              /\ UNCHANGED down

Enters(req) ==
    LET room == IF req.type = "start"
                  THEN [id |-> server.last + 1, rev |-> 1, me |-> TRUE, peer |-> FALSE]
                  ELSE Bumped(TRUE, server.room.peer)
        free == IF req.type = "start" THEN server.room = NoRoom /\ server.last < MaxRooms
                ELSE server.room.id = req.id /\ ~server.room.me
    IN  /\ req.type \in {"start", "join"}
        /\ IF server.member /\ free THEN Change(room, IF req.type = "start" THEN "started" ELSE "joined", TRUE)
           ELSE Reply(Answer("rejected", req, NoRoom,
                             req.type = "join" /\ (server.room.id # req.id \/ ~server.member)))

Exits(req) ==
    LET seated == Seated /\ server.room.id = req.id
    IN  /\ req.type \in {"leave", "end"}
        /\ \/ /\ seated /\ req.type = "leave"
              /\ Change(Bumped(FALSE, server.room.peer), "left", FALSE)
           \/ seated /\ req.type = "end" /\ Closed
           \/ ~seated /\ Reply(Answer("rejected", req, NoRoom, FALSE))
           \/ /\ seated /\ Refusals /\ Spend
              /\ down' = down \cup {Answer("rejected", req, NoRoom, FALSE)}
              /\ UNCHANGED server

Tells(req) ==
    \/ /\ req.type = "discover"
       /\ Reply(Answer("discovered", req, server.room, FALSE))
    \/ /\ req.type \in {"sync", "resync"}
       /\ LET there == Seated /\ server.room.id = req.id
          IN  Reply(Answer("synced", req, IF there THEN server.room ELSE [NoRoom EXCEPT !.id = req.id],
                           ~there))

ServerHandles ==
    /\ up # <<>> /\ up' = Tail(up)
    /\ Enters(Head(up)) \/ Exits(Head(up)) \/ Tells(Head(up))
    /\ UNCHANGED <<g, ready, ended>>

\* The server lets go of the seat of a lost connection.
SeatLost ==
    /\ server.stale
    /\ Change(Bumped(FALSE, server.room.peer), "left", FALSE)
    /\ UNCHANGED <<g, up, ready, ended>>

PeerStarts ==
    /\ server.room = NoRoom /\ server.last < MaxRooms
    /\ Change([id |-> server.last + 1, rev |-> 1, me |-> FALSE, peer |-> TRUE], "started", TRUE)
    /\ UNCHANGED <<g, up, ready, ended>>

PeerMoves ==
    /\ server.room # NoRoom /\ server.room.rev < MaxRev
    /\ IF server.room.peer THEN Change(Bumped(server.room.me, FALSE), "left", Seated)
                           ELSE Change(Bumped(server.room.me, TRUE), "joined", Seated)
    /\ UNCHANGED <<g, up, ready, ended>>

PeerEnds ==
    /\ server.room.peer /\ Closed
    /\ UNCHANGED <<g, up, ready, ended>>

Next ==
    \/ DiscoverAndStart \/ DiscoveryTimesOut \/ Join \/ Rejoin
    \/ Leave("leave") \/ Leave("end") \/ EndUnnamed \/ Abort \/ DismissFires
    \/ \E m \in g.mics : Granted(m) \/ Denied(m)
    \/ Sync \/ ReconciliationTimesOut
    \/ \E e \in down : HandleEvent(e)
    \/ Drop \/ Recover \/ ServerHandles \/ SeatLost \/ PeerStarts \/ PeerMoves \/ PeerEnds

Spec == Init /\ [][Next]_vars

\* The interval of the sync loop keeps firing, the server answers, and what it
\* answered is handled.
LiveSpec ==
    /\ Spec
    /\ WF_vars(Sync) /\ WF_vars(ServerHandles)
    /\ \A type \in {"synced", "rejected"} :
         WF_vars(\E e \in down : e.type = type /\ HandleEvent(e))

(* Properties.                                                             *)

\* The only microphone that is captured is the one of the call: a browser that
\* answers after the call is over, or after the next has begun, leaves none on.
MicrophoneIsOwned == g.live = {g.mic} \ {0}

\* Within one generation the room that is shown stays, and only grows.
RoomStays ==
    g'.gen = g.gen /\ g.room.id # 0 /\ g'.room.id # 0
      => g'.room.id = g.room.id /\ g'.rev >= g.rev

\* The one frame that is shown before it is asked what room it is of.
EndIsShown ==
    FullEnds /\ \E e \in down \ down' : e.type = "ended" /\ g'.room = e.room /\ g'.rev = g.rev

\* No delayed frame replaces an established room or sets it back, but the end of
\* another room that comes with its roster (group-call-facade.service.ts:595, :479).
EstablishedRoomHolds == RoomStays \/ EndIsShown

\* "An established room never regresses or switches IDs because of a delayed socket
\* frame" (group-call-facade.service.ts:592), without exception.
RoomNeverSwitches == [][RoomStays]_vars

\* A room whose end was applied is not shown or offered again.
EndedStaysEnded == {g.room.id, g.rejoin.id} \cap ended = {}

Quiet == up = <<>> /\ down = {} /\ g.mics = {} /\ ready /\ ~server.stale

\* When all is settled, who sits in the room at the server is in the call here:
\* no seat is left that the user neither sees nor can leave.
NoSeatIsStranded ==
    Quiet /\ server.room.me => g.phase \in {"joining", "active"} /\ g.room.id = server.room.id

\* A local starter adopts only its own room: who is shown in a call is in it.
ActiveIsSeated == g.phase = "active" => g.room.me

\* What the sync loop is for: a room that is over, or that this user is out of,
\* is noticed even when the event of it was lost.
RoomIsStale == g.phase = "active" /\ g.room.rev > 1 /\ server.room.id # g.room.id
StaleRoomIsNoticed == RoomIsStale ~> ~RoomIsStale

\* A denial or the end of a discovery that is of an older generation: neither asks for
\* the generation, so it ends whatever call there is (group-call-facade.service.ts:157, :790).
FailsLate ==
    /\ spent' # spent
    /\ \/ \E m \in g.mics \ g'.mics : m[1] # g.gen
       \/ g.disc \notin {0, g.gen} /\ g'.disc = 0 /\ g'.gen = g.gen + 1

\* A microphone that is granted to an older generation does nothing to a newer call
\* (group-call-facade.service.ts:788).
LateGrantIsFenced ==
    \A m \in g.mics \ g'.mics : m[1] # g.gen /\ spent' = spent => g'.phase = g.phase

\* "`generation` fences local media callbacks" (group-call-facade.service.ts:590), the
\* denied ones included: whatever the browser answers to an older generation leaves
\* the newer call as it is.
OlderMediaIsFenced ==
    [][\A m \in g.mics \ g'.mics : m[1] # g.gen => g'.phase = g.phase]_vars
=============================================================================
