------------------------------ MODULE CallFacade ------------------------------
(***************************************************************************)
(* The direct call of one browser tab: CallFacade, with the captures it    *)
(* holds, the promises it waits for, the chains of its signaling           *)
(* operations and the events of the server. A generation fences what       *)
(* outlives a call: a promise or an operation remembers the one it was     *)
(* begun in.                                                               *)
(*                                                                         *)
(* The server is external: it holds at most one call of the user, answers  *)
(* requests in the order they were sent, and its events arrive in any      *)
(* order. What is in offers, answers and candidates is left out: applying  *)
(* a signal takes a while and may fail.                                    *)
(***************************************************************************)
EXTENDS Integers, SequencesExt

CONSTANTS
    Conversations,
    MaxCalls,       \* calls the server sees
    MaxGen,         \* generations in which a call may be begun
    MaxCaptures,    \* captures that exist at once
    MaxEffort,      \* failures, drops, toggles and signals, see Spend
    Switches,       \* microphone selections that may overlap
    Drops,          \* whether the realtime connection is ever lost
    EarlyCancel     \* whether a user hangs up before the server named the call

CallFacadeAssumption ==
    /\ 0 \notin Conversations
    /\ {MaxCalls, MaxGen, MaxCaptures, MaxEffort, Switches} \subseteq Nat
    /\ Drops \in BOOLEAN /\ EarlyCancel \in BOOLEAN

VARIABLES
    f,          \* the facade, see FacadeType
    up,         \* requests on their way to the server, in order
    down,       \* events on their way to the facade
    server,     \* the user's call at the server, see ServerType
    ready,      \* readyChanges of the transport
    spent       \* of MaxEffort

vars == <<f, up, down, server, ready, spent>>

(* Types.                                                                  *)

Ongoing == {"requesting", "outgoing", "incoming", "connecting", "active"}
Over == {"idle", "ended", "error"}

CallIds == 1 .. MaxCalls
Captures == 1 .. MaxCaptures
Gens == Nat

Asks == {"start", "accept", "decline", "cancel", "end", "signal"}

\* "lost" is no request: behind it come those of the next socket.
Request == [type : Asks \cup {"lost"}, call : CallIds \cup {0},
            conv : Conversations \cup {0}, gen : Gens]

Event == [type : {"incoming", "ringing", "accepted", "ended", "signal", "rejected"},
          call : CallIds \cup {0}, conv : Conversations \cup {0},
          of : {<<>>} \cup (Asks \X Gens)]      \* the request a rejection names

\* A promise outside the chains: the microphone of start, and the two of
\* selectInputDevice with what it captured when it was called.
Wait == [on : {"start", "device", "replace"}, gen : Gens, conn : Gens,
         old : Captures \cup {0}, new : Captures \cup {0}]

Operation == [kind : {"accepted", "signal", "share", "unshare"},
              at : {"queued", "microphone", "display", "replace", "clear", "apply"},
              chain : Gens, gen : Gens, conn : Gens,
              call : CallIds \cup {0}, new : Captures \cup {0}]

FacadeType ==
    [phase : Ongoing \cup Over, role : {"none", "caller", "recipient"},
     call : CallIds \cup {0}, conv : Conversations \cup {0}, gen : Gens,
     muted : BOOLEAN,
     stream : Captures \cup {0}, screen : Captures \cup {0},   \* localStream, screenShareStream
     conn : Gens,                       \* the generation of the connection, 0 if none
     busy : BOOLEAN,                    \* screenShareTransition
     timer : BOOLEAN,                   \* dismissTimer
     orphans : SUBSET Conversations,    \* orphanedStartConversations
     retired : SUBSET CallIds,          \* retiredCallIDs
     reqs : SUBSET (Asks \X Gens),      \* pendingRequestGenerations
     live : SUBSET Captures,            \* captured and neither stopped nor ended
     loud : SUBSET Captures,            \* microphones whose track is enabled
     open : SUBSET Gens,                \* connections not closed
     waits : SUBSET Wait,
     ops : Seq(Operation),              \* of all chains, oldest first
     closed : BOOLEAN]

ServerType ==
    [call : CallIds \cup {0}, conv : Conversations \cup {0}, mine : BOOLEAN,
     gen : Gens,                        \* of the start that made it
     accepted : BOOLEAN,
     refused : BOOLEAN,                 \* a cancel of the call came too late
     last : CallIds \cup {0}]

TypeOK ==
    /\ f \in FacadeType
    /\ up \in Seq(Request)
    /\ down \subseteq Event
    /\ server \in ServerType
    /\ ready \in BOOLEAN
    /\ spent \in 0 .. MaxEffort

\* Generations are numbered from 1: a connection of generation 0 is none.
Init ==
    /\ f = [phase |-> "idle", role |-> "none", call |-> 0, conv |-> 0, gen |-> 1,
            muted |-> FALSE, stream |-> 0, screen |-> 0, conn |-> 0, busy |-> FALSE,
            timer |-> FALSE, orphans |-> {}, retired |-> {}, reqs |-> {}, live |-> {},
            loud |-> {}, open |-> {}, waits |-> {}, ops |-> <<>>, closed |-> FALSE]
    /\ up = <<>>
    /\ down = {}
    /\ server = [call |-> 0, conv |-> 0, mine |-> FALSE, gen |-> 0, accepted |-> FALSE,
                 refused |-> FALSE, last |-> 0]
    /\ ready = TRUE
    /\ spent = 0

Spend == spent < MaxEffort /\ spent' = spent + 1

(* What a handler works on: the facade and what it has sent.               *)

World == [f |-> f, up |-> up, ready |-> ready]
Become(w) == f' = w.f /\ up' = w.up

With(g) == [World EXCEPT !.f = g]

\* DataProviderService.send drops what it cannot send.
Send(w, type, call) ==
    IF w.ready
      THEN [w EXCEPT !.up = Append(@, [type |-> type, call |-> call, conv |-> w.f.conv,
                                       gen |-> w.f.gen])]
      ELSE w

Stopped(g, captures) == [g EXCEPT !.live = @ \ captures, !.loud = @ \ captures]

\* Faulty: the connection is dropped, not closed.
CleanupUnclosed(g) == [Stopped(g, {g.stream, g.screen}) EXCEPT !.conn = 0]

Cleanup(g) ==
    [Stopped(g, {g.stream, g.screen}) EXCEPT !.open = @ \ {g.conn}, !.conn = 0]

Invalidate(g) == [g EXCEPT !.gen = @ + 1, !.reqs = {}]

Retire(g) == [g EXCEPT !.retired = @ \cup ({g.call} \ {0})]

\* Faulty: the captures and the connection are not released.
FinishLeaking(g, phase) ==
    [Invalidate(Retire(g)) EXCEPT
        !.phase = phase, !.role = "none", !.call = 0, !.conv = 0, !.muted = FALSE,
        !.stream = 0, !.screen = 0, !.busy = FALSE, !.timer = TRUE]

Finish(g, phase) ==
    [Cleanup(Invalidate(Retire(g))) EXCEPT
        !.phase = phase, !.role = "none", !.call = 0, !.conv = 0, !.muted = FALSE,
        !.stream = 0, !.screen = 0, !.busy = FALSE, !.timer = TRUE]

Terminal(w, gen) ==
    IF gen = w.f.gen THEN [w EXCEPT !.f = Finish(@, "ended")] ELSE w

\* Faulty: a failure of an older call ends the current one.
SetErrorUnfenced(w, gen) ==
    LET told == IF w.f.call # 0 THEN Send(w, "end", w.f.call) ELSE w
    IN  [told EXCEPT !.f = Finish(@, "error")]

\* Faulty: the server is not told.
SetErrorSilently(w, gen) ==
    IF gen # w.f.gen THEN w ELSE [w EXCEPT !.f = Finish(@, "error")]

SetError(w, gen) ==
    LET told == IF w.f.call # 0 /\ w.f.phase # "requesting"
                  THEN Send(w, IF w.f.phase = "incoming" THEN "decline" ELSE "end", w.f.call)
                  ELSE w
    IN  IF gen = w.f.gen THEN [told EXCEPT !.f = Finish(@, "error")] ELSE w

\* sendRequest: a request that cannot be sent ends the call.
SendRequest(w, type, gen) ==
    CASE gen # w.f.gen -> w
      [] gen = w.f.gen /\ ~w.ready -> SetError(w, gen)
      [] OTHER -> Send([w EXCEPT !.f.reqs = @ \cup {<<type, gen>>}], type, w.f.call)

Enqueue(g, op) == [g EXCEPT !.ops = Append(@, op)]

Op(kind, at, gen, call, new) ==
    [kind |-> kind, at |-> at, chain |-> f.gen, gen |-> gen, conn |-> f.conn,
     call |-> call, new |-> new]

CanStart == f.phase \in Over

InUse == f.live \cup {f.stream, f.screen} \cup {x.new : x \in f.waits}
               \cup {x.old : x \in f.waits} \cup {f.ops[i].new : i \in DOMAIN f.ops}

\* A capture the browser hands out.
Fresh == {c \in Captures \ InUse : \A d \in Captures \ InUse : c <= d}

(* The user.                                                               *)

\* Faulty: the notice of the last call keeps its timer.
BegunWithTimer(g, conv) ==
    [g EXCEPT !.gen = @ + 1, !.reqs = {}, !.phase = "requesting",
              !.role = "caller", !.call = 0, !.conv = conv, !.muted = FALSE]

Begun(g, conv) ==
    [g EXCEPT !.gen = @ + 1, !.reqs = {}, !.timer = FALSE, !.phase = "requesting",
              !.role = "caller", !.call = 0, !.conv = conv, !.muted = FALSE]

Start(conv) ==
    /\ ~f.closed /\ CanStart /\ f.gen < MaxGen
    /\ f' = [Begun(f, conv) EXCEPT
               !.waits = @ \cup {[on |-> "start", gen |-> f.gen + 1, conn |-> 0,
                                  old |-> 0, new |-> 0]}]
    /\ UNCHANGED <<up, down, server, ready, spent>>

Accept ==
    /\ ~f.closed /\ f.phase = "incoming" /\ f.call # 0
    /\ Become(SendRequest(With([f EXCEPT !.phase = "connecting"]), "accept", f.gen))
    /\ UNCHANGED <<down, server, ready, spent>>

SendControl(type) ==
    LET asked == IF f.call = 0 THEN World ELSE SendRequest(World, type, f.gen)
    IN  Terminal(asked, f.gen)

\* decline, cancel and end, where the call panel offers them.
HangUp ==
    /\ ~f.closed
    /\ \/ f.phase = "incoming" /\ Become(SendControl("decline"))
       \/ /\ f.phase \in {"requesting", "outgoing"}
          /\ EarlyCancel \/ f.phase = "requesting" \/ f.call # 0
          /\ Become(SendControl("cancel"))
       \/ f.phase \in {"connecting", "active"} /\ Become(SendControl("end"))
    /\ UNCHANGED <<down, server, ready, spent>>

ToggleMute ==
    /\ ~f.closed /\ f.stream # 0 /\ Spend
    /\ f' = [f EXCEPT !.muted = ~@,
                      !.loud = IF f.muted THEN @ \cup ({f.stream} \cap f.live)
                                          ELSE @ \ {f.stream}]
    /\ UNCHANGED <<up, down, server, ready>>

ToggleScreenShare ==
    /\ ~f.closed /\ f.phase = "active" /\ ~f.busy /\ Spend
    /\ f' = Enqueue([f EXCEPT !.busy = TRUE], Op("share", "queued", f.gen, f.call, 0))
    /\ UNCHANGED <<up, down, server, ready>>

SelectInputDevice ==
    LET wait == [on |-> "device", gen |-> f.gen, conn |-> f.conn, old |-> f.stream, new |-> 0]
    IN  /\ ~f.closed /\ f.stream # 0
        /\ wait \notin f.waits
        /\ Cardinality({x \in f.waits : x.on # "start"}) < Switches
        /\ Spend
        /\ f' = [f EXCEPT !.waits = @ \cup {wait}]
        /\ UNCHANGED <<up, down, server, ready>>

\* close: the component is destroyed.
Close ==
    LET type == CASE f.phase = "incoming" -> "decline"
                  [] f.phase = "outgoing" -> "cancel"
                  [] OTHER -> "end"
        w == IF f.call # 0 THEN Send(World, type, f.call) ELSE World
    IN  /\ ~f.closed /\ Spend
        /\ Become([w EXCEPT !.f = [Finish(@, "idle") EXCEPT !.timer = FALSE, !.closed = TRUE,
                                                            !.retired = f.retired]])
        /\ UNCHANGED <<down, server, ready>>

DismissFires ==
    /\ f.timer
    /\ f' = [f EXCEPT !.timer = FALSE, !.phase = "idle", !.role = "none", !.call = 0,
                      !.conv = 0, !.stream = 0, !.screen = 0, !.busy = FALSE, !.muted = FALSE]
    /\ UNCHANGED <<up, down, server, ready, spent>>

\* replaceTrack gave no answer for 1.5 s: the call of the connection it was
\* asked of is over before any track is stopped.
TimedOut(w, owner) ==
    IF owner.gen = w.f.gen /\ owner.conn = w.f.conn /\ owner.conn # 0
      THEN SetError(w, owner.gen) ELSE w

(* Promises outside the chains.                                            *)

Without(x) == [f EXCEPT !.waits = @ \ {x}]

StartMicrophone(x) ==
    /\ x \in f.waits /\ x.on = "start"
    /\ \/ \* granted too late: the stream is stopped at once
          /\ x.gen # f.gen
          /\ Become(With(Without(x)))
          /\ UNCHANGED spent
       \/ /\ x.gen = f.gen
          /\ \E c \in Fresh :
               Become(SendRequest(With([Without(x) EXCEPT
                        !.phase = "outgoing", !.stream = c,
                        !.live = @ \cup {c}, !.loud = @ \cup {c}]), "start", x.gen))
          /\ UNCHANGED spent
       \/ Spend /\ Become(SetError(With(Without(x)), x.gen))
    /\ UNCHANGED <<down, server, ready>>

Stale(x) == x.gen # f.gen \/ x.conn # f.conn

Device(x) ==
    /\ x \in f.waits /\ x.on = "device"
    /\ \/ \* denied, stale, or without an audio sender
          /\ UNCHANGED spent
          /\ f' = Without(x)
       \/ /\ ~Stale(x) /\ f.conn # 0
          /\ \E c \in Fresh :
               f' = [Without(x) EXCEPT
                      !.live = @ \cup {c},
                      !.loud = IF f.muted THEN @ ELSE @ \cup {c},
                      !.waits = @ \cup {[x EXCEPT !.on = "replace", !.new = c]}]
          /\ UNCHANGED spent
    /\ UNCHANGED <<up, down, server, ready>>

\* The replacement took the sender: the stream current when the device was
\* chosen is stopped.
Replace(x) ==
    /\ x \in f.waits /\ x.on = "replace"
    /\ \/ /\ ~Stale(x)
          /\ f' = [Stopped(Without(x), {x.old}) EXCEPT !.stream = x.new]
          /\ UNCHANGED <<up, spent>>
       \/ /\ Stale(x)
          /\ f' = Stopped(Without(x), {x.new})
          /\ UNCHANGED <<up, spent>>
       \/ Spend /\ f' = Stopped(Without(x), {x.new}) /\ UNCHANGED up
       \/ /\ Spend
          /\ LET w == TimedOut(With(Without(x)), x)
             IN  Become([w EXCEPT !.f = Stopped(@, {x.new})])
    /\ UNCHANGED <<down, server, ready>>

(* The chains of signaling operations.                                     *)

First(i) == \A j \in 1 .. i - 1 : f.ops[j].chain # f.ops[i].chain

Runs(i, kinds, at) == f.ops[i].kind \in kinds /\ f.ops[i].at = at /\ First(i)

\* The operation is over; the finally of toggleScreenShare.
Done(g, i) ==
    [g EXCEPT !.ops = RemoveAt(@, i),
              !.busy = @ /\ ~(f.ops[i].kind = "share" /\ f.ops[i].gen = g.gen)]

At(i, at, gen) == [f EXCEPT !.ops[i].at = at, !.ops[i].gen = gen]

\* handleAccepted once it has a stream.
Connect(g, i, gen, stream) ==
    LET new == {stream} \ {g.stream}
        h == [g EXCEPT !.stream = stream, !.live = @ \cup new, !.loud = @ \cup new,
                       !.conn = gen, !.open = @ \cup {gen}, !.phase = "connecting"]
    IN  IF gen = g.gen /\ g.call = f.ops[i].call /\ stream # 0
          THEN IF g.role = "caller" THEN SendRequest(With(h), "signal", gen) ELSE With(h)
          ELSE With(g)

AcceptedRuns(i) ==
    LET op == f.ops[i]
        g == Done([f EXCEPT !.reqs = @ \ {<<"accept", f.gen>>}], i)
    IN  /\ Runs(i, {"accepted"}, "queued")
        /\ \/ /\ f.call # op.call \/ (f.role = "recipient" /\ f.phase # "connecting")
              /\ Become(With(Done(f, i)))
              /\ UNCHANGED spent
           \/ /\ f.call = op.call /\ f.role = "recipient" /\ f.phase = "connecting"
              /\ f' = [At(i, "microphone", f.gen) EXCEPT !.reqs = g.reqs]
              /\ UNCHANGED <<up, spent>>
           \/ /\ f.call = op.call /\ f.role # "recipient"
              /\ Become(Connect(g, i, f.gen, f.stream))
              /\ UNCHANGED spent
           \/ \* the browser has no RTCPeerConnection to give
              /\ f.call = op.call /\ f.role # "recipient" /\ f.stream # 0 /\ Spend
              /\ Become(SetError(With(g), f.gen))
        /\ UNCHANGED <<down, server, ready>>

AcceptedMicrophone(i) ==
    LET op == f.ops[i]
    IN  /\ Runs(i, {"accepted"}, "microphone")
        /\ \/ /\ op.gen # f.gen /\ Become(With(Done(f, i))) /\ UNCHANGED spent
           \/ /\ op.gen = f.gen
              /\ \E c \in Fresh : Become(Connect(Done(f, i), i, op.gen, c))
              /\ UNCHANGED spent
           \/ Spend /\ Become(SetError(With(Done(f, i)), op.gen))
        /\ UNCHANGED <<down, server, ready>>

SignalRuns(i) ==
    LET op == f.ops[i]
    IN  /\ \/ \* not of this call, or kept for the connection to come
              /\ Runs(i, {"signal"}, "queued")
              /\ f.call # op.call \/ f.conn = 0
              /\ f' = Done(f, i)
              /\ UNCHANGED <<up, spent>>
           \/ /\ Runs(i, {"signal"}, "queued")
              /\ f.call = op.call /\ f.conn # 0
              /\ f' = At(i, "apply", f.gen)
              /\ UNCHANGED <<up, spent>>
           \/ /\ Runs(i, {"signal"}, "apply")
              /\ f' = Done(f, i)
              /\ UNCHANGED <<up, spent>>
           \/ /\ Runs(i, {"signal"}, "apply") /\ Spend
              /\ Become(SetError(With(Done(f, i)), op.gen))
        /\ UNCHANGED <<down, server, ready>>

\* An operation that stops sharing: toggled, or because the browser ended the
\* screen c.
Stops(op, c) ==
    /\ op.gen = f.gen /\ op.conn = f.conn /\ f.conn # 0 /\ f.call # 0
    /\ f.screen # 0 /\ c \in {0, f.screen}

StopScreenShare(i) ==
    /\ Runs(i, {"share", "unshare"}, "queued")
    /\ Stops(f.ops[i], f.ops[i].new)
    /\ f' = [Stopped(At(i, "clear", f.gen), {f.screen}) EXCEPT !.screen = 0]
    /\ UNCHANGED <<up, down, server, ready, spent>>

StartScreenShare(i) ==
    LET op == f.ops[i]
        starts == op.kind = "share" /\ op.gen = f.gen /\ f.screen = 0
                    /\ f.phase = "active" /\ f.conn # 0 /\ f.call # 0
    IN  /\ Runs(i, {"share", "unshare"}, "queued")
        /\ ~Stops(op, op.new)
        /\ f' = IF starts THEN [f EXCEPT !.ops[i].at = "display", !.ops[i].conn = f.conn]
                          ELSE Done(f, i)
        /\ UNCHANGED <<up, down, server, ready, spent>>

Fenced(op) == op.gen = f.gen /\ op.conn = f.conn

Display(i) ==
    /\ Runs(i, {"share"}, "display")
    /\ \/ \* refused, or stopped at once because the call is another one
          f' = Done(f, i)
       \/ /\ Fenced(f.ops[i]) /\ f.phase = "active"
          /\ \E c \in Fresh : f' = [f EXCEPT !.ops[i].at = "replace", !.ops[i].new = c,
                                              !.live = @ \cup {c}]
    /\ UNCHANGED <<up, down, server, ready, spent>>

\* The video sender has the screen's track, refuses it, or never answers.
ShareReplaced(i) ==
    LET op == f.ops[i]
        without == Stopped(Done(f, i), {op.new})
    IN  /\ Runs(i, {"share"}, "replace")
        /\ \/ /\ ~Fenced(op)
              /\ Become(With(without))
              /\ UNCHANGED spent
           \/ /\ Fenced(op)
              /\ Become(SendRequest(With(IF op.new \in f.live
                                           THEN [Done(f, i) EXCEPT !.screen = op.new]
                                           ELSE without), "signal", op.gen))
              /\ UNCHANGED spent
           \/ Spend /\ Become(With(without))
           \/ /\ Spend
              /\ LET w == TimedOut(With(Done(f, i)), op)
                 IN  Become([w EXCEPT !.f = Stopped(@, {op.new})])
        /\ UNCHANGED <<down, server, ready>>

ShareCleared(i) ==
    LET op == f.ops[i]
    IN  /\ Runs(i, {"share", "unshare"}, "clear")
        /\ \/ /\ Become(IF Fenced(op) THEN SendRequest(With(Done(f, i)), "signal", op.gen)
                                      ELSE With(Done(f, i)))
              /\ UNCHANGED spent
           \/ /\ Spend
              /\ Become(TimedOut(With(Done(f, i)), op))
        /\ UNCHANGED <<down, server, ready>>

\* onended of a screen's track: the stop joins the current chain.
ScreenEnds(c) ==
    /\ c \in f.live /\ Spend
    /\ \E own \in {[gen |-> f.gen, conn |-> f.conn] : x \in {f.screen} \cap {c}}
             \cup {[gen |-> op.gen, conn |-> op.conn] :
                      op \in {o \in ToSet(f.ops) : o.at = "replace" /\ o.new = c}} :
         f' = Enqueue(Stopped(f, {c}), [Op("unshare", "queued", own.gen, 0, c) EXCEPT
                                          !.conn = own.conn])
    /\ UNCHANGED <<up, down, server, ready>>

\* ontrack of remote audio, and onconnectionstatechange to failed.
Connection ==
    /\ f.conn = f.gen /\ f.conn # 0
    /\ \/ /\ f.phase = "connecting"
          /\ f' = [f EXCEPT !.phase = "active"]
          /\ UNCHANGED <<up, spent>>
       \/ Spend /\ Become(SetError(World, f.gen))
    /\ UNCHANGED <<down, server, ready>>

(* Events: handleEvent.                                                    *)

Rejected(e) ==
    /\ e.type = "rejected"
    /\ LET g == [f EXCEPT !.reqs = @ \ {e.of}]
       IN  Become(IF e.of \in f.reqs THEN SetError(With(g), e.of[2]) ELSE With(g))

Incoming(e) ==
    /\ e.type = "incoming"
    /\ Become(CASE e.call \in f.retired -> World
                [] e.call \notin f.retired /\ ~CanStart -> Send(World, "decline", e.call)
                [] OTHER -> With([f EXCEPT !.timer = FALSE, !.phase = "incoming",
                                           !.role = "recipient", !.call = e.call,
                                           !.conv = e.conv, !.muted = FALSE]))

\* Faulty: a call that is over is named again.
NamesAnew(e) == f.call = 0 /\ f.role = "caller" /\ f.phase = "outgoing" /\ f.conv = e.conv

\* The caller's, when no call is named yet.
Names(e) == f.call = 0 /\ f.role = "caller" /\ f.phase = "outgoing" /\ f.conv = e.conv
              /\ e.call \notin f.retired

\* Faulty: the conversation is taken for the call.
NamedByConversation(e) == [f EXCEPT !.call = e.conv, !.reqs = @ \ {<<"start", f.gen>>}]

Named(e) == [f EXCEPT !.call = e.call, !.reqs = @ \ {<<"start", f.gen>>}]

Ringing(e) ==
    /\ e.type = "ringing"
    /\ Become(CASE Names(e) -> With([Named(e) EXCEPT !.orphans = @ \ {e.conv}])
                [] ~Names(e) /\ e.conv \in f.orphans ->
                     Send(With([f EXCEPT !.orphans = @ \ {e.conv}]), "cancel", e.call)
                [] OTHER -> World)

Accepted(e) ==
    LET adopted == IF Names(e) /\ f.stream # 0 /\ <<"start", f.gen>> \in f.reqs
                     THEN Named(e) ELSE f
    IN  /\ e.type = "accepted"
        /\ f' = IF e.call \notin f.retired /\ adopted.call = e.call
                  THEN Enqueue(adopted, Op("accepted", "queued", f.gen, e.call, 0))
                  ELSE f
        /\ UNCHANGED up

Signal(e) ==
    /\ e.type = "signal"
    /\ f' = IF e.call \in f.retired THEN f
                                     ELSE Enqueue(f, Op("signal", "queued", f.gen, e.call, 0))
    /\ UNCHANGED up

\* call.declined and call.ended.
Ended(e) ==
    /\ e.type = "ended"
    /\ Become(IF e.call \notin f.retired /\ e.call = f.call THEN Terminal(World, f.gen)
                                                            ELSE World)

HandleEvent(e) ==
    /\ ~f.closed
    /\ \/ Rejected(e) \/ Incoming(e) \/ Ringing(e)
       \/ Accepted(e) \/ Signal(e) \/ Ended(e)
    /\ down' = down \ {e}
    /\ UNCHANGED <<server, ready, spent>>

(* The transport.                                                          *)

\* The subscription to readyChanges.
Lose ==
    LET lost == [World EXCEPT !.ready = FALSE]
        g == IF f.call = 0 /\ f.conv # 0 THEN [f EXCEPT !.orphans = @ \cup {f.conv}] ELSE f
    IN  IF f.phase \in Ongoing /\ ~f.closed THEN SetError([lost EXCEPT !.f = g], f.gen)
                                            ELSE lost

Drop ==
    /\ Drops /\ ready /\ Spend
    /\ ready' = FALSE
    /\ LET w == Lose IN f' = w.f /\ up' = Append(up, [type |-> "lost", call |-> 0, conv |-> 0,
                                                     gen |-> 0])
    /\ down' = {}
    /\ UNCHANGED server

Recover ==
    /\ ~ready /\ ready' = TRUE
    /\ UNCHANGED <<f, up, down, server, spent>>

(* The server, external: see DirectCall.                                   *)

Note(type, call, conv) == [type |-> type, call |-> call, conv |-> conv, of |-> <<>>]

Emit(e) == down' = IF ready /\ ~f.closed THEN down \cup {e} ELSE down

NoCall == [server EXCEPT !.call = 0, !.conv = 0, !.mine = FALSE, !.gen = 0,
                         !.accepted = FALSE, !.refused = FALSE]

Reserved(conv, mine, gen) ==
    [call |-> server.last + 1, conv |-> conv, mine |-> mine, gen |-> gen,
     accepted |-> FALSE, refused |-> FALSE, last |-> server.last + 1]

Granted(r) ==
    CASE r.type = "start"   -> server.call = 0 /\ server.last < MaxCalls
      [] r.type = "accept"  -> server.call = r.call /\ ~server.mine /\ ~server.accepted
      [] r.type = "decline" -> server.call = r.call /\ ~server.mine /\ ~server.accepted
      [] r.type = "cancel"  -> server.call = r.call /\ server.mine /\ ~server.accepted
      [] r.type = "end"     -> server.call = r.call /\ (server.mine \/ server.accepted)
      [] OTHER              -> server.call = r.call /\ server.accepted

ServerHandles ==
    /\ up # <<>> /\ up' = Tail(up)
    /\ LET r == Head(up)
       IN  \/ /\ r.type = "start" /\ Granted(r)
              /\ server' = Reserved(r.conv, TRUE, r.gen)
              /\ Emit(Note("ringing", server.last + 1, r.conv))
           \/ /\ r.type = "accept" /\ Granted(r)
              /\ server' = [server EXCEPT !.accepted = TRUE]
              /\ Emit(Note("accepted", r.call, server.conv))
           \/ /\ r.type \in {"decline", "cancel", "end"} /\ Granted(r)
              /\ server' = NoCall
              /\ Emit(Note("ended", r.call, server.conv))
           \/ /\ r.type = "signal" /\ Granted(r)
              /\ UNCHANGED <<server, down>>
           \/ /\ r.type # "lost" /\ ~Granted(r)
              /\ server' = IF r.type = "cancel" /\ r.call = server.call
                             THEN [server EXCEPT !.refused = TRUE] ELSE server
              /\ Emit([Note("rejected", 0, 0) EXCEPT !.of = <<r.type, r.gen>>])
           \/ \* the old socket's calls end, and nobody of this tab is told
              /\ r.type = "lost"
              /\ server' = IF server.mine \/ server.accepted THEN NoCall ELSE server
              /\ UNCHANGED down
    /\ UNCHANGED <<f, ready, spent>>

Peer ==
    /\ \/ /\ server.call = 0 /\ server.last < MaxCalls /\ ~f.closed
          /\ \E conv \in Conversations :
               /\ server' = Reserved(conv, FALSE, 0)
               /\ Emit(Note("incoming", server.last + 1, conv))
          /\ UNCHANGED spent
       \/ /\ server.mine /\ ~server.accepted
          /\ server' = [server EXCEPT !.accepted = TRUE]
          /\ Emit(Note("accepted", server.call, server.conv))
          /\ UNCHANGED spent
       \/ /\ server.call # 0
          /\ server' = NoCall
          /\ Emit(Note("ended", server.call, server.conv))
          /\ UNCHANGED spent
       \/ /\ server.accepted /\ Spend
          /\ Emit(Note("signal", server.call, server.conv))
          /\ UNCHANGED server
    /\ UNCHANGED <<f, up, ready>>

User == Accept \/ HangUp \/ ToggleMute \/ ToggleScreenShare \/ SelectInputDevice \/ Close
          \/ \E conv \in Conversations : Start(conv)

Promises == \E x \in f.waits : StartMicrophone(x) \/ Device(x) \/ Replace(x)

Chains == \E i \in DOMAIN f.ops :
    \/ AcceptedRuns(i) \/ AcceptedMicrophone(i) \/ SignalRuns(i)
    \/ StopScreenShare(i) \/ StartScreenShare(i) \/ Display(i)
    \/ ShareReplaced(i) \/ ShareCleared(i)

Next ==
    \/ User \/ DismissFires \/ Promises \/ Chains \/ Connection \/ Drop \/ Recover
    \/ \E c \in Captures : ScreenEnds(c)
    \/ \E e \in down : HandleEvent(e)
    \/ ServerHandles \/ Peer

Spec == Init /\ [][Next]_vars

(* Properties.                                                             *)

\* A microphone or a screen that is still captured is the one the call uses, or
\* waits to become it: none is lost track of and stays on after the call.
CapturesAreOwned ==
    f.live \subseteq {f.stream, f.screen} \cup {x.new : x \in f.waits}
                    \cup {f.ops[i].new : i \in DOMAIN f.ops}

\* A peer connection that is open is the current one.
ConnectionsAreOwned == f.open \subseteq {f.conn}

\* Whatever older calls, selections and senders still answer, every capture and
\* every open connection is the call's of now or on its way to be stopped
\* (call-facade.service.ts:118, :739).
MediaIsOwned == TypeOK /\ CapturesAreOwned /\ ConnectionsAreOwned

\* Once a call is over and nothing of it is under way, nothing is captured.
TracksStop == f.phase \in Over /\ f.waits = {} /\ f.ops = <<>> => f.live = {}

\* A call that is over for this tab never comes back, whatever the server still
\* says of it.
RetiredStaysRetired == f.call \notin f.retired

\* The timer of a notice runs only while no call is on: it wipes the state when
\* it fires.
NoticeNeverEndsACall == f.timer => f.phase \in Over

\* A call that was left never comes back, by its own late events or by the timer
\* of a notice (call-facade.service.ts:398, :757).
CallsStayOver == RetiredStaysRetired /\ NoticeNeverEndsACall

\* A call ends by its own user, events and failures. (A rejection names the
\* request, a promise or an operation, the first of its chain, the generation.)
EndsByItsOwn ==
    f.phase \in Ongoing /\ f'.phase = "error" /\ ready' =>
      /\ \A e \in down \ down' : e.type = "rejected" => e.of[2] = f.gen
      /\ \A x \in f.waits \ f'.waits : x.gen = f.gen
      /\ \A i \in DOMAIN f.ops :
           First(i) /\ Len(f'.ops) < Len(f.ops) /\ f'.ops = RemoveAt(f.ops, i) =>
             f.ops[i].gen = f.gen

\* What outlives a call does not end the next: no callback of an older generation
\* fails the call of now (call-facade.service.ts:118).
OlderFailuresAreFenced == [][EndsByItsOwn]_vars

\* Nothing is under way between the tab and the server.
Quiet == up = <<>> /\ down = {} /\ ready /\ ~f.closed

\* A call of this user that the server still holds is the one the tab shows,
\* so that the tab can end it. Two exceptions the code has: a call that rang
\* when the connection was lost, and a cancel the peer's accept was ahead of.
NoCallIsStranded ==
    Quiet /\ server.call # 0 =>
      \/ f.call = server.call
      \/ server.refused
      \/ Drops /\ ~server.mine /\ ~server.accepted

\* What the mute button says is so: the microphone of a muted call is silent.
MutedIsSilent == f.muted => f.stream \notin f.loud
=============================================================================
