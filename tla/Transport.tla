------------------------------ MODULE Transport ------------------------------
(***************************************************************************)
(* DataProviderService of the frontend: one WebSocket at a time, opened    *)
(* with a ticket fetched over HTTP, replaced after a failure on a backoff  *)
(* timer, and called ready once the presence snapshot arrived and no       *)
(* recovery request is open.                                               *)
(*                                                                         *)
(* The event loop runs one callback to its end, so every action is a whole *)
(* callback. What interleaves is which callback is next: the answer to a   *)
(* ticket request, the events of sockets already given up, the timer, and  *)
(* the calls of Home and of the user. A connection attempt is named by the *)
(* connectionGeneration that connect() draws for it; so is its socket.     *)
(***************************************************************************)
EXTENDS Naturals

CONSTANTS
    MaxFaults,      \* failures, retries and closings of a run
    MaxRequests     \* recovery requests of a run

ASSUME TransportAssumption == MaxFaults \in Nat /\ MaxRequests \in Nat

VARIABLES
    dp,         \* the fields of the service
    tickets,    \* attempts whose ticket request is in flight
    opening,    \* sockets created and not yet open
    live,       \* open sockets, from the browser's point of view
    disposed,   \* sockets the service completed and unsubscribed
    asked,      \* recovery requests on their way: <<socket, request>>
    heard,      \* the socket whose event was emitted last
    greeted,    \* sockets whose presence snapshot was emitted
    requests,   \* recovery requests drawn so far
    faults

vars == <<dp, tickets, opening, live, disposed, asked, heard, greeted, requests,
          faults>>
sockets == <<opening, live>>

None == 0
ConnectionState == {"offline", "connecting", "recovering", "ready", "failed"}
Attempts == Nat \ {None}

TypeOK ==
    /\ dp \in [started : BOOLEAN, closed : BOOLEAN, generation : Nat,
               socket : Nat, open : BOOLEAN, ready : BOOLEAN,
               timer : BOOLEAN, attempt : 0 .. 5, state : ConnectionState,
               request : Nat, snapshot : BOOLEAN]
    /\ tickets \in SUBSET Attempts
    /\ opening \in SUBSET Attempts
    /\ live \in SUBSET Attempts
    /\ disposed \in SUBSET Attempts
    /\ asked \in SUBSET (Attempts \X Attempts)
    /\ heard \in Nat
    /\ greeted \in SUBSET Attempts
    /\ requests \in Nat
    /\ faults \in Nat

Init ==
    /\ dp = [started |-> FALSE, closed |-> FALSE, generation |-> 0,
             socket |-> None, open |-> FALSE, ready |-> FALSE, timer |-> FALSE,
             attempt |-> 0, state |-> "offline", request |-> None,
             snapshot |-> FALSE]
    /\ tickets = {} /\ opening = {} /\ live = {} /\ disposed = {}
    /\ asked = {} /\ heard = None /\ greeted = {} /\ requests = 0 /\ faults = 0

-----------------------------------------------------------------------------
(* The private methods, as functions of the service's fields.              *)

\* Faulty: an attempt that was replaced still creates its socket.
CurrentAnyAttempt(d, g) == ~ d.closed

\* The fence of the callbacks of attempt g.
Current(d, g) == ~ d.closed /\ g = d.generation

\* Faulty: the events of replaced sockets are heard.
ListenedAlways(d, g) == ~ d.closed

\* The fence of the socket's own callbacks.
Listened(d, g) == Current(d, g) /\ d.socket = g

\* connect(), up to the request it sends.
Connecting(d) ==
    [d EXCEPT !.generation = @ + 1,
              !.state = IF @ = "failed" THEN "failed" ELSE "connecting"]

\* Faulty: the failed attempt stays current.
ReconnectingSameAttempt(d) ==
    IF d.closed \/ d.timer THEN d
    ELSE [d EXCEPT !.socket = None, !.open = FALSE, !.ready = FALSE,
                   !.state = "failed", !.timer = TRUE,
                   !.attempt = IF @ = 5 THEN 5 ELSE @ + 1]

\* Faulty: the exponent is not capped.
ReconnectingUncapped(d) ==
    IF d.closed \/ d.timer THEN d
    ELSE [d EXCEPT !.generation = @ + 1, !.socket = None, !.open = FALSE,
                   !.ready = FALSE, !.state = "failed", !.timer = TRUE,
                   !.attempt = 2 * @ + 1]

\* Faulty: the reconnection is announced but its timer is not set.
ReconnectingNever(d) ==
    IF d.closed \/ d.timer THEN d
    ELSE [d EXCEPT !.generation = @ + 1, !.socket = None, !.open = FALSE,
                   !.ready = FALSE, !.state = "failed"]

\* scheduleReconnect(). The number of attempts only matters up to five.
Reconnecting(d) ==
    IF d.closed \/ d.timer THEN d
    ELSE [d EXCEPT !.generation = @ + 1, !.socket = None, !.open = FALSE,
                   !.ready = FALSE, !.state = "failed", !.timer = TRUE,
                   !.attempt = IF @ = 5 THEN 5 ELSE @ + 1]

\* Faulty: the open recovery request is forgotten by the check.
CompletedEarly(d) ==
    IF d.closed \/ ~ d.open \/ ~ d.snapshot THEN d
    ELSE [d EXCEPT !.ready = TRUE, !.state = "ready"]

\* completeRecoveryIfReady().
Completed(d) ==
    IF d.closed \/ ~ d.open \/ d.request # None \/ ~ d.snapshot THEN d
    ELSE [d EXCEPT !.ready = TRUE, !.state = "ready"]

\* The socket a step takes away from the service is completed by it.
Released(d, e) == IF d.socket # e.socket /\ d.socket # None THEN {d.socket} ELSE {}

\* A failure seen by the service: the fields, and the socket it lets go.
Failing(d) ==
    /\ dp' = Reconnecting(d)
    /\ disposed' = disposed \cup Released(d, dp')

Fault == faults < MaxFaults /\ faults' = faults + 1

-----------------------------------------------------------------------------
(* Calls of the rest of the frontend.                                      *)

getObservable ==
    /\ ~ dp.started
    /\ dp' = IF dp.closed THEN [dp EXCEPT !.started = TRUE]
             ELSE Connecting([dp EXCEPT !.started = TRUE])
    /\ tickets' = IF dp.closed THEN tickets ELSE tickets \cup {dp'.generation}
    /\ UNCHANGED <<sockets, disposed, asked, heard, greeted, requests, faults>>

\* send(): only its failure changes the service. A throwing socket is given up.
sendThrows ==
    /\ Fault
    /\ dp.socket # None /\ dp.ready
    /\ Failing(dp)
    /\ UNCHANGED <<tickets, sockets, asked, heard, greeted, requests>>

\* recover(): the request is remembered first, then sent or given up with the
\* socket.
recover ==
    /\ dp.open /\ ~ dp.closed
    /\ requests < MaxRequests
    /\ requests' = requests + 1
    /\ LET d == [dp EXCEPT !.request = requests'] IN
       \/ /\ dp' = d
          /\ asked' = asked \cup {<<dp.socket, requests'>>}
          /\ UNCHANGED <<disposed, faults>>
       \/ /\ Fault
          /\ Failing(d)
          /\ UNCHANGED asked
    /\ UNCHANGED <<tickets, sockets, heard, greeted>>

finishRecovery ==
    /\ dp' = Completed([dp EXCEPT !.request = None])
    /\ UNCHANGED <<tickets, sockets, disposed, asked, heard, greeted, requests, faults>>

failRecovery ==
    /\ Fault
    /\ ~ dp.closed /\ dp.started
    /\ Failing(dp)
    /\ UNCHANGED <<tickets, sockets, asked, heard, greeted, requests>>

\* retryNow(): the timer is cleared and a new attempt replaces whatever runs.
retryNow ==
    /\ Fault
    /\ ~ dp.closed /\ dp.started
    /\ dp' = Connecting([dp EXCEPT !.timer = FALSE, !.socket = None,
                                   !.open = FALSE, !.ready = FALSE,
                                   !.generation = @ + 1,
                                   !.state = "connecting"])
    /\ disposed' = disposed \cup Released(dp, dp')
    /\ tickets' = tickets \cup {dp'.generation}
    /\ UNCHANGED <<sockets, asked, heard, greeted, requests>>

\* close(): the socket stays in its field but is completed.
close ==
    /\ Fault
    /\ ~ dp.closed
    /\ dp' = [dp EXCEPT !.closed = TRUE, !.generation = @ + 1,
                        !.timer = FALSE, !.state = "offline"]
    /\ disposed' = disposed \cup ({dp.socket} \ {None})
    /\ UNCHANGED <<tickets, sockets, asked, heard, greeted, requests>>

-----------------------------------------------------------------------------
(* Callbacks.                                                              *)

\* The ticket of attempt g arrives: an attempt that is no longer current
\* creates no socket.
TicketArrives(g) ==
    /\ g \in tickets
    /\ tickets' = tickets \ {g}
    /\ IF Current(dp, g)
       THEN dp' = [dp EXCEPT !.socket = g] /\ opening' = opening \cup {g}
       ELSE UNCHANGED <<dp, opening>>
    /\ UNCHANGED <<live, disposed, asked, heard, greeted, requests, faults>>

TicketFails(g) ==
    /\ Fault
    /\ g \in tickets
    /\ tickets' = tickets \ {g}
    /\ IF Current(dp, g) THEN Failing(dp) ELSE UNCHANGED <<dp, disposed>>
    /\ UNCHANGED <<sockets, asked, heard, greeted, requests>>

\* Faulty: the snapshot of the previous socket counts for the new one.
SocketOpensGreeted(g) ==
    /\ g \in opening
    /\ opening' = opening \ {g}
    /\ live' = live \cup {g}
    /\ dp' = IF Listened(dp, g)
             THEN [dp EXCEPT !.attempt = 0, !.open = TRUE, !.request = None,
                             !.state = "recovering"]
             ELSE dp
    /\ UNCHANGED <<tickets, disposed, asked, heard, greeted, requests, faults>>

\* openObserver.
SocketOpens(g) ==
    /\ g \in opening
    /\ opening' = opening \ {g}
    /\ live' = live \cup {g}
    /\ dp' = IF Listened(dp, g)
             THEN [dp EXCEPT !.attempt = 0, !.open = TRUE, !.snapshot = FALSE,
                             !.request = None, !.state = "recovering"]
             ELSE dp
    /\ UNCHANGED <<tickets, disposed, asked, heard, greeted, requests, faults>>

\* closeObserver, and the error or complete that follows it at once. A socket
\* that the service completed closes without counting as a fault.
SocketCloses(g) ==
    /\ g \in opening \cup live
    /\ opening' = opening \ {g}
    /\ live' = live \ {g}
    /\ asked' = {a \in asked : a[1] # g}
    /\ IF Listened(dp, g)
       THEN Fault /\ Failing([dp EXCEPT !.ready = FALSE, !.open = FALSE])
       ELSE UNCHANGED <<dp, disposed, faults>>
    /\ UNCHANGED <<tickets, heard, greeted, requests>>

\* A frame that cannot be parsed: the subscriber's error, without a close.
SocketErrors(g) ==
    /\ Fault
    /\ g \in live
    /\ IF Listened(dp, g)
       THEN Failing(dp) ELSE UNCHANGED <<dp, disposed>>
    /\ UNCHANGED <<tickets, sockets, asked, heard, greeted, requests>>

\* next: a frame of socket g. The event is emitted first; what the service
\* does with it then depends on its type.
Emits(g, d) ==
    IF Listened(dp, g)
    THEN heard' = g /\ dp' = d
    ELSE UNCHANGED <<heard, dp>>

PresenceSnapshot(g) ==
    /\ g \in live
    /\ Emits(g, Completed([dp EXCEPT !.snapshot = TRUE]))
    /\ greeted' = IF Listened(dp, g) THEN greeted \cup {g} ELSE greeted
    /\ UNCHANGED <<tickets, sockets, disposed, asked, requests, faults>>

\* conversation.reconciled: a page that has more keeps the recovery open.
Reconciled(g, id, more) ==
    /\ <<g, id>> \in asked
    /\ asked' = asked \ {<<g, id>>}
    /\ Emits(g, IF id = dp.request /\ ~ more
                THEN Completed([dp EXCEPT !.request = None]) ELSE dp)
    /\ UNCHANGED <<tickets, sockets, disposed, greeted, requests, faults>>

\* message.rejected of the recovery request ends it.
Rejected(g, id) ==
    /\ <<g, id>> \in asked
    /\ asked' = asked \ {<<g, id>>}
    /\ Emits(g, IF id = dp.request
                THEN Completed([dp EXCEPT !.request = None]) ELSE dp)
    /\ UNCHANGED <<tickets, sockets, disposed, greeted, requests, faults>>

\* The backoff timer of scheduleReconnect.
TimerFires ==
    /\ dp.timer
    /\ dp' = Connecting([dp EXCEPT !.timer = FALSE])
    /\ tickets' = tickets \cup {dp'.generation}
    /\ UNCHANGED <<sockets, disposed, asked, heard, greeted, requests, faults>>

-----------------------------------------------------------------------------
Next ==
    \/ getObservable \/ sendThrows \/ recover \/ finishRecovery
    \/ failRecovery \/ retryNow \/ close \/ TimerFires
    \/ \E g \in tickets : TicketArrives(g) \/ TicketFails(g)
    \/ \E g \in opening \cup live :
          SocketOpens(g) \/ SocketCloses(g) \/ SocketErrors(g) \/ PresenceSnapshot(g)
    \/ \E a \in asked :
          \/ \E more \in BOOLEAN : Reconciled(a[1], a[2], more)
          \/ Rejected(a[1], a[2])

Spec == Init /\ [][Next]_vars

\* The event loop runs: requests are answered, sockets open, the timer fires.
Fairness ==
    /\ WF_vars(getObservable)
    /\ WF_vars(TimerFires)
    /\ WF_vars(\E g \in tickets : TicketArrives(g) \/ TicketFails(g))
    /\ WF_vars(\E g \in opening : SocketOpens(g) \/ SocketCloses(g))

FairSpec == Spec /\ Fairness

-----------------------------------------------------------------------------
(* Properties.                                                             *)

\* Between its start and its end the service is working on exactly one
\* connection: the ticket request of the current generation, its socket, or
\* the timer of the next attempt. It is never left with nothing under way and
\* never runs two attempts (data-provider.service.ts:512, :568).
Attempting ==
    {w \in {"ticket", "socket", "timer"} :
        CASE w = "ticket" -> dp.generation \in tickets
          [] w = "socket" -> dp.socket # None
          [] w = "timer"  -> dp.timer}
OneAttempt ==
    dp.started /\ ~ dp.closed => \E w \in Attempting : Attempting = {w}

\* Every socket other than the one the service holds has been completed by it:
\* no reconnection, however it overlaps with an attempt, leaves a socket open
\* that nobody will close (data-provider.service.ts:518, :577).
NoSocketLeaks ==
    \A g \in opening \cup live : g \in disposed \/ (g = dp.socket /\ ~ dp.closed)
OneConnection == OneAttempt /\ NoSocketLeaks

\* A service that says ready has an open socket of the current generation and
\* has been told who is online by this very socket, not by the one before
\* (data-provider.service.ts:527, :598).
ReadyIsEarned ==
    dp.state = "ready" =>
        /\ dp.ready /\ dp.open
        /\ dp.socket = dp.generation
        /\ dp.socket \in live \cap greeted

\* Events reach the subscribers in the order of the connections: once a newer
\* socket spoke, no event of an older one is emitted
\* (data-provider.service.ts:542).
NewestSpeaks == [][heard' >= heard]_heard

\* The inductive invariant behind these properties. A service that was not
\* started has nothing under way; whatever was under way before belongs to a
\* generation already drawn; and while the service is not closed, its fields
\* tell the truth about its one socket.
Nothing ==
    dp.socket = None /\ ~ dp.open /\ ~ dp.timer /\ tickets = {} /\ opening \cup live = {}
Drawn ==
    /\ tickets \cup opening \cup live \subseteq 1 .. dp.generation
    /\ dp.socket <= dp.generation /\ heard <= dp.generation
    /\ tickets \cap (opening \cup live) = {}
SocketIsOpen ==
    /\ dp.socket \in live \ opening
    /\ dp.snapshot => dp.socket \in greeted
FieldsAgree ==
    /\ dp.socket # None => dp.socket = dp.generation
    /\ dp.open => SocketIsOpen
    /\ dp.open <=> dp.state \in {"recovering", "ready"}
    /\ dp.state = "ready" => dp.snapshot /\ dp.ready
    /\ dp.state = "offline" <=> ~ dp.started
    /\ dp.started => \/ dp.socket = None /\ dp.generation \in tickets /\ ~ dp.timer
                     \/ dp.socket # None /\ dp.generation \notin tickets /\ ~ dp.timer
                     \/ dp.socket = None /\ dp.generation \notin tickets /\ dp.timer
    /\ dp.socket = None => ~ dp.open
IInv ==
    /\ TypeOK
    /\ ~ dp.started => Nothing
    /\ Drawn
    /\ IF dp.closed THEN dp.state = "offline" /\ ~ dp.timer ELSE FieldsAgree
    /\ NoSocketLeaks

\* A started service reaches an open socket or is closed, however often a
\* bounded number of tickets and sockets fail on the way
\* (data-provider.service.ts:568).
Reopens == dp.started ~> dp.open \/ dp.closed

\* The service keeps the promise of Connection.
C == INSTANCE Connection WITH
        state <- dp.state, snapshot <- dp.snapshot, awaited <- dp.request
ImplementsConnection == C!ConnectionSpec
=============================================================================
