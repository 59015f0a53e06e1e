--------------------------- MODULE TransportProofs ---------------------------
(***************************************************************************)
(* Proofs about the connection of the frontend and the list of Home. The   *)
(* transport, for any number of faults and requests: one attempt runs at a *)
(* time, no socket is leaked, a ready connection earned it on its own      *)
(* socket, no older socket is heard after a newer one, and all of it       *)
(* refines Connection. They rest on IInv: whatever is under way belongs to *)
(* a generation that was drawn, and while the service is not closed its    *)
(* fields tell the truth about its one socket.                             *)
(* The list, for any chats, retries and steps: it agrees with the chat     *)
(* selected, the loading signs and the recovery, and the newest list wins. *)
(* They rest on ListInv: what is asked for, answered and moved is ordered  *)
(* with what is shown by generations and by versions of the server.        *)
(***************************************************************************)
EXTENDS HomeConnection, TLAPS

Fields == [started : BOOLEAN, closed : BOOLEAN, generation : Nat,
           socket : Nat, open : BOOLEAN, ready : BOOLEAN,
           timer : BOOLEAN, attempt : 0 .. 5, state : ConnectionState,
           request : Nat, snapshot : BOOLEAN]

TypeRest ==
    /\ tickets \in SUBSET Attempts
    /\ opening \in SUBSET Attempts
    /\ live \in SUBSET Attempts
    /\ disposed \in SUBSET Attempts
    /\ asked \in SUBSET (Attempts \X Attempts)
    /\ heard \in Nat
    /\ greeted \in SUBSET Attempts
    /\ requests \in Nat
    /\ faults \in Nat

LEMMA TypeSplit == (TypeOK <=> dp \in Fields /\ TypeRest) /\ (TypeOK' <=> dp' \in Fields /\ TypeRest')
  BY DEF TypeOK, Fields, TypeRest

-----------------------------------------------------------------------------
(* What the private methods leave in the fields. An update of several      *)
(* fields is typed one field at a time.                                    *)

LEMMA GivenUp ==
    ASSUME NEW d \in Fields, NEW n \in Nat, NEW a \in 0 .. 5
    PROVE  [d EXCEPT !.generation = n, !.socket = None, !.open = FALSE,
              !.ready = FALSE, !.state = "failed", !.timer = TRUE,
              !.attempt = a] \in Fields
<1>. DEFINE e1 == [d EXCEPT !.generation = n]
            e2 == [e1 EXCEPT !.socket = None]
            e3 == [e2 EXCEPT !.open = FALSE]
            e4 == [e3 EXCEPT !.ready = FALSE]
            e5 == [e4 EXCEPT !.state = "failed"]
            e6 == [e5 EXCEPT !.timer = TRUE]
            e7 == [e6 EXCEPT !.attempt = a]
<1>1. e1 \in Fields  BY DEF Fields
<1>2. e2 \in Fields  BY <1>1 DEF Fields, None
<1>3. e3 \in Fields  BY <1>2 DEF Fields
<1>4. e4 \in Fields  BY <1>3 DEF Fields
<1>5. e5 \in Fields  BY <1>4 DEF Fields, ConnectionState
<1>6. e6 \in Fields  BY <1>5 DEF Fields
<1>7. e7 \in Fields  BY <1>6 DEF Fields
<1>. QED  BY <1>7

LEMMA Drawing ==
    ASSUME NEW d \in Fields, NEW n \in Nat, NEW s \in ConnectionState
    PROVE  [d EXCEPT !.generation = n, !.state = s] \in Fields
<1>. DEFINE e1 == [d EXCEPT !.generation = n]
            e2 == [e1 EXCEPT !.state = s]
<1>1. e1 \in Fields  BY DEF Fields
<1>2. e2 \in Fields  BY <1>1 DEF Fields
<1>. QED  BY <1>2

LEMMA Readied ==
    ASSUME NEW d \in Fields
    PROVE  [d EXCEPT !.ready = TRUE, !.state = "ready"] \in Fields
<1>. DEFINE e1 == [d EXCEPT !.ready = TRUE]
            e2 == [e1 EXCEPT !.state = "ready"]
<1>1. e1 \in Fields  BY DEF Fields
<1>2. e2 \in Fields  BY <1>1 DEF Fields, ConnectionState
<1>. QED  BY <1>2

LEMMA Opened ==
    ASSUME NEW d \in Fields
    PROVE  [d EXCEPT !.attempt = 0, !.open = TRUE, !.snapshot = FALSE,
              !.request = None, !.state = "recovering"] \in Fields
<1>. DEFINE e1 == [d EXCEPT !.attempt = 0]
            e2 == [e1 EXCEPT !.open = TRUE]
            e3 == [e2 EXCEPT !.snapshot = FALSE]
            e4 == [e3 EXCEPT !.request = None]
            e5 == [e4 EXCEPT !.state = "recovering"]
<1>1. e1 \in Fields  BY DEF Fields
<1>2. e2 \in Fields  BY <1>1 DEF Fields
<1>3. e3 \in Fields  BY <1>2 DEF Fields
<1>4. e4 \in Fields  BY <1>3 DEF Fields, None
<1>5. e5 \in Fields  BY <1>4 DEF Fields, ConnectionState
<1>. QED  BY <1>5

LEMMA Retried ==
    ASSUME NEW d \in Fields, NEW n \in Nat
    PROVE  [d EXCEPT !.timer = FALSE, !.socket = None, !.open = FALSE,
              !.ready = FALSE, !.generation = n, !.state = "connecting"] \in Fields
<1>. DEFINE e1 == [d EXCEPT !.timer = FALSE]
            e2 == [e1 EXCEPT !.socket = None]
            e3 == [e2 EXCEPT !.open = FALSE]
            e4 == [e3 EXCEPT !.ready = FALSE]
            e5 == [e4 EXCEPT !.generation = n]
            e6 == [e5 EXCEPT !.state = "connecting"]
<1>1. e1 \in Fields  BY DEF Fields
<1>2. e2 \in Fields  BY <1>1 DEF Fields, None
<1>3. e3 \in Fields  BY <1>2 DEF Fields
<1>4. e4 \in Fields  BY <1>3 DEF Fields
<1>5. e5 \in Fields  BY <1>4 DEF Fields
<1>6. e6 \in Fields  BY <1>5 DEF Fields, ConnectionState
<1>. QED  BY <1>6

LEMMA Shut ==
    ASSUME NEW d \in Fields, NEW n \in Nat
    PROVE  [d EXCEPT !.closed = TRUE, !.generation = n, !.timer = FALSE,
              !.state = "offline"] \in Fields
<1>. DEFINE e1 == [d EXCEPT !.closed = TRUE]
            e2 == [e1 EXCEPT !.generation = n]
            e3 == [e2 EXCEPT !.timer = FALSE]
            e4 == [e3 EXCEPT !.state = "offline"]
<1>1. e1 \in Fields  BY DEF Fields
<1>2. e2 \in Fields  BY <1>1 DEF Fields
<1>3. e3 \in Fields  BY <1>2 DEF Fields
<1>4. e4 \in Fields  BY <1>3 DEF Fields, ConnectionState
<1>. QED  BY <1>4

LEMMA ReconnectingFields ==
    ASSUME NEW d \in Fields, ~ d.closed, ~ d.timer
    PROVE  LET e == Reconnecting(d) IN
           /\ e \in Fields
           /\ e.started = d.started /\ ~ e.closed /\ e.timer
           /\ e.generation = d.generation + 1
           /\ e.socket = None /\ ~ e.open /\ ~ e.ready
           /\ e.state = "failed"
           /\ e.request = d.request /\ e.snapshot = d.snapshot
<1>. DEFINE n == d.generation + 1
            a == IF d.attempt = 5 THEN 5 ELSE d.attempt + 1
<1>1. a \in 0 .. 5 /\ n \in Nat
  BY DEF Fields
<1>2. Reconnecting(d) = [d EXCEPT !.generation = n, !.socket = None, !.open = FALSE,
                           !.ready = FALSE, !.state = "failed", !.timer = TRUE,
                           !.attempt = a]
  BY DEF Reconnecting
<1>. HIDE DEF a, n
<1>3. Reconnecting(d) \in Fields
  <2>1. n \in Nat /\ a \in 0 .. 5  BY <1>1
  <2>2. [d EXCEPT !.generation = n, !.socket = None, !.open = FALSE,
                  !.ready = FALSE, !.state = "failed", !.timer = TRUE,
                  !.attempt = a] \in Fields
    BY <2>1, GivenUp, Zenon
  <2>. QED  BY <1>2, <2>2
<1>4. n = d.generation + 1
  BY DEF n
<1>. QED  BY <1>2, <1>3, <1>4 DEF Fields

LEMMA ConnectingFields ==
    ASSUME NEW d \in Fields
    PROVE  LET e == Connecting(d) IN
           /\ e \in Fields
           /\ e.started = d.started /\ e.closed = d.closed /\ e.timer = d.timer
           /\ e.generation = d.generation + 1
           /\ e.socket = d.socket /\ e.open = d.open /\ e.ready = d.ready
           /\ e.state \in {"failed", "connecting"}
           /\ e.request = d.request /\ e.snapshot = d.snapshot
<1>. DEFINE n == d.generation + 1
            s == IF d.state = "failed" THEN "failed" ELSE "connecting"
<1>1. s \in {"failed", "connecting"} /\ s \in ConnectionState /\ n \in Nat
  BY DEF ConnectionState, Fields
<1>2. Connecting(d) = [d EXCEPT !.generation = n, !.state = s]
  BY DEF Connecting
<1>. HIDE DEF s, n
<1>3. Connecting(d) \in Fields
  <2>1. [d EXCEPT !.generation = n, !.state = s] \in Fields
    BY <1>1, Drawing, Zenon
  <2>. QED  BY <1>2, <2>1
<1>4. n = d.generation + 1
  BY DEF n
<1>. QED  BY <1>1, <1>2, <1>3, <1>4 DEF Fields

LEMMA CompletedFields ==
    ASSUME NEW d \in Fields
    PROVE  LET e == Completed(d) IN
           /\ e \in Fields
           /\ e.started = d.started /\ e.closed = d.closed /\ e.timer = d.timer
           /\ e.generation = d.generation /\ e.socket = d.socket /\ e.open = d.open
           /\ e.request = d.request /\ e.snapshot = d.snapshot
           /\ IF d.closed \/ ~ d.open \/ d.request # None \/ ~ d.snapshot
              THEN e.ready = d.ready /\ e.state = d.state
              ELSE e.ready /\ e.state = "ready"
<1>1. CASE d.closed \/ ~ d.open \/ d.request # None \/ ~ d.snapshot
  BY <1>1 DEF Completed
<1>2. CASE ~ (d.closed \/ ~ d.open \/ d.request # None \/ ~ d.snapshot)
  <2>1. Completed(d) = [d EXCEPT !.ready = TRUE, !.state = "ready"]
    BY <1>2 DEF Completed
  <2>2. Completed(d) \in Fields
    BY <2>1, Readied, Zenon
  <2>. QED  BY <1>2, <2>1, <2>2 DEF Fields
<1>. QED  BY <1>1, <1>2

-----------------------------------------------------------------------------
(* The inductive invariant.                                                *)

LEMMA InitIInv == Init => IInv
  BY DEF Init, IInv, TypeOK, ConnectionState, Attempts, None, Nothing, Drawn,
     FieldsAgree, NoSocketLeaks

\* A failure of the current attempt: its socket, if it has one, is completed,
\* and its ticket belongs to an older generation from now on.
LEMMA FailingStep ==
    ASSUME IInv, TypeRest', ~ dp.closed, dp.started, ~ dp.timer,
           NEW d \in Fields,
           d.started, ~ d.closed, ~ d.timer,
           d.generation = dp.generation, d.socket = dp.socket,
           Failing(d),
           tickets' \subseteq tickets,
           opening' \subseteq opening, live' \subseteq live,
           heard' = heard
    PROVE  IInv'
<1>1. /\ dp' \in Fields
      /\ dp'.started /\ ~ dp'.closed /\ dp'.timer
      /\ dp'.generation = dp.generation + 1
      /\ dp'.socket = None /\ ~ dp'.open /\ ~ dp'.ready
      /\ dp'.state = "failed"
  BY ReconnectingFields DEF Failing
<1>2. disposed' = disposed \cup (IF dp.socket # None THEN {dp.socket} ELSE {})
  BY <1>1 DEF Failing, Released
<1>3. dp.generation \in Nat /\ heard \in Nat /\ Drawn /\ NoSocketLeaks /\ FieldsAgree
  BY DEF IInv, TypeOK
<1>4. dp'.generation \notin tickets'
  BY <1>1, <1>3 DEF Drawn
<1>5. Drawn'
  BY <1>1, <1>3 DEF Drawn, None
<1>6. NoSocketLeaks'
  BY <1>2, <1>3 DEF NoSocketLeaks, None, IInv, TypeOK, TypeRest, Attempts
<1>7. FieldsAgree'
  BY <1>1, <1>4 DEF FieldsAgree
<1>. QED  BY <1>1, <1>5, <1>6, <1>7, TypeSplit DEF IInv


\* A new attempt, after whatever was the last: nothing else is under way that is
\* not completed.
LEMMA AttemptStep ==
    ASSUME IInv, TypeRest', ~ dp.closed,
           NEW d \in Fields,
           d.started, ~ d.closed, ~ d.timer, d.socket = None, ~ d.open,
           d.generation >= dp.generation,
           dp' = Connecting(d),
           tickets' = tickets \cup {dp'.generation},
           UNCHANGED <<opening, live, heard>>,
           opening \cup live \subseteq disposed'
    PROVE  IInv'
<1>1. /\ dp' \in Fields
      /\ dp'.started /\ ~ dp'.closed /\ ~ dp'.timer
      /\ dp'.generation = d.generation + 1
      /\ dp'.socket = None /\ ~ dp'.open
      /\ dp'.state \in {"failed", "connecting"}
  BY ConnectingFields
<1>2. dp.generation \in Nat /\ d.generation \in Nat /\ heard \in Nat /\ Drawn
  BY DEF IInv, TypeOK, Fields
<1>3. Drawn'
  BY <1>1, <1>2 DEF Drawn, None
<1>4. FieldsAgree'
  BY <1>1 DEF FieldsAgree
<1>5. NoSocketLeaks'
  BY DEF NoSocketLeaks
<1>. QED  BY <1>1, <1>3, <1>4, <1>5, TypeSplit DEF IInv

\* Something of an older attempt, or of a closed service, goes away.
LEMMA LateStep ==
    ASSUME IInv, TypeRest', dp' = dp,
           tickets' \subseteq tickets,
           ~ dp.closed /\ dp.generation \in tickets => dp.generation \in tickets',
           opening' \cup live' \subseteq opening \cup live,
           ~ dp.closed /\ dp.open => dp.socket \in live' \ opening',
           disposed \subseteq disposed', greeted \subseteq greeted', heard' = heard
    PROVE  IInv'
<1>1. TypeOK'
  BY TypeSplit DEF IInv
<1>2. Drawn'
  BY DEF IInv, Drawn
<1>3. ~ dp.closed => FieldsAgree'
  BY DEF IInv, FieldsAgree, SocketIsOpen
<1>4. NoSocketLeaks'
  BY DEF IInv, NoSocketLeaks
<1>5. ~ dp'.started => Nothing'
  BY DEF IInv, Nothing
<1>. QED  BY <1>1, <1>2, <1>3, <1>4, <1>5 DEF IInv

\* What a recovery waits for comes or is given up.
LEMMA RecoveryStep ==
    ASSUME IInv, TypeRest',
           NEW d \in Fields,
           d.started = dp.started, d.closed = dp.closed, d.generation = dp.generation,
           d.socket = dp.socket, d.open = dp.open, d.timer = dp.timer, d.ready = dp.ready,
           d.state = dp.state, dp.snapshot => d.snapshot,
           dp' = Completed(d) \/ dp' = d,
           UNCHANGED <<tickets, opening, live, disposed>>,
           heard' <= dp.generation, greeted \subseteq greeted',
           ~ dp.closed /\ dp.open /\ d.snapshot => dp.socket \in greeted'
    PROVE  IInv'
<1>1. /\ dp' \in Fields
      /\ dp'.started = dp.started /\ dp'.closed = dp.closed /\ dp'.timer = dp.timer
      /\ dp'.generation = dp.generation /\ dp'.socket = dp.socket /\ dp'.open = dp.open
      /\ dp'.snapshot = d.snapshot
      /\ \/ dp'.ready = dp.ready /\ dp'.state = dp.state
         \/ ~ dp.closed /\ dp.open /\ d.snapshot /\ dp'.ready /\ dp'.state = "ready"
  BY CompletedFields DEF Fields
<1>2. TypeOK'
  BY <1>1, TypeSplit
<1>3. Drawn'
  BY <1>1 DEF IInv, Drawn
<1>4. ~ dp.closed => FieldsAgree'
  BY <1>1 DEF IInv, FieldsAgree, SocketIsOpen
<1>5. NoSocketLeaks'
  BY <1>1 DEF IInv, NoSocketLeaks
<1>6. ~ dp'.started => Nothing'
  BY <1>1 DEF IInv, Nothing
<1>. QED  BY <1>1, <1>2, <1>3, <1>4, <1>5, <1>6 DEF IInv

-----------------------------------------------------------------------------
(* The actions.                                                            *)

LEMMA StartStep == ASSUME IInv, getObservable PROVE IInv'
<1>. DEFINE d == [dp EXCEPT !.started = TRUE]
<1>1. d \in Fields /\ dp \in Fields /\ TypeRest /\ dp.generation \in Nat
  BY TypeSplit DEF IInv, Fields
<1>2. CASE dp.closed
  <2>1. dp' = d /\ UNCHANGED <<tickets, opening, live, disposed, asked, heard, greeted, requests, faults>>
    BY <1>2 DEF getObservable, sockets
  <2>2. TypeOK'
    BY <1>1, <2>1, TypeSplit DEF TypeRest
  <2>. QED  BY <1>1, <1>2, <2>1, <2>2 DEF IInv, Drawn, NoSocketLeaks, Fields
<1>3. CASE ~ dp.closed
  <2>1. /\ dp' = Connecting(d) /\ tickets' = tickets \cup {dp'.generation}
        /\ UNCHANGED <<opening, live, disposed, asked, heard, greeted, requests, faults>>
    BY <1>3 DEF getObservable, sockets
  <2>2. d.started /\ ~ d.closed /\ ~ d.timer /\ d.socket = None /\ ~ d.open
        /\ d.generation = dp.generation /\ opening \cup live = {}
    BY <1>1, <1>3 DEF getObservable, IInv, Nothing, Fields
  <2>3. dp'.generation = dp.generation + 1
    BY <1>1, <2>1, <2>2, ConnectingFields
  <2>4. TypeRest'
    BY <1>1, <2>1, <2>3 DEF TypeRest, Attempts, None
  <2>. HIDE DEF d
  <2>. QED  BY <1>1, <1>3, <2>1, <2>2, <2>4, AttemptStep
<1>. QED  BY <1>2, <1>3

LEMMA TimerStep == ASSUME IInv, TimerFires PROVE IInv'
<1>. DEFINE d == [dp EXCEPT !.timer = FALSE]
<1>1. d \in Fields /\ dp \in Fields /\ TypeRest /\ dp.generation \in Nat
  BY TypeSplit DEF IInv, Fields
<1>2. /\ dp' = Connecting(d) /\ tickets' = tickets \cup {dp'.generation} /\ dp.timer
      /\ UNCHANGED <<opening, live, disposed, asked, heard, greeted, requests, faults>>
  BY DEF TimerFires, sockets
<1>3. dp'.generation = dp.generation + 1
  BY <1>1, <1>2, ConnectingFields DEF Fields
<1>4. TypeRest'
  BY <1>1, <1>2, <1>3 DEF TypeRest, Attempts, None
<1>5. ~ dp.closed /\ dp.started /\ dp.socket = None /\ ~ dp.open
  BY <1>2 DEF IInv, Nothing, FieldsAgree
<1>6. opening \cup live \subseteq disposed'
  BY <1>1, <1>2, <1>5 DEF IInv, NoSocketLeaks, TypeRest, Attempts
<1>7. d.started /\ ~ d.closed /\ ~ d.timer /\ d.socket = None /\ ~ d.open
      /\ d.generation = dp.generation
  BY <1>1, <1>5 DEF Fields
<1>. HIDE DEF d
<1>. QED  BY <1>1, <1>2, <1>4, <1>5, <1>6, <1>7, AttemptStep

LEMMA RetryStep == ASSUME IInv, retryNow PROVE IInv'
<1>. DEFINE n == dp.generation + 1
            d == [dp EXCEPT !.timer = FALSE, !.socket = None, !.open = FALSE,
                            !.ready = FALSE, !.generation = n, !.state = "connecting"]
<1>1. dp \in Fields /\ TypeRest /\ dp.generation \in Nat /\ n \in Nat
  BY TypeSplit DEF IInv, Fields
<1>2. d \in Fields
  BY <1>1, Retried, Zenon
<1>3. /\ dp' = Connecting(d) /\ ~ dp.closed /\ dp.started
      /\ disposed' = disposed \cup Released(dp, dp')
      /\ tickets' = tickets \cup {dp'.generation}
      /\ faults' = faults + 1
      /\ UNCHANGED <<opening, live, asked, heard, greeted, requests>>
  BY DEF retryNow, sockets, Fault
<1>4. d.started /\ ~ d.closed /\ ~ d.timer /\ d.socket = None /\ ~ d.open
      /\ d.generation = n
  BY <1>1, <1>3 DEF Fields
<1>5. dp'.generation = n + 1 /\ dp'.socket = None
  <2>. HIDE DEF d
  <2>. QED  BY <1>2, <1>3, <1>4, ConnectingFields
<1>6. opening \cup live \subseteq disposed'
  BY <1>1, <1>3, <1>5 DEF IInv, NoSocketLeaks, Released, TypeRest, Attempts
<1>7. TypeRest'
  BY <1>1, <1>3, <1>5 DEF TypeRest, Attempts, None, Released, Fields
<1>8. d.generation >= dp.generation
  BY <1>1, <1>4
<1>. HIDE DEF d
<1>. QED  BY <1>2, <1>3, <1>4, <1>6, <1>7, <1>8, AttemptStep

\* A failure of the attempt that is under way.
LEMMA FailureType ==
    ASSUME TypeOK, NEW d \in Fields, Failing(d)
    PROVE  disposed' \in SUBSET Attempts
<1>1. d.socket \in Nat /\ disposed \in SUBSET Attempts
  BY DEF TypeOK, Fields
<1>2. Released(d, dp') \in SUBSET Attempts
  BY <1>1 DEF Released, Attempts
<1>. QED  BY <1>1, <1>2 DEF Failing

LEMMA ThrowStep == ASSUME IInv, sendThrows PROVE IInv'
<1>1. dp \in Fields /\ TypeRest /\ TypeOK
  BY TypeSplit DEF IInv
<1>2. /\ dp.socket # None /\ Failing(dp) /\ faults' = faults + 1
      /\ UNCHANGED <<tickets, opening, live, asked, heard, greeted, requests>>
  BY DEF sendThrows, sockets, Fault
<1>3. CASE dp.closed
  <2>1. dp' = dp /\ disposed' = disposed
    BY <1>2, <1>3 DEF Failing, Reconnecting, Released
  <2>2. TypeRest'
    BY <1>1, <1>2, <2>1 DEF TypeRest
  <2>. QED  BY <1>2, <1>3, <2>1, <2>2, LateStep
<1>4. CASE ~ dp.closed
  <2>1. dp.started /\ ~ dp.timer
    BY <1>2, <1>4 DEF IInv, Nothing, FieldsAgree
  <2>2. TypeRest'
    BY <1>1, <1>2, <1>4, <2>1, FailureType DEF TypeRest
  <2>. QED  BY <1>1, <1>2, <1>4, <2>1, <2>2, FailingStep
<1>. QED  BY <1>3, <1>4

LEMMA FailRecoveryStep == ASSUME IInv, failRecovery PROVE IInv'
<1>1. dp \in Fields /\ TypeRest /\ TypeOK
  BY TypeSplit DEF IInv
<1>2. /\ ~ dp.closed /\ dp.started /\ Failing(dp) /\ faults' = faults + 1
      /\ UNCHANGED <<tickets, opening, live, asked, heard, greeted, requests>>
  BY DEF failRecovery, sockets, Fault
<1>3. CASE dp.timer
  <2>1. dp' = dp /\ disposed' = disposed
    BY <1>2, <1>3 DEF Failing, Reconnecting, Released
  <2>2. TypeRest'
    BY <1>1, <1>2, <2>1 DEF TypeRest
  <2>3. dp.open => dp.socket \in live' \ opening'
    BY <1>2, <1>3 DEF IInv, FieldsAgree, SocketIsOpen
  <2>. QED  BY <1>2, <2>1, <2>2, <2>3, LateStep
<1>4. CASE ~ dp.timer
  <2>1. TypeRest'
    BY <1>1, <1>2, <1>4, FailureType DEF TypeRest
  <2>. QED  BY <1>1, <1>2, <1>4, <2>1, FailingStep
<1>. QED  BY <1>3, <1>4

LEMMA RecoverStep == ASSUME IInv, recover PROVE IInv'
<1>. DEFINE d == [dp EXCEPT !.request = requests']
<1>1. dp \in Fields /\ TypeRest /\ TypeOK
  BY TypeSplit DEF IInv
<1>2. /\ dp.open /\ ~ dp.closed /\ requests' = requests + 1
      /\ UNCHANGED <<tickets, opening, live, heard, greeted>>
      /\ \/ dp' = d /\ asked' = asked \cup {<<dp.socket, requests'>>}
            /\ UNCHANGED <<disposed, faults>>
         \/ Failing(d) /\ UNCHANGED asked /\ faults' = faults + 1
  BY DEF recover, sockets, Fault
<1>3. dp.started /\ ~ dp.timer /\ dp.socket # None /\ SocketIsOpen
  BY <1>2 DEF IInv, Nothing, FieldsAgree
<1>4. requests' \in Attempts
  BY <1>1, <1>2 DEF TypeRest, Attempts, None
<1>5. /\ d \in Fields
      /\ d.started = dp.started /\ d.closed = dp.closed /\ d.generation = dp.generation
      /\ d.socket = dp.socket /\ d.open = dp.open /\ d.timer = dp.timer
      /\ d.ready = dp.ready /\ d.state = dp.state /\ d.snapshot = dp.snapshot
  BY <1>1, <1>4 DEF Fields, Attempts
<1>6. CASE dp' = d /\ asked' = asked \cup {<<dp.socket, requests'>>}
            /\ UNCHANGED <<disposed, faults>>
  <2>1. TypeRest'
    BY <1>1, <1>2, <1>3, <1>4, <1>6 DEF TypeRest, Attempts, Fields
  <2>2. heard' <= dp.generation /\ (d.snapshot => dp.socket \in greeted')
    BY <1>2, <1>3, <1>5 DEF IInv, Drawn, SocketIsOpen
  <2>. HIDE DEF d
  <2>. QED  BY <1>2, <1>5, <1>6, <2>1, <2>2, RecoveryStep
<1>7. CASE Failing(d) /\ UNCHANGED asked /\ faults' = faults + 1
  <2>. HIDE DEF d
  <2>1. ~ d.closed /\ ~ d.timer /\ d.started
    BY <1>2, <1>3, <1>5
  <2>2. TypeRest'
    BY <1>1, <1>2, <1>4, <1>5, <1>7, <2>1, FailureType DEF TypeRest, Attempts
  <2>. QED  BY <1>2, <1>3, <1>5, <1>7, <2>1, <2>2, FailingStep
<1>. QED  BY <1>2, <1>6, <1>7

LEMMA CloseStep == ASSUME IInv, close PROVE IInv'
<1>. DEFINE n == dp.generation + 1
            d == [dp EXCEPT !.closed = TRUE, !.generation = n, !.timer = FALSE,
                            !.state = "offline"]
<1>1. dp \in Fields /\ TypeRest /\ dp.generation \in Nat /\ n \in Nat
  BY TypeSplit DEF IInv, Fields
<1>2. d \in Fields
  BY <1>1, Shut, Zenon
<1>3. /\ dp' = d /\ ~ dp.closed
      /\ disposed' = disposed \cup ({dp.socket} \ {None}) /\ faults' = faults + 1
      /\ UNCHANGED <<tickets, opening, live, asked, heard, greeted, requests>>
  BY DEF close, sockets, Fault
<1>4. /\ dp'.closed /\ dp'.generation = n /\ ~ dp'.timer /\ dp'.state = "offline"
      /\ dp'.started = dp.started /\ dp'.socket = dp.socket /\ dp'.open = dp.open
  BY <1>1, <1>3 DEF Fields
<1>5. TypeRest'
  BY <1>1, <1>3 DEF TypeRest, Attempts, Fields
<1>6. Drawn'
  BY <1>1, <1>3, <1>4 DEF IInv, Drawn, TypeRest, Fields
<1>7. NoSocketLeaks'
  BY <1>1, <1>3 DEF IInv, NoSocketLeaks, TypeRest, Attempts
<1>8. ~ dp'.started => Nothing'
  BY <1>3, <1>4 DEF IInv, Nothing
<1>9. TypeOK'
  BY <1>2, <1>3, <1>5, TypeSplit
<1>. QED  BY <1>4, <1>6, <1>7, <1>8, <1>9 DEF IInv

-----------------------------------------------------------------------------
(* The callbacks.                                                          *)

LEMMA ArriveStep == ASSUME IInv, NEW g \in tickets, TicketArrives(g) PROVE IInv'
<1>1. dp \in Fields /\ TypeRest
  BY TypeSplit DEF IInv
<1>2. /\ tickets' = tickets \ {g}
      /\ UNCHANGED <<live, disposed, asked, heard, greeted, requests, faults>>
  BY DEF TicketArrives
<1>3. CASE ~ Current(dp, g)
  <2>1. dp' = dp /\ opening' = opening
    BY <1>3 DEF TicketArrives
  <2>2. TypeRest'
    BY <1>1, <1>2, <2>1 DEF TypeRest
  <2>3. ~ dp.closed /\ dp.open => dp.socket \in live' \ opening'
    BY <1>2, <2>1 DEF IInv, FieldsAgree, SocketIsOpen
  <2>. QED  BY <1>2, <1>3, <2>1, <2>2, <2>3, LateStep DEF Current
<1>4. CASE Current(dp, g)
  <2>1. dp' = [dp EXCEPT !.socket = g] /\ opening' = opening \cup {g}
    BY <1>4 DEF TicketArrives
  <2>2. ~ dp.closed /\ g = dp.generation /\ g \in Attempts
    BY <1>1, <1>4 DEF Current, TypeRest
  <2>3. /\ dp' \in Fields
        /\ dp'.socket = g /\ dp'.started = dp.started /\ dp'.closed = dp.closed
        /\ dp'.generation = dp.generation /\ dp'.open = dp.open /\ dp'.timer = dp.timer
        /\ dp'.state = dp.state
    BY <1>1, <2>1, <2>2 DEF Fields, Attempts
  <2>4. dp.started /\ dp.socket = None /\ ~ dp.open /\ ~ dp.timer
    BY <2>2 DEF IInv, Nothing, FieldsAgree
  <2>5. TypeOK'
    BY <1>1, <1>2, <2>1, <2>2, <2>3, TypeSplit DEF TypeRest
  <2>6. Drawn'
    BY <1>1, <1>2, <2>1, <2>2, <2>3 DEF IInv, Drawn, Fields
  <2>7. FieldsAgree'
    BY <1>2, <2>2, <2>3, <2>4 DEF IInv, FieldsAgree, None, Attempts
  <2>8. NoSocketLeaks'
    BY <1>1, <1>2, <2>1, <2>2, <2>3, <2>4 DEF IInv, NoSocketLeaks, TypeRest, Attempts, None
  <2>. QED  BY <2>2, <2>3, <2>4, <2>5, <2>6, <2>7, <2>8 DEF IInv
<1>. QED  BY <1>3, <1>4

LEMMA TicketFailsStep == ASSUME IInv, NEW g \in tickets, TicketFails(g) PROVE IInv'
<1>1. dp \in Fields /\ TypeRest /\ TypeOK
  BY TypeSplit DEF IInv
<1>2. /\ tickets' = tickets \ {g} /\ faults' = faults + 1
      /\ UNCHANGED <<opening, live, asked, heard, greeted, requests>>
  BY DEF TicketFails, sockets, Fault
<1>3. CASE ~ Current(dp, g)
  <2>1. dp' = dp /\ disposed' = disposed
    BY <1>3 DEF TicketFails
  <2>2. TypeRest'
    BY <1>1, <1>2, <2>1 DEF TypeRest
  <2>3. ~ dp.closed /\ dp.open => dp.socket \in live' \ opening'
    BY <1>2 DEF IInv, FieldsAgree, SocketIsOpen
  <2>. QED  BY <1>2, <1>3, <2>1, <2>2, <2>3, LateStep DEF Current
<1>4. CASE Current(dp, g)
  <2>1. Failing(dp) /\ ~ dp.closed /\ dp.started /\ ~ dp.timer
    BY <1>4 DEF TicketFails, Current, IInv, Nothing, FieldsAgree
  <2>2. TypeRest'
    BY <1>1, <1>2, <2>1, FailureType DEF TypeRest
  <2>. QED  BY <1>1, <1>2, <2>1, <2>2, FailingStep
<1>. QED  BY <1>3, <1>4

\* The socket the service listens to is the one it holds.
LEMMA ListenedIsHeld ==
    ASSUME IInv, NEW g \in Attempts, Listened(dp, g)
    PROVE  /\ ~ dp.closed /\ dp.started /\ ~ dp.timer
           /\ g = dp.socket /\ g = dp.generation /\ g # None
  BY DEF Listened, Current, IInv, Nothing, FieldsAgree, TypeOK, Attempts

LEMMA OpenStep == ASSUME IInv, NEW g \in opening, SocketOpens(g) PROVE IInv'
<1>1. dp \in Fields /\ TypeRest
  BY TypeSplit DEF IInv
<1>2. /\ opening' = opening \ {g} /\ live' = live \cup {g}
      /\ UNCHANGED <<tickets, disposed, asked, heard, greeted, requests, faults>>
  BY DEF SocketOpens
<1>3. TypeRest'
  BY <1>1, <1>2 DEF TypeRest
<1>4. CASE ~ Listened(dp, g)
  <2>1. dp' = dp
    BY <1>4 DEF SocketOpens
  <2>2. ~ dp.closed /\ dp.open => dp.socket \in live' \ opening'
    BY <1>2 DEF IInv, FieldsAgree, SocketIsOpen
  <2>. QED  BY <1>2, <1>3, <2>1, <2>2, LateStep
<1>5. CASE Listened(dp, g)
  <2>1. /\ ~ dp.closed /\ dp.started /\ ~ dp.timer
        /\ g = dp.socket /\ g = dp.generation /\ g # None
    BY <1>1, <1>5, ListenedIsHeld DEF TypeRest
  <2>2. dp' = [dp EXCEPT !.attempt = 0, !.open = TRUE, !.snapshot = FALSE,
                         !.request = None, !.state = "recovering"]
    BY <1>5 DEF SocketOpens
  <2>3. [dp EXCEPT !.attempt = 0, !.open = TRUE, !.snapshot = FALSE,
                   !.request = None, !.state = "recovering"] \in Fields
    BY <1>1, Opened, Zenon
  <2>4. /\ dp' \in Fields
        /\ dp'.socket = dp.socket /\ dp'.started = dp.started /\ dp'.closed = dp.closed
        /\ dp'.generation = dp.generation /\ dp'.open /\ dp'.timer = dp.timer
        /\ dp'.state = "recovering" /\ ~ dp'.snapshot
    BY <1>1, <2>2, <2>3 DEF Fields
  <2>5. TypeOK' /\ Drawn' /\ NoSocketLeaks'
    BY <1>2, <1>3, <2>4, TypeSplit DEF IInv, Drawn, NoSocketLeaks
  <2>6. FieldsAgree'
    BY <1>2, <2>1, <2>4 DEF IInv, FieldsAgree, SocketIsOpen
  <2>. QED  BY <2>1, <2>4, <2>5, <2>6 DEF IInv
<1>. QED  BY <1>4, <1>5

LEMMA ClosesStep ==
    ASSUME IInv, NEW g \in opening \cup live, SocketCloses(g)
    PROVE  IInv'
<1>. DEFINE d == [dp EXCEPT !.ready = FALSE, !.open = FALSE]
<1>1. dp \in Fields /\ TypeRest /\ TypeOK
  BY TypeSplit DEF IInv
<1>2. /\ opening' = opening \ {g} /\ live' = live \ {g}
      /\ asked' \subseteq asked
      /\ UNCHANGED <<tickets, heard, greeted, requests>>
  BY DEF SocketCloses
<1>3. CASE ~ Listened(dp, g)
  <2>1. UNCHANGED <<dp, disposed, faults>>
    BY <1>3 DEF SocketCloses
  <2>2. TypeRest'
    BY <1>1, <1>2, <2>1 DEF TypeRest
  <2>3. ~ dp.closed /\ dp.open => dp.socket \in live' \ opening'
    BY <1>2, <1>3 DEF IInv, FieldsAgree, SocketIsOpen, Listened, Current
  <2>. QED  BY <1>2, <2>1, <2>2, <2>3, LateStep
<1>4. CASE Listened(dp, g)
  <2>1. /\ ~ dp.closed /\ dp.started /\ ~ dp.timer
    BY <1>1, <1>4, ListenedIsHeld DEF TypeRest
  <2>2. Failing(d) /\ faults' = faults + 1
    BY <1>4 DEF SocketCloses, Fault
  <2>3. /\ d \in Fields /\ d.started /\ ~ d.closed /\ ~ d.timer
        /\ d.generation = dp.generation /\ d.socket = dp.socket
    BY <1>1, <2>1 DEF Fields
  <2>. HIDE DEF d
  <2>4. TypeRest'
    BY <1>1, <1>2, <2>2, <2>3, FailureType DEF TypeRest
  <2>. QED  BY <1>2, <2>1, <2>2, <2>3, <2>4, FailingStep
<1>. QED  BY <1>3, <1>4

LEMMA ErrorStep == ASSUME IInv, NEW g \in live, SocketErrors(g) PROVE IInv'
<1>1. dp \in Fields /\ TypeRest /\ TypeOK
  BY TypeSplit DEF IInv
<1>2. faults' = faults + 1 /\ UNCHANGED <<tickets, opening, live, asked, heard, greeted, requests>>
  BY DEF SocketErrors, sockets, Fault
<1>3. CASE ~ Listened(dp, g)
  <2>1. UNCHANGED <<dp, disposed>>
    BY <1>3 DEF SocketErrors
  <2>2. TypeRest'
    BY <1>1, <1>2, <2>1 DEF TypeRest
  <2>3. ~ dp.closed /\ dp.open => dp.socket \in live' \ opening'
    BY <1>2 DEF IInv, FieldsAgree, SocketIsOpen
  <2>. QED  BY <1>2, <2>1, <2>2, <2>3, LateStep
<1>4. CASE Listened(dp, g)
  <2>1. ~ dp.closed /\ dp.started /\ ~ dp.timer /\ Failing(dp)
    BY <1>1, <1>4, ListenedIsHeld DEF SocketErrors, TypeRest
  <2>2. TypeRest'
    BY <1>1, <1>2, <2>1, FailureType DEF TypeRest
  <2>. QED  BY <1>1, <1>2, <2>1, <2>2, FailingStep
<1>. QED  BY <1>3, <1>4

\* What an event of socket g leaves of the fields: nothing, or what is emitted.
LEMMA EmitStep ==
    ASSUME IInv, TypeRest', NEW g \in Attempts, NEW e \in Fields, NEW d \in Fields,
           d.started = dp.started, d.closed = dp.closed, d.generation = dp.generation,
           d.socket = dp.socket, d.open = dp.open, d.timer = dp.timer, d.ready = dp.ready,
           d.state = dp.state, dp.snapshot => d.snapshot,
           e = Completed(d) \/ e = d,
           Emits(g, e),
           UNCHANGED <<tickets, opening, live, disposed>>,
           greeted \subseteq greeted',
           Listened(dp, g) /\ d.snapshot /\ ~ dp.snapshot => g \in greeted'
    PROVE  IInv'
<1>1. CASE ~ Listened(dp, g)
  <2>1. UNCHANGED <<dp, heard>>
    BY <1>1 DEF Emits
  <2>2. ~ dp.closed /\ dp.open => dp.socket \in live' \ opening'
    BY DEF IInv, FieldsAgree, SocketIsOpen
  <2>. QED  BY <2>1, <2>2, LateStep
<1>2. CASE Listened(dp, g)
  <2>1. heard' = g /\ dp' = e
    BY <1>2 DEF Emits
  <2>2. ~ dp.closed /\ g = dp.socket /\ g = dp.generation
    BY <1>2, ListenedIsHeld
  <2>3. heard' <= dp.generation
    BY <2>1, <2>2 DEF IInv, TypeOK
  <2>4. dp.open /\ d.snapshot => dp.socket \in greeted'
    BY <1>2, <2>2 DEF IInv, FieldsAgree, SocketIsOpen
  <2>. QED  BY <2>1, <2>3, <2>4, RecoveryStep
<1>. QED  BY <1>1, <1>2

LEMMA PresenceStep == ASSUME IInv, NEW g \in live, PresenceSnapshot(g) PROVE IInv'
<1>. DEFINE d == [dp EXCEPT !.snapshot = TRUE]
<1>1. dp \in Fields /\ TypeRest
  BY TypeSplit DEF IInv
<1>2. /\ d \in Fields
      /\ d.started = dp.started /\ d.closed = dp.closed /\ d.generation = dp.generation
      /\ d.socket = dp.socket /\ d.open = dp.open /\ d.timer = dp.timer
      /\ d.ready = dp.ready /\ d.state = dp.state /\ d.snapshot
  BY <1>1 DEF Fields
<1>3. /\ Emits(g, Completed(d)) /\ g \in Attempts
      /\ greeted' = IF Listened(dp, g) THEN greeted \cup {g} ELSE greeted
      /\ UNCHANGED <<tickets, opening, live, disposed, asked, requests, faults>>
  BY <1>1 DEF PresenceSnapshot, sockets, TypeRest
<1>. HIDE DEF d
<1>4. TypeRest'
  BY <1>1, <1>3 DEF TypeRest, Emits, Attempts
<1>5. Completed(d) \in Fields
  BY <1>2, CompletedFields
<1>. QED  BY <1>2, <1>3, <1>4, <1>5, EmitStep

LEMMA AnswerStep ==
    ASSUME IInv, NEW a \in asked,
           Rejected(a[1], a[2]) \/ \E more \in BOOLEAN : Reconciled(a[1], a[2], more)
    PROVE  IInv'
<1>. DEFINE d == [dp EXCEPT !.request = None]
<1>1. dp \in Fields /\ TypeRest
  BY TypeSplit DEF IInv
<1>2. /\ d \in Fields
      /\ d.started = dp.started /\ d.closed = dp.closed /\ d.generation = dp.generation
      /\ d.socket = dp.socket /\ d.open = dp.open /\ d.timer = dp.timer
      /\ d.ready = dp.ready /\ d.state = dp.state /\ d.snapshot = dp.snapshot
  BY <1>1 DEF Fields, None
<1>3. /\ Emits(a[1], Completed(d)) \/ Emits(a[1], dp)
      /\ asked' \subseteq asked
      /\ UNCHANGED <<tickets, opening, live, disposed, greeted, requests, faults>>
  BY DEF Rejected, Reconciled, sockets
<1>. HIDE DEF d
<1>4. TypeRest' /\ a[1] \in Attempts
  BY <1>1, <1>3 DEF TypeRest, Emits, Attempts
<1>5. Completed(d) \in Fields
  BY <1>2, CompletedFields
<1>6. CASE Emits(a[1], Completed(d))
  BY <1>2, <1>3, <1>4, <1>5, <1>6, EmitStep
<1>7. CASE Emits(a[1], dp)
  BY <1>1, <1>3, <1>4, <1>7, EmitStep
<1>. QED  BY <1>3, <1>6, <1>7

LEMMA FinishStep == ASSUME IInv, finishRecovery PROVE IInv'
<1>. DEFINE d == [dp EXCEPT !.request = None]
<1>1. dp \in Fields /\ TypeRest
  BY TypeSplit DEF IInv
<1>2. /\ d \in Fields
      /\ d.started = dp.started /\ d.closed = dp.closed /\ d.generation = dp.generation
      /\ d.socket = dp.socket /\ d.open = dp.open /\ d.timer = dp.timer
      /\ d.ready = dp.ready /\ d.state = dp.state /\ d.snapshot = dp.snapshot
  BY <1>1 DEF Fields, None
<1>3. /\ dp' = Completed(d)
      /\ UNCHANGED <<tickets, opening, live, disposed, asked, heard, greeted, requests, faults>>
  BY DEF finishRecovery, sockets
<1>4. TypeRest'
  BY <1>1, <1>3 DEF TypeRest
<1>5. heard' <= dp.generation /\ (~ dp.closed /\ dp.open /\ d.snapshot => dp.socket \in greeted')
  BY <1>2, <1>3 DEF IInv, Drawn, FieldsAgree, SocketIsOpen
<1>. HIDE DEF d
<1>. QED  BY <1>2, <1>3, <1>4, <1>5, RecoveryStep

LEMMA StutterStep == ASSUME IInv, UNCHANGED vars PROVE IInv'
  BY DEF IInv, TypeOK, Nothing, Drawn, FieldsAgree, SocketIsOpen, NoSocketLeaks, vars, sockets

LEMMA NextStep == IInv /\ [Next]_vars => IInv'
<1>. SUFFICES ASSUME IInv, [Next]_vars PROVE IInv'
  OBVIOUS
<1>1. CASE getObservable \/ TimerFires \/ retryNow
  BY <1>1, StartStep, TimerStep, RetryStep
<1>2. CASE sendThrows \/ failRecovery \/ recover \/ finishRecovery \/ close
  BY <1>2, ThrowStep, FailRecoveryStep, RecoverStep, FinishStep, CloseStep
<1>3. CASE \E g \in tickets : TicketArrives(g) \/ TicketFails(g)
  BY <1>3, ArriveStep, TicketFailsStep
<1>4. ASSUME NEW g \in opening \cup live,
             SocketOpens(g) \/ SocketCloses(g) \/ SocketErrors(g) \/ PresenceSnapshot(g)
      PROVE  IInv'
  <2>1. CASE SocketOpens(g)
    BY <2>1, OpenStep DEF SocketOpens
  <2>2. CASE SocketCloses(g)
    BY <2>2, ClosesStep
  <2>3. CASE SocketErrors(g)
    BY <2>3, ErrorStep DEF SocketErrors
  <2>4. CASE PresenceSnapshot(g)
    BY <2>4, PresenceStep DEF PresenceSnapshot
  <2>. QED  BY <1>4, <2>1, <2>2, <2>3, <2>4
<1>5. ASSUME NEW a \in asked,
             Rejected(a[1], a[2]) \/ \E more \in BOOLEAN : Reconciled(a[1], a[2], more)
      PROVE  IInv'
  BY <1>5, AnswerStep
<1>. QED  BY <1>1, <1>2, <1>3, <1>4, <1>5, StutterStep DEF Next

\* The invariant holds in every reachable state.
THEOREM Invariance == Spec => []IInv
<1>. QED  BY InitIInv, NextStep, PTL DEF Spec

\* The type invariant of the service's fields and of what is under way.
THEOREM TypeCorrect == Spec => []TypeOK
<1>1. IInv => TypeOK
  BY DEF IInv
<1>. QED  BY <1>1, Invariance, PTL

\* A started service works on exactly one connection until it is closed, its ticket,
\* its socket or its timer, and no reconnection leaves a socket open that nobody will
\* close (data-provider.service.ts:518, :577).
THEOREM OneConnectionAtATime == Spec => []OneConnection
<1>1. IInv => OneConnection
  BY DEF IInv, FieldsAgree, OneConnection, OneAttempt, Attempting
<1>. QED  BY <1>1, Invariance, PTL

\* A ready connection has an open socket of this generation that has been told
\* who is online.
THEOREM ReadyEarned == Spec => []ReadyIsEarned
<1>1. IInv => ReadyIsEarned
  BY DEF IInv, FieldsAgree, SocketIsOpen, ReadyIsEarned, None
<1>. QED  BY <1>1, Invariance, PTL

\* No event of an older socket is emitted after one of a newer socket.
THEOREM NewestIsHeard == Spec => NewestSpeaks
<1>1. ASSUME IInv, [Next]_vars PROVE [heard' >= heard]_heard
  <2>1. heard \in Nat /\ dp.generation \in Nat /\ heard <= dp.generation
    BY <1>1 DEF IInv, TypeOK, Drawn
  <2>2. ASSUME NEW g, NEW e, Emits(g, e) PROVE heard' >= heard
    BY <2>1, <2>2 DEF Emits, Listened, Current
  <2>3. CASE \E g \in opening \cup live : PresenceSnapshot(g)
    BY <2>2, <2>3 DEF PresenceSnapshot
  <2>4. CASE \E a \in asked : Rejected(a[1], a[2])
                           \/ \E more \in BOOLEAN : Reconciled(a[1], a[2], more)
    BY <2>2, <2>4 DEF Rejected, Reconciled
  <2>5. CASE ~ (\E g \in opening \cup live : PresenceSnapshot(g))
             /\ ~ (\E a \in asked : Rejected(a[1], a[2])
                                 \/ \E more \in BOOLEAN : Reconciled(a[1], a[2], more))
    BY <1>1, <2>5 DEF Next, vars, getObservable, sendThrows, recover, finishRecovery,
       failRecovery, retryNow, close, TimerFires, TicketArrives, TicketFails,
       SocketOpens, SocketCloses, SocketErrors
  <2>. QED  BY <2>3, <2>4, <2>5
<1>. QED  BY <1>1, Invariance, PTL DEF Spec, NewestSpeaks

-----------------------------------------------------------------------------
(* The transport keeps the promise of Connection: every callback of        *)
(* DataProviderService is one step of the connection that the rest of the  *)
(* frontend sees, or changes nothing it can see.                           *)

Seen == <<dp.state, dp.snapshot, dp.request>>

\* A socket the browser opened for a running service is one the service knows
\* to be open: no frame arrives on a socket held but not yet announced.
Announced == ~ dp.closed /\ dp.socket \in live => dp.open

LEMMA AnnouncedInit == Init => Announced
  BY DEF Init, Announced

\* A step that leaves the open sockets alone and lets the fields of the socket
\* be, or gives the socket up.
LEMMA AnnouncedKept ==
    ASSUME Announced, IInv, live' \subseteq live,
           \/ dp'.closed
           \/ dp'.socket = None
           \/ /\ ~ dp.closed
              /\ dp'.socket = dp.socket
              /\ dp'.open = dp.open \/ dp'.socket \notin live'
    PROVE  Announced'
  BY DEF Announced, IInv, TypeOK, Attempts

LEMMA AnnouncedFailing ==
    ASSUME Announced, IInv, NEW d \in Fields, Failing(d), live' \subseteq live,
           d.closed = dp.closed, d.socket = dp.socket,
           d.open = dp.open \/ dp.socket \notin live'
    PROVE  Announced'
<1>1. CASE d.closed \/ d.timer
  <2>1. dp' = d
    BY <1>1 DEF Failing, Reconnecting
  <2>. QED  BY <2>1, AnnouncedKept
<1>2. CASE ~ d.closed /\ ~ d.timer
  <2>1. dp'.socket = None
    BY <1>2, ReconnectingFields DEF Failing
  <2>. QED  BY <2>1, AnnouncedKept
<1>. QED  BY <1>1, <1>2

LEMMA AnnouncedCall ==
    ASSUME Announced, IInv,
           getObservable \/ TimerFires \/ retryNow \/ sendThrows \/ failRecovery
              \/ recover \/ finishRecovery \/ close
    PROVE  Announced'
<1>1. dp \in Fields
  BY TypeSplit DEF IInv
<1>2. CASE getObservable
  <2>1. dp.socket = None /\ live' = live
    BY <1>2 DEF IInv, Nothing, getObservable, sockets
  <2>2. dp'.socket = None
    BY <1>1, <1>2, <2>1 DEF getObservable, Connecting, Fields
  <2>. QED  BY <2>1, <2>2, AnnouncedKept
<1>3. CASE TimerFires
  <2>1. dp.socket = None /\ live' = live
    BY <1>3 DEF IInv, Nothing, FieldsAgree, TimerFires, sockets
  <2>2. dp'.socket = None
    BY <1>1, <1>3, <2>1 DEF TimerFires, Connecting, Fields
  <2>. QED  BY <2>1, <2>2, AnnouncedKept
<1>4. CASE retryNow
  <2>1. dp'.socket = None /\ live' = live
    BY <1>1, <1>4 DEF retryNow, sockets, Connecting, Fields
  <2>. QED  BY <2>1, AnnouncedKept
<1>5. CASE sendThrows \/ failRecovery
  <2>1. Failing(dp) /\ live' = live
    BY <1>5 DEF sendThrows, failRecovery, sockets
  <2>. QED  BY <1>1, <2>1, AnnouncedFailing
<1>6. CASE recover
  <2>1. PICK d \in Fields : /\ d.closed = dp.closed /\ d.socket = dp.socket
                            /\ d.open = dp.open
                            /\ dp' = d \/ Failing(d)
                            /\ live' = live /\ ~ dp.closed
    <3>. DEFINE d == [dp EXCEPT !.request = requests']
    <3>1. requests' \in Nat
      BY <1>6 DEF recover, IInv, TypeOK
    <3>2. d \in Fields /\ d.closed = dp.closed /\ d.socket = dp.socket /\ d.open = dp.open
      BY <1>1, <3>1 DEF Fields
    <3>. QED  BY <1>6, <3>2 DEF recover, sockets
  <2>2. CASE dp' = d
    BY <2>1, <2>2, AnnouncedKept
  <2>3. CASE Failing(d)
    BY <2>1, <2>3, AnnouncedFailing
  <2>. QED  BY <2>1, <2>2, <2>3
<1>7. CASE finishRecovery
  <2>. DEFINE d == [dp EXCEPT !.request = None]
  <2>1. d \in Fields /\ d.closed = dp.closed /\ d.socket = dp.socket /\ d.open = dp.open
    BY <1>1 DEF Fields, None
  <2>2. dp' = Completed(d) /\ live' = live
    BY <1>7 DEF finishRecovery, sockets
  <2>. HIDE DEF d
  <2>3. dp'.closed = dp.closed /\ dp'.socket = dp.socket /\ dp'.open = dp.open
    BY <2>1, <2>2, CompletedFields
  <2>. QED  BY <2>2, <2>3, AnnouncedKept DEF Announced
<1>8. CASE close
  <2>1. dp'.closed /\ live' = live
    BY <1>1, <1>8 DEF close, sockets, Fields
  <2>. QED  BY <2>1, AnnouncedKept
<1>. QED  BY <1>2, <1>3, <1>4, <1>5, <1>6, <1>7, <1>8

LEMMA AnnouncedTicket ==
    ASSUME Announced, IInv, NEW g \in tickets, TicketArrives(g) \/ TicketFails(g)
    PROVE  Announced'
<1>1. dp \in Fields /\ live' = live /\ g \notin live
  BY TypeSplit DEF IInv, Drawn, TicketArrives, TicketFails, sockets
<1>2. CASE UNCHANGED dp
  BY <1>1, <1>2 DEF Announced
<1>3. CASE Failing(dp)
  BY <1>1, <1>3, AnnouncedFailing
<1>4. CASE dp' = [dp EXCEPT !.socket = g]
  <2>1. dp'.socket = g
    BY <1>1, <1>4 DEF Fields
  <2>. QED  BY <1>1, <2>1 DEF Announced
<1>. QED  BY <1>2, <1>3, <1>4 DEF TicketArrives, TicketFails

LEMMA AnnouncedSocket ==
    ASSUME Announced, IInv, NEW g \in opening \cup live,
           SocketOpens(g) \/ SocketCloses(g) \/ SocketErrors(g) \/ PresenceSnapshot(g)
    PROVE  Announced'
<1>1. dp \in Fields
  BY TypeSplit DEF IInv
<1>2. CASE SocketOpens(g)
  <2>1. CASE Listened(dp, g)
    <3>1. dp'.open
      BY <1>1, <1>2, <2>1 DEF SocketOpens, Fields
    <3>. QED  BY <3>1 DEF Announced
  <2>2. CASE ~ Listened(dp, g)
    <3>1. dp' = dp /\ live' = live \cup {g}
      BY <1>2, <2>2 DEF SocketOpens
    <3>2. ~ dp.closed => dp.socket # g
      BY <2>2 DEF IInv, TypeOK, Attempts, FieldsAgree, Listened, Current
    <3>. QED  BY <3>1, <3>2 DEF Announced
  <2>. QED  BY <2>1, <2>2
<1>3. CASE SocketCloses(g)
  <2>1. live' = live \ {g}
    BY <1>3 DEF SocketCloses
  <2>2. CASE Listened(dp, g)
    <3>. DEFINE d == [dp EXCEPT !.ready = FALSE, !.open = FALSE]
    <3>1. d \in Fields /\ d.closed = dp.closed /\ d.socket = dp.socket /\ d.timer = dp.timer
      BY <1>1 DEF Fields
    <3>2. Failing(d) /\ dp.socket = g
      BY <1>3, <2>2 DEF SocketCloses, Listened
    <3>. QED  BY <2>1, <3>1, <3>2, AnnouncedFailing
  <2>3. CASE ~ Listened(dp, g)
    BY <1>3, <2>1, <2>3 DEF SocketCloses, Announced
  <2>. QED  BY <2>2, <2>3
<1>4. CASE SocketErrors(g)
  <2>1. live' = live /\ (Failing(dp) \/ UNCHANGED dp)
    BY <1>4 DEF SocketErrors, sockets
  <2>2. CASE Failing(dp)
    BY <1>1, <2>1, <2>2, AnnouncedFailing
  <2>3. CASE UNCHANGED dp
    BY <2>1, <2>3 DEF Announced
  <2>. QED  BY <2>1, <2>2, <2>3
<1>5. CASE PresenceSnapshot(g)
  <2>. DEFINE d == [dp EXCEPT !.snapshot = TRUE]
  <2>1. d \in Fields /\ d.closed = dp.closed /\ d.socket = dp.socket /\ d.open = dp.open
    BY <1>1 DEF Fields
  <2>2. live' = live /\ (dp' = Completed(d) \/ dp' = dp)
    BY <1>5 DEF PresenceSnapshot, Emits, sockets
  <2>. HIDE DEF d
  <2>3. dp'.closed = dp.closed /\ dp'.socket = dp.socket /\ dp'.open = dp.open
    BY <2>1, <2>2, CompletedFields
  <2>. QED  BY <2>2, <2>3 DEF Announced
<1>. QED  BY <1>2, <1>3, <1>4, <1>5

LEMMA AnnouncedAnswer ==
    ASSUME Announced, IInv, NEW a \in asked,
           Rejected(a[1], a[2]) \/ \E more \in BOOLEAN : Reconciled(a[1], a[2], more)
    PROVE  Announced'
<1>. DEFINE d == [dp EXCEPT !.request = None]
<1>1. d \in Fields /\ d.closed = dp.closed /\ d.socket = dp.socket /\ d.open = dp.open
  BY TypeSplit DEF IInv, Fields, None
<1>2. live' = live /\ (dp' = Completed(d) \/ dp' = dp)
  BY DEF Rejected, Reconciled, Emits, sockets
<1>. HIDE DEF d
<1>3. dp'.closed = dp.closed /\ dp'.socket = dp.socket /\ dp'.open = dp.open
  BY <1>1, <1>2, CompletedFields
<1>. QED  BY <1>2, <1>3 DEF Announced

LEMMA AnnouncedNext == Announced /\ IInv /\ [Next]_vars => Announced'
<1>. SUFFICES ASSUME Announced, IInv, [Next]_vars PROVE Announced'
  OBVIOUS
<1>1. CASE UNCHANGED vars
  BY <1>1 DEF vars, Announced
<1>2. CASE Next
  BY <1>2, AnnouncedCall, AnnouncedTicket, AnnouncedSocket, AnnouncedAnswer DEF Next
<1>. QED  BY <1>1, <1>2

-----------------------------------------------------------------------------
(* One step of the transport is one step of the connection, or none.       *)

LEMMA FailureMaps ==
    ASSUME NEW d \in Fields, ~ d.closed, ~ d.timer, dp.state # "offline",
           d.snapshot = dp.snapshot, d.request \in {dp.request} \cup (Nat \ {None}),
           Failing(d)
    PROVE  C!Fail
<1>1. dp'.state = "failed" /\ dp'.snapshot = d.snapshot /\ dp'.request = d.request
  BY ReconnectingFields DEF Failing
<1>. QED  BY <1>1 DEF C!Fail, C!NoRequest, None

\* A failure that meets a closed service or a running timer changes nothing.
LEMMA FailingMaps ==
    ASSUME IInv, Failing(dp), dp.started
    PROVE  C!Fail \/ UNCHANGED Seen
<1>1. dp \in Fields
  BY TypeSplit DEF IInv
<1>2. CASE dp.closed \/ dp.timer
  <2>1. dp' = dp
    BY <1>2 DEF Failing, Reconnecting
  <2>. QED  BY <2>1 DEF Seen
<1>3. CASE ~ dp.closed /\ ~ dp.timer
  <2>1. dp.state # "offline"
    BY <1>3 DEF IInv, FieldsAgree
  <2>. QED  BY <1>1, <1>3, <2>1, FailureMaps
<1>. QED  BY <1>2, <1>3

\* The end of a recovery request.
LEMMA AnswerMaps ==
    ASSUME IInv, dp' = Completed([dp EXCEPT !.request = None])
    PROVE  C!Answer \/ C!Forget
<1>. DEFINE d == [dp EXCEPT !.request = None]
<1>1. d \in Fields /\ d.closed = dp.closed /\ d.open = dp.open /\ d.request = None
      /\ d.snapshot = dp.snapshot /\ d.state = dp.state
  BY TypeSplit DEF IInv, Fields, None
<1>2. dp' = Completed(d)
  OBVIOUS
<1>. HIDE DEF d
<1>3. /\ dp'.request = None /\ dp'.snapshot = dp.snapshot
      /\ IF dp.closed \/ ~ dp.open \/ ~ dp.snapshot
         THEN dp'.state = dp.state ELSE dp'.state = "ready"
  BY <1>1, <1>2, CompletedFields
<1>4. CASE dp.closed \/ ~ dp.open
  <2>1. dp.state \notin {"recovering", "ready"}
    BY <1>4 DEF IInv, FieldsAgree
  <2>. QED  BY <1>3, <1>4, <2>1 DEF C!Forget, C!IsOpen, C!NoRequest, None
<1>5. CASE ~ dp.closed /\ dp.open
  <2>1. dp.state \in {"recovering", "ready"}
    BY <1>5 DEF IInv, FieldsAgree
  <2>. QED  BY <1>3, <1>5, <2>1 DEF C!Answer, C!Complete, C!IsOpen, C!NoRequest, None,
                                  IInv, TypeOK
<1>. QED  BY <1>4, <1>5

LEMMA CallMaps ==
    ASSUME IInv,
           getObservable \/ TimerFires \/ retryNow \/ sendThrows \/ failRecovery
              \/ recover \/ finishRecovery \/ close
    PROVE  C!ConnectionNext \/ UNCHANGED Seen
<1>1. dp \in Fields
  BY TypeSplit DEF IInv
<1>2. CASE getObservable
  <2>1. CASE dp.closed
    BY <1>1, <1>2, <2>1 DEF getObservable, Seen, Fields
  <2>2. CASE ~ dp.closed
    <3>1. dp.state = "offline"
      BY <1>2, <2>2 DEF getObservable, IInv, FieldsAgree
    <3>2. /\ dp'.state = "connecting" /\ dp'.snapshot = dp.snapshot
          /\ dp'.request = dp.request
      BY <1>1, <1>2, <2>2, <3>1 DEF getObservable, Connecting, Fields
    <3>. QED  BY <3>2 DEF C!ConnectionNext, C!Attempt
  <2>. QED  BY <2>1, <2>2
<1>3. CASE TimerFires
  <2>1. /\ dp'.state = IF dp.state = "failed" THEN "failed" ELSE "connecting"
        /\ dp'.snapshot = dp.snapshot /\ dp'.request = dp.request
    BY <1>1, <1>3 DEF TimerFires, Connecting, Fields
  <2>. QED  BY <2>1 DEF C!ConnectionNext, C!Attempt, Seen
<1>4. CASE retryNow
  <2>1. /\ dp'.state = "connecting"
        /\ dp'.snapshot = dp.snapshot /\ dp'.request = dp.request
    BY <1>1, <1>4 DEF retryNow, Connecting, Fields
  <2>. QED  BY <2>1 DEF C!ConnectionNext, C!Attempt
<1>5. CASE sendThrows \/ failRecovery
  <2>1. Failing(dp) /\ dp.started
    BY <1>5 DEF sendThrows, failRecovery, IInv, Nothing
  <2>. QED  BY <2>1, FailingMaps DEF C!ConnectionNext
<1>6. CASE recover
  <2>. DEFINE d == [dp EXCEPT !.request = requests']
  <2>1. requests' \in Nat \ {None} /\ dp.open /\ ~ dp.closed
    BY <1>6 DEF recover, IInv, TypeOK, None
  <2>2. d \in Fields /\ d.closed = dp.closed /\ d.timer = dp.timer /\ d.state = dp.state
        /\ d.snapshot = dp.snapshot /\ d.request = requests'
    BY <1>1, <2>1 DEF Fields
  <2>3. dp.state \in {"recovering", "ready"} /\ ~ dp.timer
    BY <2>1 DEF IInv, FieldsAgree, Nothing
  <2>4. dp' = d \/ Failing(d)
    BY <1>6 DEF recover
  <2>. HIDE DEF d
  <2>5. CASE dp' = d
    BY <2>1, <2>2, <2>3, <2>5 DEF C!ConnectionNext, C!Ask, C!IsOpen, C!NoRequest, None
  <2>6. CASE Failing(d)
    BY <2>1, <2>2, <2>3, <2>6, FailureMaps DEF C!ConnectionNext
  <2>. QED  BY <2>4, <2>5, <2>6
<1>7. CASE finishRecovery
  BY <1>7, AnswerMaps DEF finishRecovery, C!ConnectionNext
<1>8. CASE close
  <2>1. /\ dp'.state = "offline"
        /\ dp'.snapshot = dp.snapshot /\ dp'.request = dp.request
    BY <1>1, <1>8 DEF close, Fields
  <2>. QED  BY <2>1 DEF C!ConnectionNext, C!Shut
<1>. QED  BY <1>2, <1>3, <1>4, <1>5, <1>6, <1>7, <1>8

LEMMA TicketMaps ==
    ASSUME IInv, NEW g \in tickets, TicketArrives(g) \/ TicketFails(g)
    PROVE  C!ConnectionNext \/ UNCHANGED Seen
<1>1. dp \in Fields /\ dp.started
  BY TypeSplit DEF IInv, Nothing
<1>2. CASE UNCHANGED dp
  BY <1>2 DEF Seen
<1>3. CASE Failing(dp)
  BY <1>1, <1>3, FailingMaps DEF C!ConnectionNext
<1>4. CASE dp' = [dp EXCEPT !.socket = g]
  BY <1>1, <1>4 DEF Seen, Fields
<1>. QED  BY <1>2, <1>3, <1>4 DEF TicketArrives, TicketFails

LEMMA SocketMaps ==
    ASSUME IInv, Announced, NEW g \in opening \cup live,
           SocketOpens(g) \/ SocketCloses(g) \/ SocketErrors(g) \/ PresenceSnapshot(g)
    PROVE  C!ConnectionNext \/ UNCHANGED Seen
<1>1. dp \in Fields /\ dp.started
  BY TypeSplit DEF IInv, Nothing
<1>2. CASE ~ Listened(dp, g)
  BY <1>2 DEF SocketOpens, SocketCloses, SocketErrors, PresenceSnapshot, Emits, Seen
<1>3. CASE Listened(dp, g)
  <2>1. ~ dp.closed /\ dp.socket = g
    BY <1>3 DEF Listened, Current
  <2>2. dp.state # "offline" /\ ~ dp.timer
    BY <1>1, <2>1 DEF IInv, FieldsAgree, TypeOK, Attempts
  <2>3. CASE SocketOpens(g)
    <3>1. dp.state \notin {"recovering", "ready", "offline"}
      BY <2>1, <2>2, <2>3 DEF SocketOpens, IInv, FieldsAgree, SocketIsOpen
    <3>2. dp'.state = "recovering" /\ dp'.snapshot = FALSE /\ dp'.request = None
      BY <1>1, <1>3, <2>3 DEF SocketOpens, Fields
    <3>3. dp.state \in {"connecting", "failed"}
      BY <1>1, <3>1 DEF Fields, ConnectionState
    <3>. QED  BY <3>2, <3>3 DEF C!ConnectionNext, C!Open, C!NoRequest, None
  <2>4. CASE SocketCloses(g)
    <3>. DEFINE d == [dp EXCEPT !.ready = FALSE, !.open = FALSE]
    <3>1. d \in Fields /\ d.closed = dp.closed /\ d.timer = dp.timer
          /\ d.snapshot = dp.snapshot /\ d.request = dp.request
      BY <1>1 DEF Fields
    <3>2. Failing(d)
      BY <1>3, <2>4 DEF SocketCloses
    <3>. HIDE DEF d
    <3>. QED  BY <2>1, <2>2, <3>1, <3>2, FailureMaps DEF C!ConnectionNext
  <2>5. CASE SocketErrors(g)
    BY <1>1, <1>3, <2>5, FailingMaps DEF SocketErrors, C!ConnectionNext
  <2>6. CASE PresenceSnapshot(g)
    <3>. DEFINE d == [dp EXCEPT !.snapshot = TRUE]
    <3>1. d \in Fields /\ d.closed = dp.closed /\ d.open = dp.open /\ d.state = dp.state
          /\ d.snapshot = TRUE /\ d.request = dp.request
      BY <1>1 DEF Fields
    <3>2. dp' = Completed(d)
      BY <1>3, <2>6 DEF PresenceSnapshot, Emits
    <3>. HIDE DEF d
    <3>3. dp.open /\ dp.state \in {"recovering", "ready"}
      BY <2>1, <2>6 DEF PresenceSnapshot, Announced, IInv, FieldsAgree
    <3>4. /\ dp'.snapshot = TRUE /\ dp'.request = dp.request
          /\ dp'.state = IF dp.request = None THEN "ready" ELSE dp.state
      BY <2>1, <3>1, <3>2, <3>3, CompletedFields
    <3>. QED  BY <3>3, <3>4
              DEF C!ConnectionNext, C!Presence, C!Complete, C!IsOpen, C!NoRequest, None
  <2>. QED  BY <2>3, <2>4, <2>5, <2>6
<1>. QED  BY <1>2, <1>3

LEMMA RepliesMap ==
    ASSUME IInv, NEW a \in asked,
           Rejected(a[1], a[2]) \/ \E more \in BOOLEAN : Reconciled(a[1], a[2], more)
    PROVE  C!ConnectionNext \/ UNCHANGED Seen
<1>1. dp' = Completed([dp EXCEPT !.request = None]) \/ dp' = dp
  BY DEF Rejected, Reconciled, Emits
<1>2. CASE dp' = dp
  BY <1>2 DEF Seen
<1>3. CASE dp' = Completed([dp EXCEPT !.request = None])
  BY <1>3, AnswerMaps DEF C!ConnectionNext
<1>. QED  BY <1>1, <1>2, <1>3

\* The transport implements the connection: whatever sockets and tickets it
\* uses up, Home sees an opening that starts without presence and without a
\* recovery, and becomes ready by exactly these two.
THEOREM ConnectionKept == Spec => ImplementsConnection
<1>1. Init => C!ConnectionInit
  BY DEF Init, C!ConnectionInit, C!NoRequest, None
<1>2. IInv /\ Announced /\ [Next]_vars => [C!ConnectionNext]_(C!connectionVars)
  <2>. SUFFICES ASSUME IInv, Announced, [Next]_vars
                PROVE  C!ConnectionNext \/ UNCHANGED Seen
    BY DEF Seen, C!connectionVars
  <2>1. CASE UNCHANGED vars
    BY <2>1 DEF vars, Seen
  <2>2. CASE Next
    BY <2>2, CallMaps, TicketMaps, SocketMaps, RepliesMap DEF Next
  <2>. QED  BY <2>1, <2>2
<1>. QED  BY <1>1, <1>2, Invariance, AnnouncedInit, AnnouncedNext, PTL
          DEF Spec, ImplementsConnection, C!ConnectionSpec

-----------------------------------------------------------------------------
(* The list of Home.                                                        *)

\* A request or a retry that the present waits for.
Present(h, r) == r.gen = IF r.kind = "recovery" THEN h.recoveryGen ELSE h.refreshGen

\* No request is ahead of its generation, and those of the present are of the mode shown.
Requested(h) ==
    /\ h.from = h.mode
    /\ \A r \in h.lists :
          /\ r.kind = "recovery" => r.gen <= h.recoveryGen /\ h.established
          /\ r.kind # "recovery" => r.gen <= h.refreshGen
          /\ Present(h, r) => r.mode = h.mode
          /\ r.at = "timer" => r.kind # "page" /\ r.left < Retries

\* Reconciliations have ids of their own, and are of a chat.
Asking(h) ==
    /\ \A a \in h.asks : /\ 0 < a.id /\ a.id <= h.lastID /\ a.chat # "none"
                         /\ a.id = h.ask.id => a = h.ask
    /\ h.ask.id <= h.lastID
    /\ h.state = "ready" => h.established
    /\ h.selected = "none" => ~h.behind
    /\ h.selected # "none" => h.saved \in {h.selected, "none"}

\* What a recovery waits for is Home's own reconciliation of the present, under way.
Awaiting(h) ==
    h.state = "recovering" /\ h.awaited # 0 =>
       /\ h.ask \in h.asks /\ h.ask.id = h.awaited
       /\ h.ask.gen = h.recoveryGen /\ h.ask.chat = h.selected

\* Something has left the selected chat as it is.
Excused(h) == h.upset \cap {"errors", "rejected", "early"} # {} \/ h.saved = "none"

\* When the connection is ready and the selected chat is behind, the list of the recovery
\* is to come: the presence snapshot came first.
Timely(h) ==
    ~Excused(h) /\ h.state = "ready" /\ h.behind => Lists!Fetching(h, {"recovery"})

\* A recovery in which the selected chat is behind has a request to come.
Catching(h) ==
    ~Excused(h) /\ h.state = "recovering" /\ h.behind =>
       \/ h.awaited # 0
       \/ Lists!Fetching(h, {"recovery"})
       \/ ~h.established /\ h.initial # "ready"

\* The present waits for one list, or for one page of the list that is shown.
Single(h) ==
    "moves" \notin h.upset =>
       /\ \A r, q \in h.lists :
             Present(h, r) /\ Present(h, q) /\ r.kind # "page" => r = q
       /\ \A r \in h.lists : Present(h, r) =>
             /\ r.kind \in {"refresh", "recovery"} => h.snapLoading
             /\ r.kind = "initial" => h.cursor = 0
             /\ r.kind = "page" => r.ver = h.ver
       /\ h.cursor \in {0, h.ver} /\ h.tail \in {0, h.ver}

\* The server has moved the chat out of the mode that is shown, and the answer is to come.
Leaving(h, c) ==
    \E m \in h.moves : m.kind = "archive" /\ m.chat = c /\ m.ver # 0 /\ m.mode = h.mode

\* Nothing is newer than the server.
Versions(h, s) ==
    /\ h.ver <= s.ver /\ h.gone <= s.ver /\ h.cursor <= s.ver
    /\ \A r \in h.lists : r.ver <= s.ver
    /\ \A m \in h.moves : m.ver <= s.ver

\* A chat has one move at a time, and the server did what was answered.
Moves(h, s) ==
    "moves" \notin h.upset =>
       /\ \A m, n \in h.moves : m.chat = n.chat => m = n
       /\ \A m \in h.moves :
             /\ m.kind = "create" /\ m.ver = 0 => s.at[m.chat] = "nowhere"
             /\ m.kind = "create" /\ m.ver # 0 =>
                   /\ s.at[m.chat] = "active"
                   /\ \A r \in h.lists :
                         r.at = "answered" /\ r.kind # "page" /\ r.mode = "active"
                            /\ r.ver >= m.ver => m.chat \in r.has
             /\ m.kind = "archive" /\ m.ver = 0 => s.at[m.chat] = m.mode
             /\ m.kind = "archive" /\ m.ver # 0 => s.at[m.chat] = Lists!Other(m.mode)

\* The answer that the present waits for is newer than what is shown, and has of that what
\* is still there.
Answers(h, s, r) ==
    /\ h.ver <= r.ver /\ h.gone <= r.ver
    /\ \A c \in r.has : s.at[c] = h.mode \/ Leaving(h, c)
    /\ \A c \in h.listed : s.at[c] = h.mode => c \in r.has

\* What is listed is there, and what is selected is listed, but for what is leaving.
Listing(h, s) ==
    "moves" \notin h.upset =>
       /\ \A c \in h.listed : s.at[c] = h.mode \/ Leaving(h, c)
       /\ h.selected = "none" \/ h.selected \in h.listed \/ Leaving(h, h.selected)
       /\ \A r \in h.lists :
             Present(h, r) /\ r.kind # "page" /\ r.at = "answered" => Answers(h, s, r)

\* What says that it is loading has a request.
Loading(h) ==
    h.upset \cap {"moves", "errors"} = {} =>
       /\ h.isLoading =>
             \/ Lists!Fetching(h, {"initial", "refresh", "recovery"})
             \/ h.established /\ ~Lists!IsOpen(h)
       /\ h.snapLoading =>
             \/ Lists!Fetching(h, {"refresh", "recovery"})
             \/ h.established /\ ~Lists!IsOpen(h)

\* The invariant of HomeSync.
Talks(h) == Asking(h) /\ Awaiting(h) /\ Timely(h) /\ Catching(h)
Stands(h, s) == Requested(h) /\ Single(h) /\ Versions(h, s) /\ Moves(h, s) /\ Listing(h, s)
Lasts(h, s) == Stands(h, s) /\ Loading(h)
ListInv == Lists!TypeOK /\ Talks(home) /\ Lasts(home, chats)

-----------------------------------------------------------------------------
(* What Home does with the connection, from inside its callbacks.           *)

\* What is assumed of the chats and the retries.
HomeBounds == "none" \notin Chats /\ Retries \in Nat

\* The fields of Home have their types.
LEMMA HomeFields ==
    ASSUME NEW h \in Lists!World
    PROVE  /\ h.state \in {"offline", "connecting", "recovering", "ready", "failed"}
           /\ h.snapshot \in BOOLEAN /\ h.awaited \in Nat /\ h.established \in BOOLEAN
           /\ h.initial \in {"pending", "ready", "failed"}
           /\ h.refreshGen \in Nat /\ h.recoveryGen \in Nat /\ h.proj \in Nat
           /\ h.mode \in Lists!Modes /\ h.isLoading \in BOOLEAN /\ h.snapLoading \in BOOLEAN
           /\ h.error \in BOOLEAN /\ h.listed \in SUBSET Chats
           /\ h.ver \in Nat /\ h.gone \in Nat /\ h.from \in Lists!Modes
           /\ h.cursor \in Nat /\ h.tail \in Nat
           /\ h.selected \in Lists!ChatOrNone /\ h.saved \in Lists!ChatOrNone
           /\ h.behind \in BOOLEAN /\ h.ask \in Lists!Ask /\ h.lastID \in Nat
           /\ h.asks \in SUBSET Lists!Ask /\ h.pages \in Nat
           /\ h.lists \in SUBSET Lists!List /\ h.moves \in SUBSET Lists!Move
           /\ h.upset \in SUBSET Lists!Notes
  BY DEF Lists!World

\* The list and what was asked for rest.
SameList(g, h) ==
    /\ g.refreshGen = h.refreshGen /\ g.proj = h.proj /\ g.mode = h.mode /\ g.from = h.from
    /\ g.isLoading = h.isLoading /\ g.snapLoading = h.snapLoading /\ g.error = h.error
    /\ g.listed = h.listed /\ g.ver = h.ver /\ g.gone = h.gone
    /\ g.cursor = h.cursor /\ g.tail = h.tail
    /\ g.lists = h.lists /\ g.moves = h.moves /\ g.upset = h.upset

\* The connection and the selection rest.
SameTalk(g, h) ==
    /\ g.state = h.state /\ g.snapshot = h.snapshot /\ g.awaited = h.awaited
    /\ g.established = h.established /\ g.initial = h.initial
    /\ g.selected = h.selected /\ g.saved = h.saved /\ g.behind = h.behind
    /\ g.ask = h.ask /\ g.lastID = h.lastID /\ g.asks = h.asks /\ g.pages = h.pages
    /\ g.recoveryGen = h.recoveryGen

\* The connection takes a turn, and the list rests.
Connects(g, h) ==
    /\ g \in Lists!World /\ SameList(g, h)
    /\ h.established => g.established
    /\ h.established /\ ~Lists!IsOpen(h) => ~Lists!IsOpen(g)

\* Two turns of the connection are one.
LEMMA ConnectsOn ==
    ASSUME NEW h, NEW g, NEW k, Connects(g, h), Connects(k, g)
    PROVE  Connects(k, h)
  BY DEF Connects, SameList, Lists!IsOpen

\* The same requests are of the present.
LEMMA FetchingRests ==
    ASSUME NEW g, NEW h, SameList(g, h), g.recoveryGen = h.recoveryGen, NEW kinds
    PROVE  Lists!Fetching(g, kinds) <=> Lists!Fetching(h, kinds)
  BY DEF SameList, Lists!Fetching

\* A reconciliation is waited for, in a recovery with a chat.
LEMMA ReconcileIs ==
    ASSUME NEW h \in Lists!World, NEW g, g = Lists!Reconcile(h, h.recoveryGen),
           Asking(h), Timely(h)
    PROVE  /\ Connects(g, h) /\ g.recoveryGen = h.recoveryGen
           /\ g.selected = h.selected /\ g.saved = h.saved
           /\ Asking(g) /\ Timely(g)
           /\ Awaiting(h) => Awaiting(g)
           /\ Catching(h) => Catching(g)
           /\ h.selected # "none" => Awaiting(g) /\ Catching(g)
<1>1. CASE h.selected = "none" \/ h.state # "recovering"
  <2>1. g = h
    BY <1>1 DEF Lists!Reconcile
  <2>2. h.selected # "none" => Awaiting(h) /\ Catching(h)
    BY <1>1 DEF Awaiting, Catching
  <2>3. Connects(h, h)
    BY DEF Connects, SameList
  <2>. QED  BY <2>1, <2>2, <2>3
<1>2. CASE h.selected # "none" /\ h.state = "recovering"
  <2>. DEFINE ask == [gen |-> h.recoveryGen, id |-> h.lastID + 1, chat |-> h.selected]
  <2>1. g = [h EXCEPT !.lastID = h.lastID + 1, !.awaited = ask.id, !.ask = ask,
                      !.asks = h.asks \cup {ask}, !.recoveryGen = h.recoveryGen]
    BY <1>2 DEF Lists!Reconcile
  <2>2. /\ ask \in Lists!Ask /\ ask.id = h.lastID + 1 /\ ask.gen = h.recoveryGen
        /\ ask.chat = h.selected /\ ask.id \in Nat /\ ask.id # 0
    BY HomeFields DEF Lists!Ask
  <2>. HIDE DEF ask
  <2>3. g \in Lists!World
    <3>1. h.lastID + 1 \in Nat /\ h.asks \cup {ask} \in SUBSET Lists!Ask /\ h.recoveryGen \in Nat
      BY <2>2, HomeFields
    <3>. QED  BY ZenonT(60), <2>1, <2>2, <3>1 DEF Lists!World
  <2>4. /\ SameList(g, h) /\ g.initial = h.initial /\ g.state = h.state
        /\ g.established = h.established /\ g.recoveryGen = h.recoveryGen
        /\ g.selected = h.selected /\ g.saved = h.saved /\ g.behind = h.behind
        /\ g.snapshot = h.snapshot
        /\ g.ask = ask /\ g.lastID = h.lastID + 1 /\ g.awaited = ask.id
        /\ g.asks = h.asks \cup {ask}
    BY <2>1 DEF Lists!World, SameList
  <2>5. Connects(g, h)
    BY <2>3, <2>4 DEF Connects, Lists!IsOpen
  <2>6. Asking(g)
    <3>1. \A a \in h.asks : a.id \in Nat
      BY HomeFields DEF Lists!Ask
    <3>2. h.lastID \in Nat
      BY HomeFields
    <3>. QED  BY <1>2, <2>2, <2>4, <3>1, <3>2 DEF Asking
  <2>7. Timely(g)
    BY <1>2, <2>4, FetchingRests DEF Timely, SameList
  <2>8. Awaiting(g) /\ Catching(g)
    BY <2>2, <2>4 DEF Awaiting, Catching
  <2>. QED  BY <2>4, <2>5, <2>6, <2>7, <2>8
<1>. QED  BY <1>1, <1>2

\* The connection is ready.
Ready(h) == [h EXCEPT !.state = "ready", !.established = TRUE]

\* Being ready keeps what the recovery knows.
LEMMA ReadyIs ==
    ASSUME NEW h \in Lists!World, NEW g, g = Ready(h)
    PROVE  /\ g \in Lists!World /\ SameList(g, h) /\ g.initial = h.initial /\ g.state = "ready"
           /\ g.awaited = h.awaited /\ g.established /\ g.recoveryGen = h.recoveryGen
           /\ g.selected = h.selected /\ g.saved = h.saved /\ g.behind = h.behind
           /\ g.snapshot = h.snapshot /\ g.ask = h.ask /\ g.lastID = h.lastID /\ g.asks = h.asks
<1>1. g \in Lists!World
  BY ZenonT(60), TRUE \in BOOLEAN DEF Ready, Lists!World
<1>. QED  BY <1>1 DEF Ready, Lists!World, SameList

\* The recovery waits for nothing any more.
LEMMA FinishIs ==
    ASSUME NEW h \in Lists!World, NEW g, g = Lists!Finish(h), Asking(h), Timely(h),
           h.state = "recovering" => Excused(h) \/ ~h.behind
    PROVE  /\ Connects(g, h) /\ g.recoveryGen = h.recoveryGen
           /\ g.selected = h.selected /\ g.saved = h.saved
           /\ Asking(g) /\ Timely(g) /\ Awaiting(g) /\ Catching(g)
           /\ Lists!IsOpen(h) /\ h.snapshot => g.state = "ready"
           /\ g.snapshot = h.snapshot
<1>. DEFINE k == [h EXCEPT !.awaited = 0]
<1>1. k \in Lists!World
  BY ZenonT(60), 0 \in Nat DEF Lists!World
<1>2. /\ SameList(k, h) /\ k.initial = h.initial /\ k.state = h.state /\ k.awaited = 0
      /\ k.established = h.established /\ k.recoveryGen = h.recoveryGen
      /\ k.selected = h.selected /\ k.saved = h.saved /\ k.behind = h.behind
      /\ k.snapshot = h.snapshot /\ k.ask = h.ask /\ k.lastID = h.lastID /\ k.asks = h.asks
  BY DEF Lists!World, SameList
<1>3. g = Lists!Completed(k)
  BY DEF Lists!Finish
<1>. HIDE DEF k
<1>4. Connects(k, h)
  BY <1>1, <1>2 DEF Connects, Lists!IsOpen
<1>5. Asking(k) /\ Timely(k)
  BY <1>2, FetchingRests DEF Asking, Timely, Excused, SameList
<1>6. Awaiting(k) /\ Catching(k)
  BY <1>2 DEF Awaiting, Catching, Excused, SameList
<1>7. CASE ~(Lists!IsOpen(k) /\ k.snapshot)
  <2>1. g = k
    BY <1>3, <1>7 DEF Lists!Completed
  <2>. QED  BY <1>2, <1>4, <1>5, <1>6, <1>7, <2>1 DEF Lists!IsOpen
<1>8. CASE Lists!IsOpen(k) /\ k.snapshot
  <2>1. g = Ready(k)
    BY <1>2, <1>3, <1>8 DEF Lists!Completed, Ready
  <2>2. /\ g \in Lists!World /\ SameList(g, k) /\ g.initial = k.initial /\ g.state = "ready"
        /\ g.awaited = k.awaited /\ g.established /\ g.recoveryGen = k.recoveryGen
        /\ g.selected = k.selected /\ g.saved = k.saved /\ g.behind = k.behind
        /\ g.snapshot = k.snapshot /\ g.ask = k.ask /\ g.lastID = k.lastID /\ g.asks = k.asks
    BY ONLY <1>1, <2>1, ReadyIs
  <2>3. Connects(g, h)
    BY <1>2, <1>8, <2>2 DEF Connects, SameList, Lists!IsOpen
  <2>4. Asking(g) /\ Awaiting(g) /\ Catching(g)
    BY <1>2, <1>5, <1>8, <2>2 DEF Asking, Awaiting, Catching, SameList
  <2>5. Timely(g)
    <3>1. Lists!Fetching(g, {"recovery"}) <=> Lists!Fetching(h, {"recovery"})
      BY <1>2, <2>2, FetchingRests DEF SameList
    <3>2. g.upset = h.upset /\ g.saved = h.saved /\ g.behind = h.behind
          /\ h.state \in {"recovering", "ready"}
      BY <1>2, <1>8, <2>2 DEF SameList, Lists!IsOpen
    <3>. QED  BY <3>1, <3>2 DEF Timely, Excused
  <2>. QED  BY <1>2, <2>2, <2>3, <2>4, <2>5
<1>. QED  BY <1>7, <1>8

\* A chat is selected.
LEMMA SelectedIs ==
    ASSUME HomeBounds, NEW h \in Lists!World, NEW c \in Chats, NEW g, g = Lists!Selected(h, c), Asking(h)
    PROVE  /\ Connects(g, h) /\ g.recoveryGen = h.recoveryGen
           /\ g.selected = c /\ g.saved = c
           /\ Talks(g)
<1>. DEFINE k == [h EXCEPT !.selected = c, !.saved = c, !.behind = h.state = "recovering"]
<1>1. c # "none" /\ c \in Lists!ChatOrNone /\ (h.state = "recovering") \in BOOLEAN
  BY DEF HomeBounds, Lists!ChatOrNone
<1>2. k \in Lists!World
  BY ZenonT(60), <1>1 DEF Lists!World
<1>3. /\ SameList(k, h) /\ k.initial = h.initial /\ k.state = h.state
      /\ k.established = h.established /\ k.recoveryGen = h.recoveryGen
      /\ k.selected = c /\ k.saved = c /\ k.behind = (h.state = "recovering")
      /\ k.snapshot = h.snapshot /\ k.ask = h.ask /\ k.lastID = h.lastID /\ k.asks = h.asks
  BY DEF Lists!World, SameList
<1>4. g = Lists!Reconcile(k, k.recoveryGen)
  BY <1>3 DEF Lists!Selected
<1>. HIDE DEF k
<1>5. Connects(k, h)
  BY <1>2, <1>3 DEF Connects, Lists!IsOpen
<1>6. Asking(k)
  BY <1>1, <1>3 DEF Asking
<1>7. Timely(k)
  BY <1>3 DEF Timely
<1>8. /\ Connects(g, k) /\ g.recoveryGen = k.recoveryGen
      /\ g.selected = k.selected /\ g.saved = k.saved
      /\ Asking(g) /\ Timely(g) /\ Awaiting(g) /\ Catching(g)
  BY <1>1, <1>2, <1>3, <1>4, <1>6, <1>7, ReconcileIs
<1>. QED  BY <1>3, <1>5, <1>8, ConnectsOn DEF Talks

\* The chat is closed: a recovery has nothing to wait for.
LEMMA ClosedIs ==
    ASSUME NEW h \in Lists!World, NEW g, g = Lists!Closed(h), Asking(h)
    PROVE  /\ Connects(g, h) /\ g.recoveryGen = h.recoveryGen + 1
           /\ g.selected = "none" /\ g.saved = "none"
           /\ Talks(g)
<1>. DEFINE k == [h EXCEPT !.selected = "none", !.saved = "none", !.behind = FALSE,
                           !.recoveryGen = h.recoveryGen + 1]
<1>1. h.recoveryGen \in Nat /\ h.recoveryGen + 1 \in Nat /\ "none" \in Lists!ChatOrNone
  BY HomeFields DEF Lists!ChatOrNone
<1>2. k \in Lists!World
  BY ZenonT(60), <1>1, FALSE \in BOOLEAN DEF Lists!World
<1>3. /\ SameList(k, h) /\ k.initial = h.initial /\ k.state = h.state
      /\ k.established = h.established /\ k.recoveryGen = h.recoveryGen + 1
      /\ k.selected = "none" /\ k.saved = "none" /\ k.behind = FALSE
      /\ k.snapshot = h.snapshot /\ k.ask = h.ask /\ k.lastID = h.lastID /\ k.asks = h.asks
  BY DEF Lists!World, SameList
<1>4. g = IF h.state = "recovering" THEN Lists!Finish(k) ELSE k
  BY DEF Lists!Closed
<1>. HIDE DEF k
<1>5. Connects(k, h)
  BY <1>2, <1>3 DEF Connects, Lists!IsOpen
<1>6. Asking(k)
  BY <1>3 DEF Asking
<1>7. Timely(k)
  BY <1>3 DEF Timely
<1>8. CASE h.state = "recovering"
  <2>1. /\ Connects(g, k) /\ g.recoveryGen = k.recoveryGen
        /\ g.selected = k.selected /\ g.saved = k.saved
        /\ Asking(g) /\ Timely(g) /\ Awaiting(g) /\ Catching(g)
    BY <1>2, <1>3, <1>4, <1>6, <1>7, <1>8, FinishIs
  <2>. QED  BY <1>3, <1>5, <2>1, ConnectsOn DEF Talks
<1>9. CASE h.state # "recovering"
  <2>1. g = k  BY <1>4, <1>9
  <2>2. Awaiting(k) /\ Catching(k)
    BY <1>3, <1>9 DEF Awaiting, Catching
  <2>. QED  BY <1>3, <1>5, <1>6, <1>7, <2>1, <2>2 DEF Talks
<1>. QED  BY <1>8, <1>9

\* The chat of before is selected again, if it is listed.
LEMMA RestoredIs ==
    ASSUME HomeBounds, NEW h \in Lists!World, NEW g, g = Lists!Restored(h), Asking(h)
    PROVE  /\ Connects(g, h) /\ g.recoveryGen = h.recoveryGen
           /\ h.selected # "none" => g.selected = h.selected
           /\ g.selected = h.selected \/ g.selected \in h.listed
           /\ Asking(g) /\ Timely(g) /\ Catching(g)
           /\ Awaiting(h) => Awaiting(g)
<1>1. h.listed \in SUBSET Chats /\ "none" \in Lists!ChatOrNone
  BY HomeFields DEF Lists!ChatOrNone
<1>2. CASE h.saved \in h.listed
  <2>1. g = Lists!Selected(h, h.saved) /\ h.saved \in Chats
    BY <1>1, <1>2 DEF Lists!Restored
  <2>2. /\ Connects(g, h) /\ g.recoveryGen = h.recoveryGen
        /\ g.selected = h.saved /\ Talks(g)
    BY <2>1, SelectedIs
  <2>3. h.selected # "none" => h.saved = h.selected
    BY <2>1 DEF Asking, HomeBounds
  <2>. QED  BY <1>2, <2>2, <2>3 DEF Talks
<1>3. CASE h.saved \notin h.listed
  <2>1. g = [h EXCEPT !.saved = "none"]
    BY <1>3 DEF Lists!Restored
  <2>2. g \in Lists!World
    BY ZenonT(60), <1>1, <2>1 DEF Lists!World
  <2>3. /\ SameList(g, h) /\ g.initial = h.initial /\ g.state = h.state /\ g.awaited = h.awaited
        /\ g.established = h.established /\ g.recoveryGen = h.recoveryGen
        /\ g.selected = h.selected /\ g.saved = "none" /\ g.behind = h.behind
        /\ g.snapshot = h.snapshot /\ g.ask = h.ask /\ g.lastID = h.lastID /\ g.asks = h.asks
    BY <2>1 DEF Lists!World, SameList
  <2>4. Connects(g, h)
    BY <2>2, <2>3 DEF Connects, Lists!IsOpen
  <2>5. Asking(g) /\ (Awaiting(h) => Awaiting(g))
    BY <2>3 DEF Asking, Awaiting
  <2>6. Timely(g) /\ Catching(g)
    BY <2>3 DEF Timely, Catching, Excused
  <2>. QED  BY <2>3, <2>4, <2>5, <2>6
<1>. QED  BY <1>2, <1>3

\* The connection has failed.
LEMMA FailIs ==
    ASSUME NEW h \in Lists!World, NEW g, g = Lists!FailRecovery(h), Asking(h)
    PROVE  /\ g \in Lists!World /\ SameList(g, h) /\ g.initial = h.initial
           /\ g.established = h.established /\ g.state = "failed"
           /\ g.recoveryGen = h.recoveryGen /\ g.selected = h.selected /\ g.saved = h.saved
           /\ g.behind = h.behind /\ g.ask = h.ask /\ g.lastID = h.lastID /\ g.asks = h.asks
           /\ Talks(g)
<1>1. g = [h EXCEPT !.state = "failed"]
  BY DEF Lists!FailRecovery
<1>2. g \in Lists!World
  BY ZenonT(60), <1>1 DEF Lists!World
<1>3. /\ SameList(g, h) /\ g.initial = h.initial /\ g.state = "failed"
      /\ g.established = h.established /\ g.recoveryGen = h.recoveryGen
      /\ g.selected = h.selected /\ g.saved = h.saved /\ g.behind = h.behind
      /\ g.ask = h.ask /\ g.lastID = h.lastID /\ g.asks = h.asks
  BY <1>1 DEF Lists!World, SameList
<1>. QED
  BY <1>2, <1>3 DEF Talks, Asking, Awaiting, Timely, Catching, SameList

\* The first load and the opened connection meet.
LEMMA InitialCompletedIs ==
    ASSUME NEW h \in Lists!World, NEW g, g = Lists!InitialCompleted(h), Asking(h), Timely(h)
    PROVE  /\ Connects(g, h) /\ g.recoveryGen = h.recoveryGen
           /\ g.selected = h.selected /\ g.saved = h.saved
           /\ Asking(g) /\ Timely(g)
           /\ Awaiting(h) => Awaiting(g)
           /\ Catching(h) => Catching(g)
           /\ ~h.established /\ h.initial # "pending" => Awaiting(g) /\ Catching(g)
<1>1. CASE h.state # "recovering" \/ h.established \/ h.initial = "pending"
  <2>1. g = h
    BY <1>1 DEF Lists!InitialCompleted
  <2>2. Connects(h, h)
    BY DEF Connects, SameList
  <2>3. h.state # "recovering" => Awaiting(h) /\ Catching(h)
    BY DEF Awaiting, Catching
  <2>. QED  BY <1>1, <2>1, <2>2, <2>3
<1>2. CASE h.state = "recovering" /\ ~h.established /\ h.initial # "pending"
  <2>1. CASE h.initial = "failed"
    <3>1. g = Lists!FailRecovery(h)
      BY <1>2, <2>1 DEF Lists!InitialCompleted
    <3>2. /\ g \in Lists!World /\ SameList(g, h) /\ g.initial = h.initial
          /\ g.established = h.established /\ g.state = "failed"
          /\ g.recoveryGen = h.recoveryGen /\ g.selected = h.selected /\ g.saved = h.saved
          /\ Talks(g)
      BY <3>1, FailIs
    <3>. QED  BY <1>2, <3>2 DEF Connects, Lists!IsOpen, Talks
  <2>2. CASE h.initial # "failed" /\ h.selected # "none"
    <3>1. g = Lists!Reconcile(h, h.recoveryGen)
      BY <1>2, <2>2 DEF Lists!InitialCompleted
    <3>. QED  BY <2>2, <3>1, ReconcileIs
  <2>3. CASE h.initial # "failed" /\ h.selected = "none"
    <3>1. g = Lists!Finish(h)
      BY <1>2, <2>3 DEF Lists!InitialCompleted
    <3>2. ~h.behind
      BY <2>3 DEF Asking
    <3>. QED  BY <3>1, <3>2, FinishIs
  <2>. QED  BY <2>1, <2>2, <2>3
<1>. QED  BY <1>1, <1>2

-----------------------------------------------------------------------------
(* What Home does with the list.                                            *)

\* The list rests but for what was asked for.
SameScreen(g, h) ==
    /\ g.refreshGen = h.refreshGen /\ g.proj = h.proj /\ g.mode = h.mode /\ g.from = h.from
    /\ g.isLoading = h.isLoading /\ g.snapLoading = h.snapLoading /\ g.error = h.error
    /\ g.listed = h.listed /\ g.ver = h.ver /\ g.gone = h.gone
    /\ g.cursor = h.cursor /\ g.tail = h.tail
    /\ g.moves = h.moves

\* A request that was just made.
Query(h, kind, gen, left) ==
    [kind |-> kind, gen |-> gen, left |-> left, mode |-> h.mode,
     proj |-> h.proj, at |-> "sent", has |-> {}, ver |-> 0]

\* The fields of a request have their types.
LEMMA ListFields ==
    ASSUME NEW r \in Lists!List
    PROVE  /\ r.kind \in {"initial", "recovery", "refresh", "page"} /\ r.gen \in Nat
           /\ r.left \in 0 .. Retries /\ r.mode \in Lists!Modes /\ r.proj \in Nat
           /\ r.at \in {"sent", "answered", "timer"} /\ r.has \in SUBSET Chats /\ r.ver \in Nat
  BY DEF Lists!List

\* The fields of a move have their types.
LEMMA MoveFields ==
    ASSUME NEW m \in Lists!Move
    PROVE  /\ m.kind \in {"archive", "create"} /\ m.chat \in Chats
           /\ m.mode \in Lists!Modes /\ m.ver \in Nat
  BY DEF Lists!Move

\* A request just made is of the mode shown, and has no answer.
LEMMA QueryFields ==
    ASSUME NEW h \in Lists!World, NEW kind \in {"initial", "recovery", "refresh", "page"},
           NEW gen \in Nat, NEW left \in 0 .. Retries, NEW q, q = Query(h, kind, gen, left)
    PROVE  /\ q \in Lists!List /\ q.kind = kind /\ q.gen = gen /\ q.left = left
           /\ q.mode = h.mode /\ q.at = "sent" /\ q.has = {} /\ q.ver = 0
  BY HomeFields DEF Lists!List, Query

\* More or less was asked for.
Adds(g, h, q) ==
    /\ g \in Lists!World /\ SameTalk(g, h) /\ SameScreen(g, h) /\ g.upset = h.upset
    /\ g.lists = h.lists \cup {q}

\* Other requests change nothing of what is shown or said.
LEMMA ListsIs ==
    ASSUME NEW h \in Lists!World, NEW L \in SUBSET Lists!List, NEW g, g = [h EXCEPT !.lists = L]
    PROVE  /\ g \in Lists!World /\ SameTalk(g, h) /\ SameScreen(g, h) /\ g.lists = L
           /\ g.upset = h.upset
<1>1. g \in Lists!World
  BY ZenonT(60) DEF Lists!World
<1>. QED  BY <1>1 DEF Lists!World, SameTalk, SameScreen

\* A request more changes nothing of what is shown or said.
LEMMA AddsIs ==
    ASSUME NEW h \in Lists!World, NEW q \in Lists!List,
           NEW g, g = [h EXCEPT !.lists = h.lists \cup {q}]
    PROVE  Adds(g, h, q)
<1>1. h.lists \cup {q} \in SUBSET Lists!List
  BY HomeFields
<1>2. g \in Lists!World
  BY ZenonT(60), <1>1 DEF Lists!World
<1>3. SameTalk(g, h) /\ SameScreen(g, h) /\ g.upset = h.upset /\ g.lists = h.lists \cup {q}
  BY DEF Lists!World, SameTalk, SameScreen
<1>. QED  BY <1>2, <1>3 DEF Adds

\* What is asked for is one request more.
LEMMA RequestedIs ==
    ASSUME NEW h \in Lists!World, NEW kind \in {"initial", "recovery", "refresh", "page"},
           NEW gen \in Nat, NEW left \in 0 .. Retries,
           NEW g, g = Lists!Requested(h, kind, gen, left)
    PROVE  Adds(g, h, Query(h, kind, gen, left))
<1>1. Query(h, kind, gen, left) \in Lists!List
  BY QueryFields
<1>2. g = [h EXCEPT !.lists = h.lists \cup {Query(h, kind, gen, left)}]
  BY DEF Lists!Requested, Query
<1>. QED  BY <1>1, <1>2, AddsIs

\* A request less changes nothing of what is shown or said.
LEMMA WithoutIs ==
    ASSUME NEW h \in Lists!World, NEW r, NEW g, g = Lists!Without(h, r)
    PROVE  /\ g \in Lists!World /\ SameTalk(g, h) /\ SameScreen(g, h)
           /\ g.lists = h.lists \ {r} /\ g.upset = h.upset
<1>1. h.lists \ {r} \in SUBSET Lists!List
  BY HomeFields
<1>. QED  BY <1>1, ListsIs DEF Lists!Without

\* Without the pages under way, nothing of it changes either.
LEMMA WithoutPagesIs ==
    ASSUME NEW h \in Lists!World, NEW g, g = Lists!WithoutPages(h)
    PROVE  /\ g \in Lists!World /\ SameTalk(g, h) /\ SameScreen(g, h)
           /\ g.lists = {r \in h.lists : r.kind # "page"} /\ g.upset = h.upset
<1>1. {r \in h.lists : r.kind # "page"} \in SUBSET Lists!List
  BY HomeFields
<1>. QED  BY <1>1, ListsIs DEF Lists!WithoutPages

\* A retry is set.
LEMMA LaterIs ==
    ASSUME HomeBounds, NEW h \in Lists!World, NEW r \in Lists!List, r.left > 0,
           NEW g, g = Lists!Later(h, r)
    PROVE  \E q \in Lists!List :
                 /\ Adds(g, h, q) /\ q.kind = r.kind /\ q.gen = r.gen
                 /\ q.left < Retries /\ q.mode = r.mode /\ q.at = "timer" /\ q.ver = 0
<1>. DEFINE q == [r EXCEPT !.at = "timer", !.left = r.left - 1, !.has = {}, !.ver = 0]
<1>1. r.left - 1 \in 0 .. Retries /\ r.left - 1 < Retries
  BY ListFields DEF HomeBounds
<1>2. /\ q \in Lists!List /\ q.kind = r.kind /\ q.gen = r.gen
      /\ q.left = r.left - 1 /\ q.mode = r.mode /\ q.at = "timer" /\ q.ver = 0
  BY <1>1 DEF Lists!List
<1>3. g = [h EXCEPT !.lists = h.lists \cup {q}]
  BY DEF Lists!Later
<1>. HIDE DEF q
<1>4. Adds(g, h, q)
  BY <1>2, <1>3, AddsIs
<1>. QED  BY <1>1, <1>2, <1>4

\* What is noted rests otherwise.
LEMMA NotedIs ==
    ASSUME NEW h \in Lists!World, NEW what \in Lists!Notes,
           NEW overtakes \in BOOLEAN, NEW g, g = Lists!Noted(h, what, overtakes)
    PROVE  /\ g \in Lists!World /\ SameTalk(g, h) /\ SameScreen(g, h) /\ g.lists = h.lists
           /\ g.upset = h.upset \cup (IF overtakes THEN {what} ELSE {})
<1>1. CASE ~overtakes
  <2>1. g = h  BY <1>1 DEF Lists!Noted
  <2>. QED  BY <1>1, <2>1 DEF Lists!World, SameTalk, SameScreen
<1>2. CASE overtakes
  <2>1. g = [h EXCEPT !.upset = h.upset \cup {what}]
    BY <1>2 DEF Lists!Noted
  <2>2. h.upset \cup {what} \in SUBSET Lists!Notes
    BY HomeFields
  <2>3. g \in Lists!World
    BY ZenonT(60), <2>1, <2>2 DEF Lists!World
  <2>4. SameTalk(g, h) /\ SameScreen(g, h) /\ g.lists = h.lists
    BY <2>1 DEF Lists!World, SameTalk, SameScreen
  <2>5. g.upset = h.upset \cup {what}
    BY <2>1 DEF Lists!World
  <2>. QED  BY <1>2, <2>3, <2>4, <2>5
<1>. QED  BY <1>1, <1>2

\* What the server has.
Served == [at : [Chats -> Lists!Modes \cup {"nowhere"}], ver : Nat]

\* What the server has is typed.
LEMMA ServedFields ==
    ASSUME NEW s \in Served
    PROVE  s.at \in [Chats -> Lists!Modes \cup {"nowhere"}] /\ s.ver \in Nat
  BY DEF Served

\* What overtakes a list is not forgotten.
Remembers(g, h) == h.upset \subseteq g.upset

\* The connection and the selection hold whatever is asked for, as long as a recovery
\* that is under way stays so.
LEMMA TalkRests ==
    ASSUME NEW h \in Lists!World, NEW g \in Lists!World, SameTalk(g, h), Remembers(g, h),
           Lists!Fetching(h, {"recovery"}) => Lists!Fetching(g, {"recovery"}),
           Talks(h)
    PROVE  Talks(g)
<1>1. Asking(g) /\ Awaiting(g)
  BY DEF SameTalk, Talks, Asking, Awaiting
<1>2. Timely(g) /\ Catching(g)
  BY DEF SameTalk, Remembers, Talks, Timely, Catching, Excused
<1>. QED  BY <1>1, <1>2 DEF Talks

\* With a recovery less, the chat selected may have nothing to wait for.
LEMMA TalkLoses ==
    ASSUME NEW h, NEW g, SameTalk(g, h), Talks(h)
    PROVE  Asking(g) /\ Awaiting(g)
  BY DEF SameTalk, Talks, Asking, Awaiting

\* The list, which the connection takes a turn with.
Turns(g, h) ==
    /\ SameList(g, h) /\ (h.established => g.established)
    /\ g.recoveryGen \in {h.recoveryGen, h.recoveryGen + 1}
    /\ "moves" \notin h.upset => g.selected \in {"none", h.selected} \/ g.selected \in h.listed

\* A turn of the connection leaves the requests, the versions and the list in order.
LEMMA TurnsKeeps ==
    ASSUME NEW h \in Lists!World, NEW g, NEW s, Turns(g, h), Stands(h, s)
    PROVE  Stands(g, s)
<1>1. /\ h.recoveryGen \in Nat
      /\ \A r \in h.lists : r.gen \in Nat
  BY HomeFields, ListFields
<1>2. Requested(g)
  BY <1>1 DEF Stands, Requested, Turns, SameList, Present
<1>3. Single(g)
  BY <1>1 DEF Stands, Single, Requested, Turns, SameList, Present
<1>4. Versions(g, s) /\ Moves(g, s)
  BY DEF Stands, Versions, Moves, Turns, SameList
<1>5. Listing(g, s)
  <2>1. SUFFICES ASSUME "moves" \notin g.upset
                 PROVE  Listing(g, s)
    BY DEF Listing
  <2>2. \A c : Leaving(h, c) <=> Leaving(g, c)
    BY DEF Leaving, Turns, SameList
  <2>3. \A r \in g.lists : Present(g, r) => Present(h, r)
    BY <1>1 DEF Stands, Requested, Turns, SameList, Present
  <2>4. \A r : Answers(h, s, r) => Answers(g, s, r)
    BY <2>2 DEF Answers, Turns, SameList
  <2>. QED  BY <2>1, <2>2, <2>3, <2>4 DEF Stands, Listing, Turns, SameList
<1>. QED  BY <1>2, <1>3, <1>4, <1>5 DEF Stands

\* What loads still loads after it, unless a recovery under way is overtaken.
LEMMA TurnsLoading ==
    ASSUME NEW h, NEW g, Turns(g, h), Loading(h),
           \/ g.recoveryGen = h.recoveryGen
           \/ ~Lists!Fetching(h, {"recovery"})
           \/ "moves" \in h.upset,
           h.established /\ ~Lists!IsOpen(h) => ~Lists!IsOpen(g)
    PROVE  Loading(g)
<1>1. SUFFICES ASSUME g.upset \cap {"moves", "errors"} = {}
               PROVE  Loading(g)
  BY DEF Loading
<1>2. \A kinds : "moves" \notin h.upset /\ Lists!Fetching(h, kinds) => Lists!Fetching(g, kinds)
  BY DEF Lists!Fetching, Turns, SameList
<1>3. h.established /\ ~Lists!IsOpen(h) => g.established /\ ~Lists!IsOpen(g)
  BY DEF Turns
<1>. QED  BY <1>1, <1>2, <1>3 DEF Loading, Turns, SameList

\* So it keeps all that is said of the list.
LEMMA ConnectsKeeps ==
    ASSUME NEW h \in Lists!World, NEW g, NEW s, Connects(g, h), Lasts(h, s),
           \/ g.recoveryGen = h.recoveryGen
           \/ /\ g.recoveryGen = h.recoveryGen + 1
              /\ ~Lists!Fetching(h, {"recovery"}) \/ "moves" \in h.upset,
           "moves" \notin h.upset =>
              g.selected \in {"none", h.selected} \/ g.selected \in h.listed
    PROVE  Lasts(g, s)
<1>1. Turns(g, h)
  BY DEF Turns, Connects
<1>2. h.established /\ ~Lists!IsOpen(h) => ~Lists!IsOpen(g)
  BY DEF Connects
<1>. QED  BY <1>1, <1>2, TurnsKeeps, TurnsLoading DEF Lasts

\* A request is made again.
LEMMA RepeatsKeeps ==
    ASSUME NEW h \in Lists!World, NEW g \in Lists!World, NEW s \in Served, SameScreen(g, h), SameTalk(g, h),
           g.upset = h.upset, Lasts(h, s), Talks(h), HomeBounds,
           NEW r \in h.lists, NEW q \in Lists!List, g.lists = (h.lists \ {r}) \cup {q},
           q.kind = r.kind, q.kind # "page", q.gen = r.gen, q.ver = 0,
           q.mode \in {h.mode, r.mode}, q.at \in {"sent", "timer"},
           q.at = "timer" => q.left < Retries
    PROVE  Talks(g) /\ Lasts(g, s)
<1>1. /\ \A p : Present(g, p) <=> Present(h, p)
      /\ Present(g, q) <=> Present(h, r)
  BY DEF Present, SameScreen, SameTalk
<1>2. Requested(g)
  BY <1>1 DEF Lasts, Stands, Requested, SameScreen, SameTalk
<1>3. Single(g)
  BY <1>1 DEF Lasts, Stands, Single, SameScreen, SameTalk
<1>4. Versions(g, s)
  BY ServedFields DEF Lasts, Stands, Versions, SameScreen
<1>5. Moves(g, s)
  BY DEF Lasts, Stands, Moves, SameScreen
<1>6. Listing(g, s)
  <2>1. \A c : Leaving(h, c) <=> Leaving(g, c)
    BY DEF Leaving, SameScreen
  <2>2. \A p : Answers(h, s, p) => Answers(g, s, p)
    BY <2>1 DEF Answers, SameScreen
  <2>. QED  BY <1>1, <2>1, <2>2 DEF Lasts, Stands, Listing, SameScreen, SameTalk
<1>7. \A kinds : Lists!Fetching(h, kinds) <=> Lists!Fetching(g, kinds)
  <2>1. \A p \in g.lists : p = q \/ p \in h.lists
    OBVIOUS
  <2>2. \A p \in h.lists : p = r \/ p \in g.lists
    OBVIOUS
  <2>3. q \in g.lists
    OBVIOUS
  <2>. QED  BY <2>1, <2>2, <2>3 DEF Lists!Fetching, SameScreen, SameTalk
<1>8. Loading(g)
  BY <1>7 DEF Lasts, Stands, Loading, SameScreen, SameTalk, Lists!IsOpen
<1>9. Talks(g)
  BY <1>7, TalkRests DEF Remembers
<1>. QED  BY <1>2, <1>3, <1>4, <1>5, <1>6, <1>8, <1>9 DEF Lasts, Stands

\* A request is dropped, with what is loading by it.
LEMMA DropsKeeps ==
    ASSUME NEW h \in Lists!World, NEW g \in Lists!World, NEW s, SameScreen(g, h), SameTalk(g, h),
           Remembers(g, h), g.lists \subseteq h.lists, Stands(h, s)
    PROVE  Stands(g, s)
<1>1. \A p : Present(g, p) <=> Present(h, p)
  BY DEF Present, SameScreen, SameTalk
<1>2. Requested(g)
  BY <1>1 DEF Stands, Requested, SameScreen, SameTalk
<1>3. Single(g)
  BY <1>1 DEF Stands, Single, SameScreen, SameTalk, Remembers
<1>4. Versions(g, s)
  BY DEF Stands, Versions, SameScreen
<1>5. Moves(g, s)
  BY DEF Stands, Moves, SameScreen, Remembers
<1>6. Listing(g, s)
  <2>1. \A c : Leaving(h, c) <=> Leaving(g, c)
    BY DEF Leaving, SameScreen
  <2>2. \A p : Answers(h, s, p) => Answers(g, s, p)
    BY <2>1 DEF Answers, SameScreen
  <2>. QED  BY <1>1, <2>1, <2>2 DEF Stands, Listing, SameScreen, SameTalk, Remembers
<1>. QED  BY <1>2, <1>3, <1>4, <1>5, <1>6 DEF Stands

\* The loading signs have their request still.
LEMMA LoadingRests ==
    ASSUME NEW h, NEW g, SameScreen(g, h), SameTalk(g, h), Remembers(g, h), Loading(h),
           \/ \A r \in h.lists : r \in g.lists \/ r.kind = "page" \/ ~Present(h, r)
           \/ g.upset \cap {"moves", "errors"} # {}
           \/ g.established /\ ~Lists!IsOpen(g)
    PROVE  Loading(g)
<1>1. SUFFICES ASSUME g.upset \cap {"moves", "errors"} = {}, Lists!IsOpen(g) \/ ~g.established
               PROVE  Loading(g)
  BY DEF Loading
<1>2. Lists!Fetching(h, {"initial", "refresh", "recovery"})
         => Lists!Fetching(g, {"initial", "refresh", "recovery"})
  BY <1>1 DEF Lists!Fetching, SameScreen, SameTalk, Present
<1>3. Lists!Fetching(h, {"refresh", "recovery"}) => Lists!Fetching(g, {"refresh", "recovery"})
  BY <1>1 DEF Lists!Fetching, SameScreen, SameTalk, Present
<1>. QED  BY <1>1, <1>2, <1>3 DEF Loading, SameScreen, SameTalk, Lists!IsOpen, Remembers

\* The answer to a request, a page being the rest of the list it continues.
Gives(s, r, q) ==
    /\ q.kind = r.kind /\ q.gen = r.gen /\ q.mode = r.mode /\ q.at = "answered"
    /\ q.ver = (IF r.kind = "page" THEN r.ver ELSE s.ver)
    /\ \A c \in Chats : c \in q.has <=> s.at[c] = r.mode

\* The server gives a list.
LEMMA AnswersKeeps ==
    ASSUME NEW h \in Lists!World, NEW g \in Lists!World, NEW s \in Served,
           SameScreen(g, h), SameTalk(g, h), g.upset = h.upset, Lasts(h, s), Talks(h),
           NEW r \in h.lists, r.at = "sent",
           NEW q \in Lists!List, g.lists = (h.lists \ {r}) \cup {q},
           Gives(s, r, q)
    PROVE  Talks(g) /\ Lasts(g, s)
<1>1. /\ \A p : Present(g, p) <=> Present(h, p)
      /\ Present(g, q) <=> Present(h, r)
  BY DEF Present, SameScreen, SameTalk, Gives
<1>2. Requested(g)
  BY <1>1 DEF Lasts, Stands, Requested, SameScreen, SameTalk, Gives
<1>3. Single(g)
  BY <1>1 DEF Lasts, Stands, Single, SameScreen, SameTalk, Gives
<1>4. Versions(g, s)
  BY ServedFields DEF Lasts, Stands, Versions, SameScreen, Gives
<1>5. Moves(g, s)
  <2>1. \A m \in h.moves : m.chat \in Chats
    BY HomeFields, MoveFields
  <2>. QED  BY <2>1 DEF Lasts, Stands, Moves, SameScreen, Gives
<1>6. Listing(g, s)
  <2>1. SUFFICES ASSUME "moves" \notin g.upset
                 PROVE  Listing(g, s)
    BY DEF Listing, Gives
  <2>2. \A c : Leaving(h, c) <=> Leaving(g, c)
    BY DEF Leaving, SameScreen, Gives
  <2>3. \A p : Answers(h, s, p) => Answers(g, s, p)
    BY <2>2 DEF Answers, SameScreen, Gives
  <2>4. Present(g, q) /\ q.kind # "page" => Answers(g, s, q)
    <3>1. SUFFICES ASSUME Present(g, q), q.kind # "page"
                   PROVE  Answers(g, s, q)
      OBVIOUS
    <3>2. q.ver = s.ver /\ r.mode = h.mode
      BY <1>1, <3>1 DEF Lasts, Stands, Requested, Gives
    <3>3. g.listed \in SUBSET Chats /\ q.has \in SUBSET Chats
      BY HomeFields, ListFields
    <3>. QED  BY <3>2, <3>3 DEF Answers, Lasts, Stands, Versions, SameScreen, Gives
  <2>5. \A c \in g.listed : s.at[c] = g.mode \/ Leaving(g, c)
    BY <2>1, <2>2 DEF Lasts, Stands, Listing, SameScreen, Gives
  <2>6. g.selected = "none" \/ g.selected \in g.listed \/ Leaving(g, g.selected)
    BY <2>1, <2>2 DEF Lasts, Stands, Listing, SameScreen, SameTalk, Gives
  <2>7. \A p \in g.lists : Present(g, p) /\ p.kind # "page" /\ p.at = "answered"
           => Answers(g, s, p)
    BY <1>1, <2>1, <2>3, <2>4 DEF Lasts, Stands, Listing, Gives
  <2>. QED  BY <2>5, <2>6, <2>7 DEF Listing, Gives
<1>7. \A kinds : Lists!Fetching(h, kinds) <=> Lists!Fetching(g, kinds)
  <2>1. \A p \in g.lists : p = q \/ p \in h.lists
    OBVIOUS
  <2>2. \A p \in h.lists : p = r \/ p \in g.lists
    OBVIOUS
  <2>3. q \in g.lists
    OBVIOUS
  <2>. QED  BY <2>1, <2>2, <2>3 DEF Lists!Fetching, SameScreen, SameTalk, Gives
<1>8. Loading(g)
  BY <1>7 DEF Lasts, Stands, Loading, SameScreen, SameTalk, Lists!IsOpen, Gives
<1>9. Talks(g)
  BY <1>7, TalkRests DEF Remembers, Gives
<1>. QED  BY <1>2, <1>3, <1>4, <1>5, <1>6, <1>8, <1>9 DEF Lasts, Stands, Gives

\* A list is asked for anew: what was under way is of the past.
LEMMA BeginsKeeps ==
    ASSUME NEW h \in Lists!World, NEW g \in Lists!World, NEW s \in Served, Stands(h, s),
           Remembers(g, h), g.moves = h.moves, h.established => g.established,
           g.refreshGen = h.refreshGen + 1, h.recoveryGen <= g.recoveryGen,
           NEW q \in Lists!List, g.lists = {r \in h.lists : r.kind # "page"} \cup {q},
           q.mode = g.mode, q.at = "sent", q.ver = 0, q.kind # "page", Present(g, q),
           q.kind = "recovery" => g.established,
           q.kind = "initial" => g.cursor = 0 /\ ~g.snapLoading,
           q.kind # "initial" => g.snapLoading,
           \/ "moves" \in g.upset
           \/ \A r \in h.lists : r.kind = "recovery" => r.gen # g.recoveryGen,
           g.from = g.mode, g.mode = h.mode \/ g.recoveryGen = h.recoveryGen + 1,
           \/ /\ g.mode = h.mode /\ g.listed = h.listed /\ g.ver = h.ver /\ g.gone = h.gone
              /\ g.cursor = h.cursor /\ g.tail = h.tail
           \/ /\ g.listed = {} /\ g.ver = 0 /\ g.gone = 0 /\ g.cursor = 0 /\ g.tail = 0,
           "moves" \notin g.upset =>
              g.selected = "none" \/ (g.mode = h.mode /\ g.listed = h.listed /\ g.selected = h.selected)
    PROVE  Lasts(g, s)
<1>1. /\ h.recoveryGen \in Nat /\ h.refreshGen \in Nat /\ g.recoveryGen \in Nat
      /\ \A r \in h.lists : r.gen \in Nat
      /\ s.ver \in Nat
  BY HomeFields, ListFields, ServedFields
<1>2. \A r \in h.lists : r.kind = "recovery" => r.gen <= h.recoveryGen
  BY DEF Lasts, Stands, Requested
<1>3. \A r \in h.lists : r.kind # "recovery" => r.gen < g.refreshGen
  BY <1>1 DEF Lasts, Stands, Requested
<1>4. \A r \in g.lists : r.kind # "recovery" /\ Present(g, r) => r = q
  BY <1>1, <1>3 DEF Present
<1>5. "moves" \notin g.upset => \A r \in g.lists : Present(g, r) => r = q
  BY <1>4 DEF Present
<1>6. Requested(g)
  <2>1. \A r \in g.lists : r.kind = "recovery" => r.gen <= g.recoveryGen /\ g.established
    BY <1>1, <1>2 DEF Present, Lasts, Stands, Requested
  <2>2. \A r \in g.lists : r.kind # "recovery" => r.gen <= g.refreshGen
    BY <1>1, <1>3 DEF Present
  <2>3. \A r \in g.lists : r.at = "timer" => r.kind # "page" /\ r.left < Retries
    BY DEF Lasts, Stands, Requested
  <2>4. \A r \in g.lists : Present(g, r) => r.mode = g.mode
    <3>1. SUFFICES ASSUME NEW r \in g.lists, Present(g, r), r # q
                   PROVE  r.mode = g.mode
      OBVIOUS
    <3>2. r \in h.lists /\ r.kind = "recovery" /\ r.gen = g.recoveryGen
      BY <1>4, <3>1 DEF Present
    <3>3. g.recoveryGen = h.recoveryGen
      BY <1>1, <1>2, <3>2
    <3>4. r.mode = h.mode /\ g.mode = h.mode
      BY <1>1, <3>2, <3>3 DEF Lasts, Stands, Requested, Present
    <3>. QED  BY <3>4
  <2>. QED  BY <2>1, <2>2, <2>3, <2>4 DEF Requested
<1>7. Single(g)
  BY <1>5 DEF Lasts, Stands, Single, Remembers
<1>8. Versions(g, s)
  BY <1>1 DEF Lasts, Stands, Versions
<1>9. Moves(g, s)
  BY DEF Lasts, Stands, Moves, Remembers
<1>10. Listing(g, s)
  <2>1. g.mode = h.mode => \A c : Leaving(h, c) <=> Leaving(g, c)
    BY DEF Leaving
  <2>. QED  BY <1>5, <2>1 DEF Lasts, Stands, Listing, Remembers
<1>11. Loading(g)
  <2>1. q \in g.lists /\ q.kind \in {"initial", "refresh", "recovery"}
    BY ListFields
  <2>2. Lists!Fetching(g, {"initial", "refresh", "recovery"})
    BY <2>1 DEF Lists!Fetching, Present
  <2>3. g.snapLoading => Lists!Fetching(g, {"refresh", "recovery"})
    BY <2>1 DEF Lists!Fetching, Present
  <2>. QED  BY <2>2, <2>3 DEF Loading
<1>. QED  BY <1>6, <1>7, <1>8, <1>9, <1>10, <1>11 DEF Lasts, Stands

\* The list that came is shown: nothing else is waited for.
LEMMA ShownIs ==
    ASSUME NEW h \in Lists!World, NEW r \in Lists!List, NEW g, g = Lists!Shown(h, r)
    PROVE  /\ g \in Lists!World /\ SameTalk(g, h) /\ g.upset = h.upset /\ g.lists = h.lists
           /\ g.moves = h.moves /\ g.refreshGen = h.refreshGen /\ g.mode = h.mode
           /\ g.gone = h.gone /\ g.snapLoading = h.snapLoading
           /\ g.listed = r.has /\ g.ver = r.ver /\ g.from = r.mode /\ g.cursor = r.ver /\ g.tail = 0
           /\ ~g.isLoading
<1>1. r.has \in SUBSET Chats /\ r.ver \in Nat /\ r.mode \in Lists!Modes /\ 0 \in Nat
  BY ListFields
<1>2. g \in Lists!World
  BY ZenonT(60), <1>1 DEF Lists!World, Lists!Shown
<1>. QED  BY <1>2 DEF Lists!World, Lists!Shown, SameTalk

\* The list shown, with the loading sign of the snapshot or without it.
ShowsFrom(g, h, r) ==
    /\ g \in Lists!World /\ SameTalk(g, h) /\ Remembers(g, h) /\ g.lists = h.lists \ {r}
    /\ g.moves = h.moves /\ g.refreshGen = h.refreshGen /\ g.mode = h.mode /\ g.gone = h.gone
    /\ g.listed = r.has /\ g.ver = r.ver /\ g.from = r.mode /\ g.cursor = r.ver /\ g.tail = 0
    /\ ~g.isLoading
    /\ ~g.snapLoading \/ (r.kind = "initial" /\ g.snapLoading = h.snapLoading)

\* The newest list that was answered may be shown.
LEMMA ShownKeeps ==
    ASSUME NEW h \in Lists!World, NEW s \in Served, Lasts(h, s),
           NEW r \in h.lists, Present(h, r), r.kind # "page", r.at = "answered",
           NEW g, ShowsFrom(g, h, r)
    PROVE  Lasts(g, s)
<1>1. r \in Lists!List /\ r.mode = h.mode
  BY HomeFields DEF Lasts, Stands, Requested
<1>2. \A p : Present(g, p) <=> Present(h, p)
  BY DEF Present, ShowsFrom, SameTalk
<1>3. "moves" \notin g.upset => \A p \in g.lists : ~Present(h, p)
  BY DEF ShowsFrom, Remembers, Lasts, Stands, Single
<1>4. Requested(g)
  BY <1>1, <1>2 DEF Lasts, Stands, Requested, ShowsFrom, SameTalk
<1>5. Single(g)
  BY <1>2, <1>3 DEF Single, ShowsFrom
<1>6. Versions(g, s)
  BY DEF Lasts, Stands, Versions, ShowsFrom
<1>7. Moves(g, s)
  BY DEF Lasts, Stands, Moves, ShowsFrom, Remembers
<1>8. Listing(g, s)
  <2>1. SUFFICES ASSUME "moves" \notin g.upset
                 PROVE  Listing(g, s)
    BY DEF Listing
  <2>2. \A c : Leaving(h, c) <=> Leaving(g, c)
    BY DEF Leaving, ShowsFrom
  <2>3. Answers(h, s, r) /\ (h.selected = "none" \/ h.selected \in h.listed \/ Leaving(h, h.selected))
    BY <2>1 DEF Lasts, Stands, Listing, ShowsFrom, Remembers
  <2>4. \A c \in h.listed : s.at[c] = h.mode \/ Leaving(h, c)
    BY <2>1 DEF Lasts, Stands, Listing, ShowsFrom, Remembers
  <2>5. g.selected = h.selected /\ g.listed = r.has /\ g.mode = h.mode
    BY DEF ShowsFrom, SameTalk
  <2>6. g.selected = "none" \/ g.selected \in g.listed \/ Leaving(g, g.selected)
    BY <2>2, <2>3, <2>4, <2>5 DEF Answers
  <2>7. \A c \in g.listed : s.at[c] = g.mode \/ Leaving(g, c)
    BY <2>2, <2>3, <2>5 DEF Answers
  <2>8. \A p \in g.lists : ~Present(g, p)
    BY <1>2, <1>3, <2>1
  <2>. QED  BY <2>6, <2>7, <2>8 DEF Listing
<1>9. Loading(g)
  <2>1. SUFFICES ASSUME "moves" \notin h.upset, "errors" \notin h.upset, g.snapLoading
                 PROVE  g.established /\ ~Lists!IsOpen(g)
    BY DEF Loading, ShowsFrom, Remembers
  <2>2. r.kind = "initial" /\ h.snapLoading
    BY <2>1 DEF ShowsFrom
  <2>3. ~Lists!Fetching(h, {"refresh", "recovery"})
    BY <2>1, <2>2 DEF Lists!Fetching, Lasts, Stands, Single, Present
  <2>. QED  BY <2>1, <2>2, <2>3 DEF Lasts, Stands, Loading, ShowsFrom, SameTalk, Lists!IsOpen
<1>. QED  BY <1>4, <1>5, <1>6, <1>7, <1>8, <1>9 DEF Lasts, Stands

-----------------------------------------------------------------------------
(* What a step does to the list that is shown and to the chat selected.     *)

\* The list that is shown rests, and the chat selected or what the list waits for.
Rests(g, h) == g.ver = h.ver /\ (g.selected = h.selected \/ g.lists = h.lists)

\* What is shown is newer, and the chat selected is still there (NewestListWins).
Follows(g, h, s) ==
    /\ "moves" \notin g.upset /\ g.mode = h.mode /\ g.ver # h.ver =>
          g.ver > h.ver /\ g.ver >= h.gone
    /\ \A r \in h.lists :
          g.lists = h.lists \ {r} /\ "moves" \notin g.upset /\ h.selected # "none"
             /\ s.at[h.selected] = h.mode => g.selected = h.selected

\* What changes nothing of the list rests.
LEMMA SameRests ==
    ASSUME NEW h, NEW g, SameList(g, h)
    PROVE  Rests(g, h)
  BY DEF Rests, SameList

\* Two steps that change nothing of the list leave it at rest.
LEMMA RestsOn ==
    ASSUME NEW h, NEW g, NEW k, SameList(g, h), SameList(k, g)
    PROVE  Rests(k, h)
  BY DEF Rests, SameList

\* What rests follows.
LEMMA RestFollows ==
    ASSUME NEW h, NEW g, NEW s, Rests(g, h)
    PROVE  Follows(g, h, s)
<1>1. \A r \in h.lists : h.lists # h.lists \ {r}
  OBVIOUS
<1>. QED  BY <1>1 DEF Rests, Follows

\* So does a step after one that changes nothing of it.
LEMMA FollowsOn ==
    ASSUME NEW h, NEW d, NEW g, NEW s, Follows(g, d, s),
           d.ver = h.ver, d.gone = h.gone, d.mode = h.mode,
           d.selected = h.selected, d.lists = h.lists
    PROVE  Follows(g, h, s)
  BY DEF Follows

\* And a step that makes a new request.
LEMMA AskingFollows ==
    ASSUME NEW h, NEW g, NEW s, g.ver = h.ver \/ g.mode # h.mode,
           NEW q \in g.lists, q \notin h.lists
    PROVE  Follows(g, h, s)
<1>1. \A r \in h.lists : g.lists # h.lists \ {r}
  OBVIOUS
<1>. QED  BY <1>1 DEF Follows

\* The answer that the present waits for is newer, and lists the chat selected if it
\* is there.
LEMMA ShowsFollow ==
    ASSUME NEW h \in Lists!World, NEW s \in Served, Lasts(h, s),
           NEW r \in h.lists, Present(h, r), r.kind # "page", r.at = "answered",
           NEW a, ShowsFrom(a, h, r),
           NEW g, SameList(g, a),
           g.selected = a.selected \/ a.selected = "none" \/ a.selected \notin a.listed
    PROVE  Follows(g, h, s)
<1>1. SUFFICES ASSUME "moves" \notin g.upset
               PROVE  Follows(g, h, s)
  BY DEF Follows
<1>2. "moves" \notin h.upset /\ g.ver = r.ver /\ a.selected = h.selected /\ a.listed = r.has
  BY <1>1 DEF ShowsFrom, SameList, SameTalk, Remembers
<1>3. Answers(h, s, r)
  BY <1>2 DEF Lasts, Stands, Listing
<1>4. g.ver # h.ver => g.ver > h.ver /\ g.ver >= h.gone
  <2>1. h.ver \in Nat /\ h.gone \in Nat /\ r.ver \in Nat
    BY HomeFields, ListFields
  <2>. QED  BY <1>2, <1>3, <2>1 DEF Answers
<1>5. ASSUME h.selected # "none", s.at[h.selected] = h.mode
      PROVE  g.selected = h.selected
  <2>1. ~Leaving(h, h.selected)
    <3>1. ASSUME NEW m \in h.moves, m.kind = "archive", m.chat = h.selected, m.ver # 0,
                 m.mode = h.mode
          PROVE  FALSE
      <4>1. s.at[h.selected] = Lists!Other(h.mode)
        BY <1>2, <3>1 DEF Lasts, Stands, Moves
      <4>. QED  BY <1>5, <4>1 DEF Lists!Other
    <3>. QED  BY <3>1 DEF Leaving
  <2>2. h.selected \in h.listed
    BY <1>2, <1>5, <2>1 DEF Lasts, Stands, Listing
  <2>3. h.selected \in r.has
    BY <1>3, <1>5, <2>2 DEF Answers
  <2>. QED  BY <1>2, <1>5, <2>3
<1>. QED  BY <1>4, <1>5 DEF Follows

\* The first load is over.
LEMMA InitialEnds ==
    ASSUME NEW h \in Lists!World, NEW v \in {"ready", "failed"}, NEW s,
           NEW g, g = Lists!InitialCompleted([h EXCEPT !.initial = v]), Asking(h), Timely(h),
           Awaiting(h), Catching(h), Stands(h, s)
    PROVE  /\ Connects(g, h) /\ g.selected = h.selected /\ Talks(g) /\ Stands(g, s)
           /\ Lasts(h, s) => Lasts(g, s)
<1>. DEFINE k == [h EXCEPT !.initial = v]
<1>1. k \in Lists!World
  BY ZenonT(60) DEF Lists!World
<1>2. /\ SameList(k, h) /\ k.initial = v /\ k.state = h.state /\ k.awaited = h.awaited
      /\ k.established = h.established /\ k.recoveryGen = h.recoveryGen
      /\ k.selected = h.selected /\ k.saved = h.saved /\ k.behind = h.behind
      /\ k.snapshot = h.snapshot /\ k.ask = h.ask /\ k.lastID = h.lastID /\ k.asks = h.asks
  BY DEF Lists!World, SameList
<1>3. g = Lists!InitialCompleted(k)
  OBVIOUS
<1>. HIDE DEF k
<1>4. Asking(k) /\ Awaiting(k)
  BY <1>2 DEF Asking, Awaiting
<1>5. Timely(k)
  BY <1>2, FetchingRests DEF Timely, Excused, SameList
<1>6. h.established => Catching(k)
  BY <1>2, FetchingRests DEF Timely, Catching, Excused, SameList
<1>7. /\ Connects(g, k) /\ g.recoveryGen = k.recoveryGen /\ g.selected = k.selected
      /\ Asking(g) /\ Timely(g) /\ Awaiting(g)
      /\ Catching(k) => Catching(g)
      /\ ~k.established => Catching(g)
  BY <1>1, <1>2, <1>3, <1>4, <1>5, InitialCompletedIs
<1>8. Talks(g)
  BY <1>2, <1>6, <1>7 DEF Talks
<1>9. Connects(g, h)
  BY <1>1, <1>2, <1>7, ConnectsOn DEF Connects, Lists!IsOpen
<1>10. Turns(g, h)
  BY <1>2, <1>7, <1>9 DEF Turns, Connects
<1>11. Stands(g, s) /\ (Lasts(h, s) => Lasts(g, s))
  BY <1>2, <1>7, <1>9, <1>10, TurnsKeeps, TurnsLoading DEF Lasts, Connects
<1>. QED  BY <1>2, <1>7, <1>8, <1>9, <1>11

\* A request that is dropped, and one that is repeated.
LEMMA Dropped ==
    ASSUME NEW h \in Lists!World, NEW s, NEW r \in h.lists, NEW g, g = Lists!Without(h, r),
           Talks(h), Lasts(h, s),
           r.kind = "page" \/ ~Present(h, r) \/ (h.established /\ ~Lists!IsOpen(h))
    PROVE  g \in Lists!World /\ Talks(g) /\ Lasts(g, s) /\ Rests(g, h)
<1>1. g \in Lists!World /\ SameTalk(g, h) /\ SameScreen(g, h) /\ g.lists = h.lists \ {r}
      /\ g.upset = h.upset
  BY WithoutIs
<1>2. Rests(g, h)
  BY <1>1 DEF Rests, SameTalk, SameScreen
<1>3. Stands(g, s) /\ Loading(g)
  BY <1>1, DropsKeeps, LoadingRests DEF Remembers, Lasts, SameTalk, Lists!IsOpen
<1>4. Asking(g) /\ Awaiting(g)
  BY <1>1, TalkLoses
<1>5. CASE r.kind = "page" \/ ~Present(h, r)
  <2>1. Lists!Fetching(g, {"recovery"}) <=> Lists!Fetching(h, {"recovery"})
    BY <1>1, <1>5 DEF Lists!Fetching, SameTalk, SameScreen, Present
  <2>. QED  BY <1>1, <1>3, <1>2, <2>1, TalkRests DEF Remembers, Lasts
<1>6. CASE ~Lists!IsOpen(h)
  <2>1. Timely(g) /\ Catching(g)
    BY <1>1, <1>6 DEF Timely, Catching, SameTalk, Lists!IsOpen
  <2>. QED  BY <1>1, <1>3, <1>4, <1>2, <2>1 DEF Talks, Lasts
<1>. QED  BY <1>5, <1>6

\* A request made again, at once or with a retry, keeps the invariant.
LEMMA Repeated ==
    ASSUME HomeBounds, NEW h \in Lists!World, NEW s \in Served, NEW r \in h.lists,
           r.kind # "page", Talks(h), Lasts(h, s), NEW g,
           \/ g = Lists!Requested(Lists!Without(h, r), r.kind, r.gen, r.left)
           \/ g = Lists!Later(Lists!Without(h, r), r) /\ r.left > 0
    PROVE  g \in Lists!World /\ Talks(g) /\ Lasts(g, s) /\ Rests(g, h)
<1>. DEFINE k == Lists!Without(h, r)
<1>1. /\ k \in Lists!World /\ SameTalk(k, h) /\ SameScreen(k, h) /\ k.lists = h.lists \ {r}
      /\ k.upset = h.upset
  BY WithoutIs
<1>. HIDE DEF k
<1>2. r \in Lists!List
  BY HomeFields
<1>3. ASSUME NEW q \in Lists!List, Adds(g, k, q),
             q.kind = r.kind, q.gen = r.gen, q.ver = 0, q.mode \in {k.mode, r.mode},
             q.at \in {"sent", "timer"}, q.at = "timer" => q.left < Retries
      PROVE  g \in Lists!World /\ Talks(g) /\ Lasts(g, s) /\ Rests(g, h)
  <2>1. SameTalk(g, h) /\ SameScreen(g, h) /\ g.upset = h.upset
    BY <1>1, <1>3 DEF SameTalk, SameScreen, Adds
  <2>2. Rests(g, h)
    BY <2>1 DEF Rests, SameTalk, SameScreen
  <2>3. q.mode \in {h.mode, r.mode} /\ g.lists = (h.lists \ {r}) \cup {q}
    BY <1>1, <1>3 DEF SameScreen, Adds
  <2>. QED  BY <1>3, <2>1, <2>3, <2>2, RepeatsKeeps DEF Adds
<1>4. CASE g = Lists!Requested(k, r.kind, r.gen, r.left)
  <2>. DEFINE q == Query(k, r.kind, r.gen, r.left)
  <2>1. /\ r.kind \in {"initial", "recovery", "refresh", "page"} /\ r.gen \in Nat
        /\ r.left \in 0 .. Retries
    BY <1>2, ListFields
  <2>2. Adds(g, k, q)
    BY <1>1, <1>4, <2>1, RequestedIs
  <2>3. /\ q \in Lists!List /\ q.kind = r.kind /\ q.gen = r.gen
        /\ q.mode = k.mode /\ q.at = "sent" /\ q.ver = 0
    BY <1>1, <2>1, QueryFields
  <2>. HIDE DEF q
  <2>4. /\ q.mode \in {k.mode, r.mode} /\ q.at \in {"sent", "timer"}
        /\ q.at = "timer" => q.left < Retries
    BY <2>3
  <2>. QED  BY <1>3, <2>2, <2>3, <2>4
<1>5. CASE g = Lists!Later(k, r) /\ r.left > 0
  <2>1. \E q \in Lists!List :
              /\ Adds(g, k, q) /\ q.kind = r.kind /\ q.gen = r.gen
              /\ q.left < Retries /\ q.mode = r.mode /\ q.at = "timer" /\ q.ver = 0
    BY <1>1, <1>2, <1>5, LaterIs
  <2>2. PICK q \in Lists!List :
              /\ Adds(g, k, q) /\ q.kind = r.kind /\ q.gen = r.gen
              /\ q.left < Retries /\ q.mode = r.mode /\ q.at = "timer" /\ q.ver = 0
    BY <2>1
  <2>3. /\ q.mode \in {k.mode, r.mode} /\ q.at \in {"sent", "timer"}
        /\ q.at = "timer" => q.left < Retries
    BY <2>2
  <2>. QED  BY <1>3, <2>2, <2>3
<1>. QED  BY <1>4, <1>5 DEF k

\* A request of the first load, of the archive or of the other mode is answered.
LEMMA InitialCameKeeps ==
    ASSUME HomeBounds, NEW h \in Lists!World, NEW s \in Served, NEW r \in h.lists,
           r.kind = "initial", r.at = "answered", Talks(h), Lasts(h, s),
           NEW g, g = Lists!InitialCame(Lists!Without(h, r), r)
    PROVE  g \in Lists!World /\ Talks(g) /\ Lasts(g, s) /\ Follows(g, h, s)
<1>. DEFINE k == Lists!Without(h, r)
            a == Lists!Shown(k, r)
            b == Lists!Restored(a)
<1>1. /\ k \in Lists!World /\ SameTalk(k, h) /\ SameScreen(k, h) /\ k.lists = h.lists \ {r}
      /\ k.upset = h.upset
  BY WithoutIs
<1>2. r \in Lists!List
  BY HomeFields
<1>3. CASE r.gen # k.refreshGen
  <2>1. g = k
    BY <1>3 DEF Lists!InitialCame
  <2>2. k.refreshGen = h.refreshGen
    BY <1>1 DEF SameScreen
  <2>3. ~Present(h, r)
    BY <1>3, <2>2 DEF Present
  <2>. QED  BY <2>1, <2>3, Dropped, RestFollows
<1>4. CASE r.gen = k.refreshGen /\ r.proj # k.proj
  <2>1. g = Lists!Requested(k, r.kind, r.gen, r.left)
    BY <1>4 DEF Lists!InitialCame
  <2>. QED  BY <2>1, Repeated, RestFollows
<1>5. CASE r.gen = k.refreshGen /\ r.proj = k.proj /\ r.has = {} /\ r.left > 0
  <2>1. g = Lists!Later(k, r)
    BY <1>5 DEF Lists!InitialCame
  <2>. QED  BY <1>5, <2>1, Repeated, RestFollows
<1>6. CASE r.gen = k.refreshGen /\ r.proj = k.proj /\ ~(r.has = {} /\ r.left > 0)
  <2>1. g = Lists!InitialCompleted([b EXCEPT !.initial = "ready"])
    BY <1>6 DEF Lists!InitialCame
  <2>2. /\ a \in Lists!World /\ SameTalk(a, k) /\ a.upset = k.upset /\ a.lists = k.lists
        /\ a.moves = k.moves /\ a.refreshGen = k.refreshGen /\ a.mode = k.mode
        /\ a.gone = k.gone /\ a.snapLoading = k.snapLoading
        /\ a.listed = r.has /\ a.ver = r.ver /\ a.from = r.mode /\ a.cursor = r.ver /\ a.tail = 0
        /\ ~a.isLoading
    BY <1>1, <1>2, ShownIs
  <2>. HIDE DEF k, a
  <2>3. ShowsFrom(a, h, r) /\ SameTalk(a, h)
    BY <1>1, <2>2 DEF ShowsFrom, SameScreen, SameTalk, Remembers
  <2>4. Present(h, r)
    BY <1>1, <1>6 DEF Present, SameScreen
  <2>5. Lasts(a, s)
    BY <2>3, <2>4, ShownKeeps
  <2>6. Lists!Fetching(a, {"recovery"}) <=> Lists!Fetching(h, {"recovery"})
    BY <1>1, <2>2, <2>3 DEF Lists!Fetching, SameTalk
  <2>7. Talks(a)
    BY <2>2, <2>3, <2>6, TalkRests DEF ShowsFrom
  <2>8. Connects(b, a) /\ b.recoveryGen = a.recoveryGen /\ Talks(b)
        /\ (b.selected = a.selected \/ b.selected \in a.listed)
        /\ (a.selected = "none" \/ b.selected = a.selected)
    BY <2>2, <2>7, RestoredIs DEF Talks
  <2>. HIDE DEF b
  <2>9. Lasts(b, s)
    BY <2>2, <2>5, <2>8, ConnectsKeeps
  <2>10. Connects(g, b) /\ g.selected = b.selected /\ Talks(g) /\ Lasts(g, s)
    BY <2>1, <2>8, <2>9, InitialEnds DEF Connects, Talks, Lasts
  <2>11. SameList(g, a) /\ (g.selected = a.selected \/ a.selected = "none")
    BY <2>8, <2>10 DEF Connects, SameList
  <2>12. Follows(g, h, s)
    BY <2>3, <2>4, <2>11, ShowsFollow
  <2>. QED  BY <2>10, <2>12 DEF Connects
<1>. QED  BY <1>3, <1>4, <1>5, <1>6

\* A list is asked for anew, and says that it loads.
Anew(h) == [Lists!WithoutPages(h) EXCEPT !.refreshGen = @ + 1, !.snapLoading = TRUE]

\* Asking anew leaves the list shown, and no page under way.
LEMMA AnewIs ==
    ASSUME NEW h \in Lists!World, NEW g, g = Anew(h)
    PROVE  /\ g \in Lists!World /\ SameTalk(g, h) /\ g.upset = h.upset
           /\ g.moves = h.moves /\ g.mode = h.mode /\ g.from = h.from
           /\ g.listed = h.listed /\ g.ver = h.ver /\ g.gone = h.gone
           /\ g.cursor = h.cursor /\ g.tail = h.tail
           /\ g.refreshGen = h.refreshGen + 1 /\ g.snapLoading
           /\ g.lists = {r \in h.lists : r.kind # "page"}
<1>. DEFINE k == Lists!WithoutPages(h)
<1>1. /\ k \in Lists!World /\ SameTalk(k, h) /\ SameScreen(k, h)
      /\ k.lists = {r \in h.lists : r.kind # "page"} /\ k.upset = h.upset
  BY WithoutPagesIs
<1>2. g = [k EXCEPT !.refreshGen = k.refreshGen + 1, !.snapLoading = TRUE]
  BY DEF Anew
<1>. HIDE DEF k
<1>3. k.refreshGen + 1 \in Nat
  BY <1>1, HomeFields
<1>4. g \in Lists!World
  BY ZenonT(60), <1>1, <1>2, <1>3, TRUE \in BOOLEAN DEF Lists!World
<1>5. /\ SameTalk(g, k) /\ g.upset = k.upset /\ g.moves = k.moves /\ g.mode = k.mode
      /\ g.from = k.from /\ g.listed = k.listed /\ g.ver = k.ver /\ g.gone = k.gone
      /\ g.cursor = k.cursor /\ g.tail = k.tail
      /\ g.refreshGen = k.refreshGen + 1 /\ g.snapLoading /\ g.lists = k.lists
  BY <1>1, <1>2 DEF Lists!World, SameTalk
<1>. QED  BY <1>1, <1>4, <1>5 DEF SameTalk, SameScreen

\* What was asked for is of the past when a list is asked for anew.
LEMMA AnewKeeps ==
    ASSUME HomeBounds, NEW h \in Lists!World, NEW s \in Served, Stands(h, s),
           NEW kind \in {"refresh", "recovery"},
           NEW gen, gen = (IF kind = "recovery" THEN h.recoveryGen ELSE h.refreshGen + 1),
           kind = "recovery" => h.established,
           "moves" \in h.upset \/ ~Lists!Fetching(h, {"recovery"}),
           NEW g, g = Lists!Requested(Anew(h), kind, gen, Retries)
    PROVE  /\ g \in Lists!World /\ SameTalk(g, h) /\ g.upset = h.upset /\ Lasts(g, s)
           /\ g.moves = h.moves /\ g.mode = h.mode /\ g.listed = h.listed /\ g.snapLoading
           /\ g.ver = h.ver /\ (kind = "refresh" => \E q \in g.lists : q \notin h.lists)
           /\ Lists!Fetching(g, {"recovery"}) <=>
                 Lists!Fetching(h, {"recovery"}) \/ kind = "recovery"
<1>. DEFINE k == Anew(h)
            q == Query(k, kind, gen, Retries)
<1>1. /\ k \in Lists!World /\ SameTalk(k, h) /\ k.upset = h.upset
      /\ k.moves = h.moves /\ k.mode = h.mode /\ k.from = h.from
      /\ k.listed = h.listed /\ k.ver = h.ver /\ k.gone = h.gone
      /\ k.cursor = h.cursor /\ k.tail = h.tail
      /\ k.refreshGen = h.refreshGen + 1 /\ k.snapLoading
      /\ k.lists = {r \in h.lists : r.kind # "page"}
  BY AnewIs
<1>. HIDE DEF k
<1>2. gen \in Nat /\ Retries \in 0 .. Retries /\ kind \in {"initial", "recovery", "refresh", "page"}
  BY HomeFields DEF HomeBounds
<1>3. g = Lists!Requested(k, kind, gen, Retries)
  BY DEF k
<1>4. Adds(g, k, q)
  BY <1>1, <1>2, <1>3, RequestedIs
<1>5. /\ q \in Lists!List /\ q.kind = kind /\ q.gen = gen
      /\ q.mode = k.mode /\ q.at = "sent" /\ q.ver = 0
  BY <1>1, <1>2, QueryFields
<1>. HIDE DEF q
<1>6. /\ g \in Lists!World /\ SameTalk(g, h) /\ g.upset = h.upset
      /\ g.moves = h.moves /\ g.mode = h.mode /\ g.from = h.from
      /\ g.listed = h.listed /\ g.ver = h.ver /\ g.gone = h.gone
      /\ g.cursor = h.cursor /\ g.tail = h.tail
      /\ g.refreshGen = h.refreshGen + 1 /\ g.snapLoading
      /\ g.lists = {r \in h.lists : r.kind # "page"} \cup {q}
  <2>1. SameTalk(g, h)
    BY <1>1, <1>4 DEF Adds, SameTalk
  <2>2. SameScreen(g, k) /\ g \in Lists!World /\ g.upset = k.upset /\ g.lists = k.lists \cup {q}
    BY <1>4 DEF Adds
  <2>. QED  BY <1>1, <2>1, <2>2 DEF SameScreen
<1>7. /\ q.mode = g.mode /\ q.at = "sent" /\ q.ver = 0 /\ q.kind # "page" /\ q.kind # "initial"
      /\ Present(g, q)
  BY <1>1, <1>5, <1>6 DEF Present, SameTalk
<1>8. g.established = h.established /\ g.recoveryGen = h.recoveryGen /\ g.selected = h.selected
  BY <1>6 DEF SameTalk
<1>9. g.from = g.mode
  BY <1>6 DEF Stands, Requested
<1>10. "moves" \in g.upset \/ \A r \in h.lists : r.kind = "recovery" => r.gen # g.recoveryGen
  BY <1>6, <1>8 DEF Lists!Fetching
<1>11. h.recoveryGen <= g.recoveryGen /\ (q.kind = "recovery" => g.established)
  BY <1>5, <1>8, HomeFields
<1>12. Lasts(g, s)
  BY <1>5, <1>6, <1>7, <1>8, <1>9, <1>10, <1>11, BeginsKeeps DEF Remembers
<1>13. Lists!Fetching(g, {"recovery"}) <=> Lists!Fetching(h, {"recovery"}) \/ kind = "recovery"
  BY <1>5, <1>6, <1>7, <1>8 DEF Lists!Fetching, Present
<1>14. ASSUME kind = "refresh"
       PROVE  q \in g.lists /\ q \notin h.lists
  <2>1. h.refreshGen \in Nat
    BY HomeFields
  <2>2. \A r \in h.lists : r.kind # "recovery" => r.gen <= h.refreshGen
    BY DEF Stands, Requested
  <2>. QED  BY <1>5, <1>6, <1>14, <2>1, <2>2
<1>. QED  BY <1>6, <1>12, <1>13, <1>14

\* The loading sign of the list goes off with the list that came.
LEMMA ShownQuietIs ==
    ASSUME NEW h \in Lists!World, NEW r \in Lists!List,
           NEW g, g = [Lists!Shown(h, r) EXCEPT !.snapLoading = FALSE]
    PROVE  /\ g \in Lists!World /\ SameTalk(g, h) /\ g.upset = h.upset /\ g.lists = h.lists
           /\ g.moves = h.moves /\ g.refreshGen = h.refreshGen /\ g.mode = h.mode
           /\ g.gone = h.gone /\ ~g.snapLoading
           /\ g.listed = r.has /\ g.ver = r.ver /\ g.from = r.mode /\ g.cursor = r.ver /\ g.tail = 0
           /\ ~g.isLoading
<1>. DEFINE k == Lists!Shown(h, r)
<1>1. /\ k \in Lists!World /\ SameTalk(k, h) /\ k.upset = h.upset /\ k.lists = h.lists
      /\ k.moves = h.moves /\ k.refreshGen = h.refreshGen /\ k.mode = h.mode
      /\ k.gone = h.gone
      /\ k.listed = r.has /\ k.ver = r.ver /\ k.from = r.mode /\ k.cursor = r.ver /\ k.tail = 0
      /\ ~k.isLoading
  BY ShownIs
<1>2. g = [k EXCEPT !.snapLoading = FALSE]
  OBVIOUS
<1>. HIDE DEF k
<1>3. g \in Lists!World
  BY ZenonT(60), <1>1, <1>2, FALSE \in BOOLEAN DEF Lists!World
<1>4. /\ SameTalk(g, k) /\ g.upset = k.upset /\ g.lists = k.lists
      /\ g.moves = k.moves /\ g.refreshGen = k.refreshGen /\ g.mode = k.mode
      /\ g.gone = k.gone /\ ~g.snapLoading
      /\ g.listed = k.listed /\ g.ver = k.ver /\ g.from = k.from /\ g.cursor = k.cursor
      /\ g.tail = k.tail /\ g.isLoading = k.isLoading
  BY <1>1, <1>2 DEF Lists!World, SameTalk
<1>. QED  BY <1>1, <1>3, <1>4 DEF SameTalk

\* A recovery is answered: it ends, or the chat selected is reconciled.
LEMMA RecoveryCameKeeps ==
    ASSUME HomeBounds, NEW h \in Lists!World, NEW s \in Served, NEW r \in h.lists,
           r.kind = "recovery", r.at = "answered", Talks(h), Lasts(h, s),
           NEW g, g = Lists!RecoveryCame(Lists!Without(h, r), r)
    PROVE  g \in Lists!World /\ Talks(g) /\ Lasts(g, s) /\ Follows(g, h, s)
<1>. DEFINE k == Lists!Without(h, r)
            a == [Lists!Shown(k, r) EXCEPT !.snapLoading = FALSE]
            b == Lists!Restored(a)
            c == Lists!Closed(b)
<1>1. g = Lists!RecoveryCame(k, r)
  OBVIOUS
<1>2. /\ k \in Lists!World /\ SameTalk(k, h) /\ SameScreen(k, h) /\ k.lists = h.lists \ {r}
      /\ k.upset = h.upset
  BY WithoutIs
<1>. HIDE DEF k
<1>3. r \in Lists!List
  BY HomeFields
<1>4. /\ Present(h, r) <=> r.gen = k.recoveryGen
      /\ Lists!IsOpen(h) <=> Lists!IsOpen(k)
      /\ k.recoveryGen = h.recoveryGen /\ k.established
  BY <1>2 DEF Present, SameTalk, Lists!IsOpen, Lasts, Stands, Requested
<1>5. CASE r.gen # k.recoveryGen \/ ~Lists!IsOpen(k)
  <2>1. g = k
    BY <1>1, <1>5 DEF Lists!RecoveryCame
  <2>2. ~Present(h, r) \/ (h.established /\ ~Lists!IsOpen(h))
    <3>1. h.established
      BY <1>2, <1>4 DEF SameTalk
    <3>. QED  BY <1>4, <1>5, <3>1
  <2>. QED  BY <2>1, <2>2, Dropped, RestFollows DEF k
<1>6. CASE r.gen = k.recoveryGen /\ Lists!IsOpen(k) /\ r.proj # k.proj
  <2>1. g = Lists!RefreshedForRecovery(k, r.gen, r.left)
    BY <1>1, <1>6 DEF Lists!RecoveryCame
  <2>2. CASE r.left # Retries
    <3>1. g = Lists!Requested(k, r.kind, r.gen, r.left)
      BY <2>1, <2>2 DEF Lists!RefreshedForRecovery
    <3>. QED  BY <3>1, Repeated, RestFollows DEF k
  <2>3. CASE r.left = Retries
    <3>1. g = Lists!Requested(Anew(k), "recovery", k.recoveryGen, Retries)
      BY <1>6, <2>1, <2>3 DEF Lists!RefreshedForRecovery, Anew
    <3>2. Stands(k, s)
      BY <1>2, DropsKeeps DEF Remembers, Lasts
    <3>3. "moves" \in k.upset \/ ~Lists!Fetching(k, {"recovery"})
      BY <1>2, <1>4, <1>6 DEF Lasts, Stands, Single, Lists!Fetching, Present
    <3>4. /\ g \in Lists!World /\ SameTalk(g, k) /\ g.upset = k.upset /\ Lasts(g, s)
          /\ Lists!Fetching(g, {"recovery"}) /\ g.ver = k.ver
      BY <1>2, <1>4, <3>1, <3>2, <3>3, AnewKeeps
    <3>5. SameTalk(g, h) /\ g.upset = h.upset
      BY <1>2, <3>4 DEF SameTalk
    <3>6. Lists!Fetching(h, {"recovery"})
      BY <1>4, <1>6 DEF Lists!Fetching
    <3>7. Talks(g)
      BY <3>4, <3>5, <3>6, TalkRests DEF Remembers
    <3>8. Follows(g, h, s)
      BY <1>2, <3>4, <3>5, RestFollows DEF Rests, SameTalk, SameScreen
    <3>. QED  BY <3>4, <3>7, <3>8
  <2>. QED  BY <2>2, <2>3
<1>7. CASE r.gen = k.recoveryGen /\ Lists!IsOpen(k) /\ r.proj = k.proj /\ r.has = {} /\ r.left > 0
  <2>1. g = Lists!Later(k, r)
    BY <1>1, <1>7 DEF Lists!RecoveryCame
  <2>. QED  BY <1>7, <2>1, Repeated, RestFollows DEF k
<1>8. CASE /\ r.gen = k.recoveryGen /\ Lists!IsOpen(k) /\ r.proj = k.proj
           /\ ~(r.has = {} /\ r.left > 0)
  <2>1. g = IF b.selected = "none" THEN Lists!Finish(b)
            ELSE IF b.selected \in b.listed THEN Lists!Reconcile(b, r.gen)
            ELSE Lists!Finish(c)
    BY <1>1, <1>8 DEF Lists!RecoveryCame
  <2>2. /\ a \in Lists!World /\ SameTalk(a, k) /\ a.upset = k.upset /\ a.lists = k.lists
        /\ a.moves = k.moves /\ a.refreshGen = k.refreshGen /\ a.mode = k.mode
        /\ a.gone = k.gone /\ ~a.snapLoading
        /\ a.listed = r.has /\ a.ver = r.ver /\ a.from = r.mode /\ a.cursor = r.ver /\ a.tail = 0
        /\ ~a.isLoading
    BY <1>2, <1>3, ShownQuietIs
  <2>. HIDE DEF a
  <2>3. ShowsFrom(a, h, r) /\ SameTalk(a, h)
    <3>1. SameTalk(a, h)
      BY <1>2, <2>2 DEF SameTalk
    <3>2. /\ k.moves = h.moves /\ k.refreshGen = h.refreshGen /\ k.mode = h.mode
          /\ k.gone = h.gone
      BY <1>2 DEF SameScreen
    <3>. QED  BY <1>2, <2>2, <3>1, <3>2 DEF ShowsFrom, Remembers
  <2>4. Present(h, r)
    BY <1>4, <1>8
  <2>5. Lasts(a, s)
    BY <2>3, <2>4, ShownKeeps
  <2>7. Asking(a) /\ Awaiting(a)
    BY <2>3, TalkLoses
  <2>8. /\ Connects(b, a) /\ b.recoveryGen = a.recoveryGen
        /\ Asking(b) /\ Timely(b) /\ Awaiting(b)
        /\ b.selected = a.selected \/ b.selected \in a.listed
        /\ b.selected = a.selected \/ a.selected = "none"
    BY <2>2, <2>7, RestoredIs
  <2>. HIDE DEF b
  <2>9. b \in Lists!World /\ Lasts(b, s)
    BY <2>2, <2>5, <2>8, ConnectsKeeps DEF Connects
  <2>10. r.gen = b.recoveryGen
    BY <1>4, <1>8, <2>3, <2>8 DEF SameTalk
  <2>11. ASSUME SameList(g, b), g.selected = b.selected \/ b.selected \notin b.listed
         PROVE  Follows(g, h, s)
    <3>1. SameList(g, a) /\ b.listed = a.listed
      BY <2>8, <2>11 DEF Connects, SameList
    <3>. QED  BY <2>3, <2>4, <2>8, <2>11, <3>1, ShowsFollow
  <2>12. CASE b.selected = "none"
    <3>1. g = Lists!Finish(b) /\ ~b.behind
      BY <2>1, <2>8, <2>12 DEF Asking
    <3>2. /\ Connects(g, b) /\ g.recoveryGen = b.recoveryGen /\ g.selected = b.selected
          /\ Talks(g)
      BY <2>8, <2>9, <3>1, FinishIs DEF Talks
    <3>. QED  BY <2>9, <2>11, <3>2, ConnectsKeeps DEF Connects
  <2>13. CASE b.selected # "none" /\ b.selected \in b.listed
    <3>1. g = Lists!Reconcile(b, b.recoveryGen)
      BY <2>1, <2>10, <2>13
    <3>2. /\ Connects(g, b) /\ g.recoveryGen = b.recoveryGen /\ g.selected = b.selected
          /\ Talks(g)
      BY <2>8, <2>9, <2>13, <3>1, ReconcileIs DEF Talks
    <3>. QED  BY <2>9, <2>11, <3>2, ConnectsKeeps DEF Connects
  <2>14. CASE b.selected # "none" /\ b.selected \notin b.listed
    <3>1. g = Lists!Finish(c)
      BY <2>1, <2>14
    <3>3. /\ Connects(c, b) /\ c.recoveryGen = b.recoveryGen + 1
          /\ c.selected = "none" /\ Talks(c)
      BY <2>8, <2>9, ClosedIs
    <3>. HIDE DEF c
    <3>4. ~Lists!Fetching(b, {"recovery"}) \/ "moves" \in b.upset
      <4>1. b.lists = h.lists \ {r} /\ b.upset = h.upset /\ b.recoveryGen = h.recoveryGen
        BY <1>2, <2>2, <2>3, <2>8 DEF Connects, SameList, SameTalk
      <4>. QED  BY <2>4, <4>1 DEF Lasts, Stands, Single, Lists!Fetching, Present
    <3>5. Lasts(c, s)
      BY <2>9, <3>3, <3>4, ConnectsKeeps
    <3>6. c \in Lists!World /\ ~c.behind
      BY <3>3 DEF Connects, Talks, Asking
    <3>7. /\ Connects(g, c) /\ g.recoveryGen = c.recoveryGen /\ g.selected = c.selected
          /\ Talks(g)
      BY <3>1, <3>3, <3>6, FinishIs DEF Talks
    <3>8. Lasts(g, s)
      BY <3>5, <3>6, <3>7, ConnectsKeeps
    <3>9. SameList(g, b)
      BY <3>3, <3>7 DEF Connects, SameList
    <3>10. Follows(g, h, s)
      BY <2>14, <2>11, <3>9
    <3>. QED  BY <3>7, <3>8, <3>10 DEF Connects
  <2>. QED  BY <2>12, <2>13, <2>14
<1>. QED  BY <1>5, <1>6, <1>7, <1>8

\* A refresh is answered: the chat selected is closed if it is not listed any more.
LEMMA RefreshCameKeeps ==
    ASSUME HomeBounds, NEW h \in Lists!World, NEW s \in Served, NEW r \in h.lists,
           r.kind = "refresh", r.at = "answered", Talks(h), Lasts(h, s),
           NEW g, g = Lists!RefreshCame(Lists!Without(h, r), r)
    PROVE  g \in Lists!World /\ Talks(g) /\ Lasts(g, s) /\ Follows(g, h, s)
<1>. DEFINE k == Lists!Without(h, r)
            a == [Lists!Shown(k, r) EXCEPT !.snapLoading = FALSE]
<1>1. g = Lists!RefreshCame(k, r)
  OBVIOUS
<1>2. /\ k \in Lists!World /\ SameTalk(k, h) /\ SameScreen(k, h) /\ k.lists = h.lists \ {r}
      /\ k.upset = h.upset
  BY WithoutIs
<1>. HIDE DEF k
<1>3. r \in Lists!List
  BY HomeFields
<1>4. Present(h, r) <=> r.gen = k.refreshGen
  BY <1>2 DEF Present, SameScreen
<1>5. CASE r.gen # k.refreshGen
  <2>1. g = k
    BY <1>1, <1>5 DEF Lists!RefreshCame
  <2>. QED  BY <1>4, <1>5, <2>1, Dropped, RestFollows DEF k
<1>6. CASE r.gen = k.refreshGen /\ r.proj # k.proj
  <2>1. g = Lists!Requested(k, r.kind, r.gen, r.left)
    BY <1>1, <1>6 DEF Lists!RefreshCame
  <2>. QED  BY <2>1, Repeated, RestFollows DEF k
<1>7. CASE r.gen = k.refreshGen /\ r.proj = k.proj
  <2>1. g = IF a.selected \in a.listed \cup {"none"} THEN a ELSE Lists!Closed(a)
    BY <1>1, <1>7 DEF Lists!RefreshCame
  <2>2. /\ a \in Lists!World /\ SameTalk(a, k) /\ a.upset = k.upset /\ a.lists = k.lists
        /\ a.moves = k.moves /\ a.refreshGen = k.refreshGen /\ a.mode = k.mode
        /\ a.gone = k.gone /\ ~a.snapLoading
        /\ a.listed = r.has /\ a.ver = r.ver /\ a.from = r.mode /\ a.cursor = r.ver /\ a.tail = 0
        /\ ~a.isLoading
    BY <1>2, <1>3, ShownQuietIs
  <2>. HIDE DEF a
  <2>3. ShowsFrom(a, h, r) /\ SameTalk(a, h)
    <3>1. SameTalk(a, h)
      BY <1>2, <2>2 DEF SameTalk
    <3>2. /\ k.moves = h.moves /\ k.refreshGen = h.refreshGen /\ k.mode = h.mode
          /\ k.gone = h.gone
      BY <1>2 DEF SameScreen
    <3>. QED  BY <1>2, <2>2, <3>1, <3>2 DEF ShowsFrom, Remembers
  <2>4. Lasts(a, s)
    BY <1>4, <1>7, <2>3, ShownKeeps
  <2>5. Lists!Fetching(a, {"recovery"}) <=> Lists!Fetching(h, {"recovery"})
    BY <2>3 DEF Lists!Fetching, SameTalk, ShowsFrom
  <2>6. Talks(a)
    BY <2>2, <2>3, <2>5, TalkRests DEF ShowsFrom
  <2>7. ASSUME SameList(g, a), g.selected = a.selected \/ a.selected \notin a.listed
        PROVE  Follows(g, h, s)
    BY <1>4, <1>7, <2>3, <2>7, ShowsFollow
  <2>8. ASSUME g = Lists!Closed(a), a.selected \notin a.listed
        PROVE  g \in Lists!World /\ Talks(g) /\ Lasts(g, s) /\ Follows(g, h, s)
    <3>2. /\ Connects(g, a) /\ g.recoveryGen = a.recoveryGen + 1
          /\ g.selected = "none" /\ Talks(g)
      BY <2>2, <2>6, <2>8, ClosedIs DEF Talks
    <3>3. ~Lists!Fetching(a, {"recovery"}) \/ "moves" \in a.upset
      <4>1. a.lists = h.lists \ {r} /\ a.upset = h.upset /\ a.recoveryGen = h.recoveryGen
        BY <1>2, <2>2, <2>3 DEF SameTalk
      <4>. QED  BY <1>4, <1>7, <4>1 DEF Lasts, Stands, Single, Lists!Fetching, Present
    <3>4. Lasts(g, s)
      BY <2>2, <2>4, <3>2, <3>3, ConnectsKeeps
    <3>. QED  BY <2>8, <2>7, <3>2, <3>4 DEF Connects
  <2>9. g = a => SameList(g, a)
    BY DEF SameList
  <2>. QED  BY <2>1, <2>2, <2>4, <2>6, <2>8, <2>7, <2>9
<1>. QED  BY <1>5, <1>6, <1>7

\* A page is answered: it is shown below the list, or it is lost.
LEMMA PageCameKeeps ==
    ASSUME NEW h \in Lists!World, NEW s \in Served, NEW r \in h.lists,
           r.kind = "page", r.at = "answered", Talks(h), Lasts(h, s),
           NEW g, g = Lists!PageCame(Lists!Without(h, r), r)
    PROVE  g \in Lists!World /\ Talks(g) /\ Lasts(g, s) /\ Follows(g, h, s)
<1>. DEFINE k == Lists!Without(h, r)
<1>1. g = Lists!PageCame(k, r)
  OBVIOUS
<1>2. /\ k \in Lists!World /\ SameTalk(k, h) /\ SameScreen(k, h) /\ k.lists = h.lists \ {r}
      /\ k.upset = h.upset
  BY WithoutIs
<1>3. k \in Lists!World /\ Talks(k) /\ Lasts(k, s) /\ Rests(k, h)
  BY Dropped
<1>. HIDE DEF k
<1>4. CASE r.gen # k.refreshGen \/ r.proj # k.proj
  <2>1. g = k
    BY <1>1, <1>4 DEF Lists!PageCame
  <2>. QED  BY <1>3, <2>1, RestFollows
<1>5. CASE r.gen = k.refreshGen /\ r.proj = k.proj
  <2>1. g = [k EXCEPT !.cursor = 0, !.tail = r.ver]
    BY <1>1, <1>5 DEF Lists!PageCame
  <2>2. r.ver \in Nat /\ 0 \in Nat
    BY HomeFields, ListFields
  <2>3. g \in Lists!World
    BY ZenonT(60), <1>3, <2>1, <2>2 DEF Lists!World
  <2>4. /\ SameTalk(g, k) /\ g.refreshGen = k.refreshGen /\ g.mode = k.mode /\ g.from = k.from
        /\ g.isLoading = k.isLoading /\ g.snapLoading = k.snapLoading
        /\ g.listed = k.listed /\ g.ver = k.ver /\ g.gone = k.gone
        /\ g.cursor = 0 /\ g.tail = r.ver /\ g.lists = k.lists
        /\ g.moves = k.moves /\ g.upset = k.upset
    BY <1>3, <2>1 DEF Lists!World, SameTalk
  <2>5. \A p : Present(g, p) <=> Present(k, p)
    BY <2>4 DEF Present, SameTalk
  <2>6. \A kinds : Lists!Fetching(g, kinds) <=> Lists!Fetching(k, kinds)
    BY <2>4 DEF Lists!Fetching, SameTalk
  <2>7. Talks(g)
    BY <1>3, <2>3, <2>4, <2>6, TalkRests DEF Remembers
  <2>8. Requested(g)
    BY <1>3, <2>4, <2>5 DEF Lasts, Stands, Requested, SameTalk
  <2>9. Single(g)
    <3>1. SUFFICES ASSUME "moves" \notin g.upset
                   PROVE  Single(g)
      BY DEF Single
    <3>2. Present(h, r) /\ r \in h.lists
      BY <1>2, <1>5 DEF Present, SameScreen
    <3>3. r.ver = h.ver /\ k.ver = h.ver
      BY <1>2, <2>4, <3>1, <3>2 DEF Lasts, Stands, Single, SameScreen
    <3>. QED  BY <1>3, <2>4, <2>5, <3>3 DEF Lasts, Stands, Single
  <2>10. Versions(g, s) /\ Moves(g, s)
    <3>1. s.ver \in Nat
      BY ServedFields
    <3>. QED  BY <1>3, <2>4, <3>1 DEF Lasts, Stands, Versions, Moves
  <2>11. Listing(g, s)
    <3>1. \A c : Leaving(k, c) <=> Leaving(g, c)
      BY <2>4 DEF Leaving
    <3>2. \A p : Answers(k, s, p) => Answers(g, s, p)
      BY <2>4, <3>1 DEF Answers
    <3>. QED  BY <1>3, <2>4, <2>5, <3>1, <3>2 DEF Lasts, Stands, Listing, SameTalk
  <2>12. Loading(g)
    BY <1>3, <2>4, <2>6 DEF Lasts, Loading, SameTalk, Lists!IsOpen
  <2>13. Follows(g, h, s)
    BY <1>2, <2>4, RestFollows DEF Rests, SameTalk, SameScreen
  <2>. QED  BY <2>3, <2>7, <2>8, <2>9, <2>10, <2>11, <2>12, <2>13 DEF Lasts, Stands
<1>. QED  BY <1>4, <1>5

\* A list came.
LEMMA CameKeeps ==
    ASSUME HomeBounds, NEW h \in Lists!World, NEW s \in Served, NEW r \in h.lists,
           r.at = "answered", Talks(h), Lasts(h, s),
           NEW g, g = Lists!Came(Lists!Without(h, r), r)
    PROVE  g \in Lists!World /\ Talks(g) /\ Lasts(g, s) /\ Follows(g, h, s)
<1>. DEFINE k == Lists!Without(h, r)
<1>1. CASE r.kind = "initial"
  <2>1. g = Lists!InitialCame(k, r)
    BY <1>1 DEF Lists!Came
  <2>. QED  BY <1>1, <2>1, InitialCameKeeps
<1>2. CASE r.kind = "recovery"
  <2>1. g = Lists!RecoveryCame(k, r)
    BY <1>2 DEF Lists!Came
  <2>. QED  BY <1>2, <2>1, RecoveryCameKeeps
<1>3. CASE r.kind = "refresh"
  <2>1. g = Lists!RefreshCame(k, r)
    BY <1>3 DEF Lists!Came
  <2>. QED  BY <1>3, <2>1, RefreshCameKeeps
<1>4. CASE r.kind = "page"
  <2>1. g = Lists!PageCame(k, r)
    BY <1>4 DEF Lists!Came
  <2>. QED  BY <1>4, <2>1, PageCameKeeps
<1>5. r.kind \in {"initial", "recovery", "refresh", "page"}
  BY HomeFields, ListFields
<1>. QED  BY <1>1, <1>2, <1>3, <1>4, <1>5

\* A list that failed shows an error, and what it loaded is not loading any more.
ErrsFrom(g, h, r) ==
    /\ g \in Lists!World /\ Remembers(g, h) /\ g.lists \subseteq h.lists \ {r}
    /\ g.moves = h.moves /\ g.refreshGen = h.refreshGen /\ g.mode = h.mode /\ g.gone = h.gone
    /\ g.listed = h.listed /\ g.ver = h.ver /\ g.from = h.from /\ g.cursor = h.cursor
    /\ g.tail = h.tail /\ g.recoveryGen = h.recoveryGen /\ g.selected = h.selected
    /\ h.established => g.established

\* A list that failed leaves what is shown and its other requests in order.
LEMMA ErrsKeeps ==
    ASSUME NEW h \in Lists!World, NEW s \in Served, Stands(h, s),
           NEW r \in h.lists, Present(h, r), r.kind # "page", NEW g, ErrsFrom(g, h, r)
    PROVE  Stands(g, s)
<1>1. \A p : Present(g, p) <=> Present(h, p)
  BY DEF Present, ErrsFrom
<1>2. "moves" \notin g.upset => \A p \in g.lists : ~Present(g, p)
  BY <1>1 DEF ErrsFrom, Remembers, Stands, Single
<1>3. Requested(g)
  BY <1>1 DEF Stands, Requested, ErrsFrom
<1>4. Single(g)
  BY <1>2 DEF Stands, Single, ErrsFrom, Remembers
<1>5. Versions(g, s) /\ Moves(g, s)
  BY DEF Stands, Versions, Moves, ErrsFrom, Remembers
<1>6. Listing(g, s)
  <2>1. \A c : Leaving(h, c) <=> Leaving(g, c)
    BY DEF Leaving, ErrsFrom
  <2>. QED  BY <1>2, <2>1 DEF Stands, Listing, ErrsFrom, Remembers
<1>. QED  BY <1>3, <1>4, <1>5, <1>6 DEF Stands

\* A refresh fails.
LEMMA RefreshFailedKeeps ==
    ASSUME HomeBounds, NEW h \in Lists!World, NEW s \in Served, NEW r \in h.lists,
           r.kind = "refresh", Talks(h), Lasts(h, s),
           NEW g, g = Lists!RefreshFailed(Lists!Without(h, r), r)
    PROVE  g \in Lists!World /\ Talks(g) /\ Lasts(g, s) /\ Rests(g, h)
<1>. DEFINE k == Lists!Without(h, r)
<1>1. g = Lists!RefreshFailed(k, r)
  OBVIOUS
<1>2. /\ k \in Lists!World /\ SameTalk(k, h) /\ SameScreen(k, h) /\ k.lists = h.lists \ {r}
      /\ k.upset = h.upset
  BY WithoutIs
<1>. HIDE DEF k
<1>3. Present(h, r) <=> r.gen = k.refreshGen
  BY <1>2 DEF Present, SameScreen
<1>4. CASE r.gen # k.refreshGen
  <2>1. g = k
    BY <1>1, <1>4 DEF Lists!RefreshFailed
  <2>. QED  BY <1>3, <1>4, <2>1, Dropped DEF k
<1>5. CASE r.gen = k.refreshGen /\ r.left > 0
  <2>1. g = Lists!Later(k, r)
    BY <1>1, <1>5 DEF Lists!RefreshFailed
  <2>. QED  BY <1>5, <2>1, Repeated DEF k
<1>6. CASE r.gen = k.refreshGen /\ ~(r.left > 0)
  <2>1. g = [k EXCEPT !.snapLoading = FALSE, !.isLoading = FALSE, !.error = TRUE]
    BY <1>1, <1>6 DEF Lists!RefreshFailed
  <2>2. g \in Lists!World
    BY ZenonT(60), <1>2, <2>1, TRUE \in BOOLEAN, FALSE \in BOOLEAN DEF Lists!World
  <2>3. /\ SameTalk(g, k) /\ g.refreshGen = k.refreshGen /\ g.mode = k.mode /\ g.from = k.from
        /\ ~g.isLoading /\ ~g.snapLoading
        /\ g.listed = k.listed /\ g.ver = k.ver /\ g.gone = k.gone
        /\ g.cursor = k.cursor /\ g.tail = k.tail /\ g.lists = k.lists
        /\ g.moves = k.moves /\ g.upset = k.upset
    BY <1>2, <2>1 DEF Lists!World, SameTalk
  <2>4. SameTalk(g, h) /\ Remembers(g, h)
    BY <1>2, <2>3 DEF SameTalk, Remembers
  <2>5. ErrsFrom(g, h, r)
    BY <1>2, <2>2, <2>3, <2>4 DEF ErrsFrom, SameTalk, SameScreen
  <2>6. Stands(g, s)
    BY <1>3, <1>6, <2>5, ErrsKeeps DEF Lasts
  <2>7. Loading(g)
    BY <2>3 DEF Loading
  <2>8. Lists!Fetching(g, {"recovery"}) <=> Lists!Fetching(h, {"recovery"})
    BY <1>2, <2>3, <2>4 DEF Lists!Fetching, SameTalk
  <2>9. Rests(g, h)
    BY <2>5 DEF Rests, ErrsFrom
  <2>. QED  BY <2>2, <2>4, <2>6, <2>7, <2>8, <2>9, TalkRests DEF Lasts
<1>. QED  BY <1>4, <1>5, <1>6

\* A request of the first load or of the other mode fails.
LEMMA InitialFailedKeeps ==
    ASSUME HomeBounds, NEW h \in Lists!World, NEW s \in Served, NEW r \in h.lists,
           r.kind = "initial", Talks(h), Lasts(h, s),
           NEW g, g = Lists!InitialFailed(Lists!Without(h, r), r)
    PROVE  g \in Lists!World /\ Talks(g) /\ Lasts(g, s) /\ Rests(g, h)
<1>. DEFINE k == Lists!Without(h, r)
            a == Lists!InitialCompleted([k EXCEPT !.initial = "failed"])
<1>1. g = Lists!InitialFailed(k, r)
  OBVIOUS
<1>2. /\ k \in Lists!World /\ SameTalk(k, h) /\ SameScreen(k, h) /\ k.lists = h.lists \ {r}
      /\ k.upset = h.upset
  BY WithoutIs
<1>. HIDE DEF k
<1>3. Present(h, r) <=> r.gen = k.refreshGen
  BY <1>2 DEF Present, SameScreen
<1>4. CASE r.gen # k.refreshGen
  <2>1. g = k
    BY <1>1, <1>4 DEF Lists!InitialFailed
  <2>. QED  BY <1>3, <1>4, <2>1, Dropped DEF k
<1>5. CASE r.gen = k.refreshGen /\ r.left > 0
  <2>1. g = Lists!Later(k, r)
    BY <1>1, <1>5 DEF Lists!InitialFailed
  <2>. QED  BY <1>5, <2>1, Repeated DEF k
<1>6. CASE r.gen = k.refreshGen /\ ~(r.left > 0)
  <2>1. g = [a EXCEPT !.isLoading = FALSE, !.error = TRUE]
    BY <1>1, <1>6 DEF Lists!InitialFailed
  <2>2. Stands(k, s)
    BY <1>2, DropsKeeps DEF Remembers, Lasts
  <2>3. Lists!Fetching(k, {"recovery"}) <=> Lists!Fetching(h, {"recovery"})
    BY <1>2 DEF Lists!Fetching, SameTalk
  <2>4. Talks(k)
    BY <1>2, <2>3, TalkRests DEF Remembers
  <2>5. Connects(a, k) /\ a.selected = k.selected /\ Talks(a) /\ Stands(a, s)
    <3>1. Asking(k) /\ Timely(k) /\ Awaiting(k) /\ Catching(k)
      BY <2>4 DEF Talks
    <3>2. k \in Lists!World
      BY <1>2
    <3>3. PICK v \in {"ready", "failed"} : v = "failed"
      OBVIOUS
    <3>4. a = Lists!InitialCompleted([k EXCEPT !.initial = v])
      BY <3>3
    <3>. HIDE DEF a
    <3>. QED  BY ONLY <2>2, <3>1, <3>2, <3>4, InitialEnds
  <2>. HIDE DEF a
  <2>6. a \in Lists!World
    BY <2>5 DEF Connects
  <2>7. g \in Lists!World
    BY ZenonT(60), <2>1, <2>6, TRUE \in BOOLEAN, FALSE \in BOOLEAN DEF Lists!World
  <2>8. /\ SameTalk(g, a) /\ g.refreshGen = a.refreshGen /\ g.mode = a.mode /\ g.from = a.from
        /\ ~g.isLoading /\ g.snapLoading = a.snapLoading
        /\ g.listed = a.listed /\ g.ver = a.ver /\ g.gone = a.gone
        /\ g.cursor = a.cursor /\ g.tail = a.tail /\ g.lists = a.lists
        /\ g.moves = a.moves /\ g.upset = a.upset
    BY <2>1, <2>6 DEF Lists!World, SameTalk
  <2>9. \A p : Present(g, p) <=> Present(a, p)
    BY <2>8 DEF Present, SameTalk
  <2>10. Lists!Fetching(g, {"recovery"}) <=> Lists!Fetching(a, {"recovery"})
    BY <2>8 DEF Lists!Fetching, SameTalk
  <2>11. Talks(g)
    BY <2>5, <2>6, <2>7, <2>8, <2>10, TalkRests DEF Remembers
  <2>12. Stands(g, s)
    <3>1. Requested(g) /\ Single(g)
      BY <2>5, <2>8, <2>9 DEF Stands, Requested, Single, SameTalk
    <3>2. Versions(g, s) /\ Moves(g, s)
      BY <2>5, <2>8 DEF Stands, Versions, Moves
    <3>3. Listing(g, s)
      <4>1. \A c : Leaving(a, c) <=> Leaving(g, c)
        BY <2>8 DEF Leaving
      <4>2. \A p : Answers(a, s, p) => Answers(g, s, p)
        BY <2>8, <4>1 DEF Answers
      <4>. QED  BY <2>5, <2>8, <2>9, <4>1, <4>2 DEF Stands, Listing, SameTalk
    <3>. QED  BY <3>1, <3>2, <3>3 DEF Stands
  <2>13. Loading(g)
    <3>1. SUFFICES ASSUME "moves" \notin h.upset, "errors" \notin h.upset, g.snapLoading
                   PROVE  g.established /\ ~Lists!IsOpen(g)
      BY <1>2, <2>5, <2>8 DEF Loading, Connects, SameList
    <3>2. h.snapLoading
      BY <1>2, <2>5, <2>8, <3>1 DEF Connects, SameList, SameScreen
    <3>3. ~Lists!Fetching(h, {"refresh", "recovery"})
      BY <1>3, <1>6, <3>1 DEF Lists!Fetching, Lasts, Stands, Single, Present
    <3>4. h.established /\ ~Lists!IsOpen(h)
      BY <3>1, <3>2, <3>3 DEF Lasts, Loading
    <3>. QED  BY <1>2, <2>5, <2>8, <3>4 DEF Connects, SameTalk, Lists!IsOpen
  <2>14. Rests(g, h)
    BY <1>2, <2>5, <2>8 DEF Rests, Connects, SameList, SameTalk, SameScreen
  <2>. QED  BY <2>7, <2>11, <2>12, <2>13, <2>14 DEF Lasts
<1>. QED  BY <1>4, <1>5, <1>6

\* The loading sign of the list goes on or off.
LEMMA LoadsIs ==
    ASSUME NEW h \in Lists!World, NEW on \in BOOLEAN, NEW g, g = [h EXCEPT !.snapLoading = on]
    PROVE  /\ g \in Lists!World
           /\ SameTalk(g, h) /\ g.refreshGen = h.refreshGen /\ g.mode = h.mode /\ g.from = h.from
           /\ g.listed = h.listed /\ g.ver = h.ver /\ g.gone = h.gone
           /\ g.cursor = h.cursor /\ g.tail = h.tail /\ g.lists = h.lists
           /\ g.moves = h.moves /\ g.upset = h.upset /\ g.snapLoading = on
           /\ g.isLoading = h.isLoading
<1>1. g \in Lists!World
  BY ZenonT(60) DEF Lists!World
<1>. QED  BY <1>1 DEF Lists!World, SameTalk

\* A recovery fails, and the connection with it while it recovers.
LEMMA RecoveryFailedKeeps ==
    ASSUME NEW h \in Lists!World, NEW s \in Served, NEW r \in h.lists,
           r.kind = "recovery", Talks(h), Lasts(h, s),
           NEW k, k = Lists!Noted(Lists!Without(h, r), "errors", h.state # "recovering"),
           NEW g, g = Lists!RecoveryFailed(k, r)
    PROVE  g \in Lists!World /\ Talks(g) /\ Lasts(g, s) /\ Rests(g, h)
<1>1. /\ k \in Lists!World /\ SameTalk(k, h) /\ SameScreen(k, h) /\ k.lists = h.lists \ {r}
      /\ k.upset = h.upset \cup (IF h.state # "recovering" THEN {"errors"} ELSE {})
  <2>. DEFINE d == Lists!Without(h, r)
  <2>1. /\ d \in Lists!World /\ SameTalk(d, h) /\ SameScreen(d, h) /\ d.lists = h.lists \ {r}
        /\ d.upset = h.upset
    BY WithoutIs
  <2>. HIDE DEF d
  <2>. DEFINE late == h.state # "recovering"
  <2>2. k = Lists!Noted(d, "errors", late)
    BY DEF d
  <2>3. late \in BOOLEAN /\ "errors" \in Lists!Notes
    BY DEF Lists!Notes
  <2>. HIDE DEF late
  <2>4. /\ k \in Lists!World /\ SameTalk(k, d) /\ SameScreen(k, d) /\ k.lists = d.lists
        /\ k.upset = d.upset \cup (IF late THEN {"errors"} ELSE {})
    BY <2>1, <2>2, <2>3, NotedIs
  <2>5. SameTalk(k, h)
    BY <2>1, <2>4 DEF SameTalk
  <2>6. SameScreen(k, h)
    BY <2>1, <2>4 DEF SameScreen
  <2>. QED  BY <2>1, <2>4, <2>5, <2>6 DEF late
<1>2. /\ Present(h, r) <=> r.gen = k.recoveryGen
      /\ Remembers(k, h) /\ h.established /\ k.established
      /\ k.state = h.state
  BY <1>1 DEF Present, SameTalk, Remembers, Lasts, Stands, Requested
<1>3. Asking(k) /\ Awaiting(k)
  BY <1>1, TalkLoses
<1>4. CASE r.gen # k.recoveryGen
  <2>1. g = k
    BY <1>4 DEF Lists!RecoveryFailed
  <2>2. Lists!Fetching(k, {"recovery"}) <=> Lists!Fetching(h, {"recovery"})
    BY <1>1, <1>2, <1>4 DEF Lists!Fetching, SameTalk, Present
  <2>3. Talks(k)
    BY <1>1, <1>2, <2>2, TalkRests
  <2>4. Stands(k, s)
    BY <1>1, <1>2, DropsKeeps DEF Lasts
  <2>5. Loading(k)
    BY <1>1, <1>2, <1>4, LoadingRests DEF Lasts
  <2>6. Rests(g, h)
    BY <1>1, <2>1 DEF Rests, SameTalk, SameScreen
  <2>. QED  BY <1>1, <2>1, <2>3, <2>4, <2>5, <2>6 DEF Lasts
<1>5. CASE r.gen = k.recoveryGen
  <2>. DEFINE on == k.snapLoading /\ r.left # 0
              a == [k EXCEPT !.snapLoading = on]
  <2>1. g = IF k.state = "recovering" THEN Lists!FailRecovery(a) ELSE a
    BY <1>5 DEF Lists!RecoveryFailed
  <2>2. on \in BOOLEAN
    OBVIOUS
  <2>. HIDE DEF on
  <2>3. a \in Lists!World
    BY <1>1, <2>2, LoadsIs
  <2>4. /\ SameTalk(a, k) /\ a.refreshGen = k.refreshGen /\ a.mode = k.mode /\ a.from = k.from
        /\ a.listed = k.listed /\ a.ver = k.ver /\ a.gone = k.gone
        /\ a.cursor = k.cursor /\ a.tail = k.tail /\ a.lists = k.lists
        /\ a.moves = k.moves /\ a.upset = k.upset
    BY <1>1, <2>2, LoadsIs
  <2>. HIDE DEF a
  <2>5. Asking(a) /\ Awaiting(a)
    BY <1>3, <2>4 DEF Asking, Awaiting, SameTalk
  <2>6. CASE k.state = "recovering"
    <3>1. /\ g \in Lists!World /\ SameList(g, a) /\ g.established = a.established
          /\ g.state = "failed" /\ g.recoveryGen = a.recoveryGen /\ g.selected = a.selected
          /\ Talks(g)
      BY <2>1, <2>3, <2>5, <2>6, FailIs
    <3>2. ErrsFrom(g, h, r)
      <4>1. /\ g.lists = h.lists \ {r} /\ Remembers(g, h) /\ g.established
            /\ g.recoveryGen = h.recoveryGen /\ g.selected = h.selected
        <5>1. SameTalk(k, h) /\ k.lists = h.lists \ {r}
          BY <1>1
        <5>2. Remembers(g, h)
          BY <1>2, <2>4, <3>1 DEF SameList, Remembers
        <5>3. g.lists = a.lists
          BY <3>1 DEF SameList
        <5>4. a.established = h.established /\ a.recoveryGen = h.recoveryGen
              /\ a.selected = h.selected
          BY <2>4, <5>1 DEF SameTalk
        <5>. QED  BY <1>2, <2>4, <3>1, <5>1, <5>2, <5>3, <5>4
      <4>2. /\ g.moves = h.moves /\ g.refreshGen = h.refreshGen /\ g.mode = h.mode
            /\ g.gone = h.gone /\ g.listed = h.listed /\ g.ver = h.ver /\ g.from = h.from
            /\ g.cursor = h.cursor /\ g.tail = h.tail
        BY <1>1, <2>4, <3>1 DEF SameList, SameScreen
      <4>. QED  BY <3>1, <4>1, <4>2 DEF ErrsFrom
    <3>3. Stands(g, s)
      BY <1>2, <1>5, <3>2, ErrsKeeps DEF Lasts
    <3>4. Loading(g)
      BY <1>2, <2>4, <3>1 DEF Loading, Lists!IsOpen, SameTalk
    <3>. QED  BY <3>1, <3>2, <3>3, <3>4 DEF Lasts, ErrsFrom, Rests
  <2>7. CASE k.state # "recovering"
    <3>1. g = a
      BY <2>1, <2>7
    <3>2. ErrsFrom(a, h, r)
      BY <1>1, <1>2, <2>3, <2>4 DEF ErrsFrom, SameTalk, SameScreen, Remembers
    <3>3. Stands(a, s)
      BY <1>2, <1>5, <3>2, ErrsKeeps DEF Lasts
    <3>4. Loading(a)
      BY <1>1, <1>2, <2>4, <2>7 DEF Loading
    <3>5. Timely(a) /\ Catching(a)
      BY <1>1, <1>2, <2>4, <2>7 DEF Timely, Catching, Excused
    <3>6. Rests(a, h)
      BY <3>2 DEF Rests, ErrsFrom
    <3>. QED  BY <2>3, <2>5, <3>1, <3>3, <3>4, <3>5, <3>6 DEF Lasts, Talks
  <2>. QED  BY <2>6, <2>7
<1>. QED  BY <1>4, <1>5

\* A list failed.
LEMMA FailedKeeps ==
    ASSUME HomeBounds, NEW h \in Lists!World, NEW s \in Served, NEW r \in h.lists,
           Talks(h), Lasts(h, s),
           NEW g, g = Lists!Failed(Lists!Noted(Lists!Without(h, r), "errors",
                                               r.kind = "recovery" /\ h.state # "recovering"), r)
    PROVE  g \in Lists!World /\ Talks(g) /\ Lasts(g, s) /\ Rests(g, h)
<1>. DEFINE d == Lists!Without(h, r)
            k == Lists!Noted(d, "errors", r.kind = "recovery" /\ h.state # "recovering")
<1>1. g = Lists!Failed(k, r)
  OBVIOUS
<1>2. r.kind # "recovery" => k = d
  BY DEF Lists!Noted
<1>3. CASE r.kind = "initial"
  <2>1. g = Lists!InitialFailed(d, r)
    BY <1>1, <1>2, <1>3 DEF Lists!Failed
  <2>. QED  BY <1>3, <2>1, InitialFailedKeeps
<1>4. CASE r.kind = "refresh"
  <2>1. g = Lists!RefreshFailed(d, r)
    BY <1>1, <1>2, <1>4 DEF Lists!Failed
  <2>. QED  BY <1>4, <2>1, RefreshFailedKeeps
<1>5. CASE r.kind = "page"
  <2>1. g = d
    BY <1>1, <1>2, <1>5 DEF Lists!Failed
  <2>. QED  BY <1>5, <2>1, Dropped
<1>6. CASE r.kind = "recovery"
  <2>1. k = Lists!Noted(d, "errors", h.state # "recovering")
    BY <1>6 DEF Lists!Noted
  <2>2. g = Lists!RecoveryFailed(k, r)
    BY <1>1, <1>6 DEF Lists!Failed
  <2>. QED  BY <1>6, <2>1, <2>2, RecoveryFailedKeeps
<1>7. r.kind \in {"initial", "recovery", "refresh", "page"}
  BY HomeFields, ListFields
<1>. QED  BY <1>3, <1>4, <1>5, <1>6, <1>7

\* The timer of a retry fires.
LEMMA FiresKeeps ==
    ASSUME HomeBounds, NEW h \in Lists!World, NEW s \in Served, NEW r \in h.lists,
           r.at = "timer", Talks(h), Lasts(h, s),
           NEW g, g = IF r.kind = "recovery"
                        THEN Lists!RefreshedForRecovery(Lists!Without(h, r), r.gen, r.left)
                        ELSE Lists!Requested(Lists!Without(h, r), r.kind, r.gen, r.left)
    PROVE  g \in Lists!World /\ Talks(g) /\ Lasts(g, s) /\ Rests(g, h)
<1>. DEFINE k == Lists!Without(h, r)
<1>. HIDE DEF k
<1>1. r.left < Retries /\ r.kind # "page"
  BY DEF Lasts, Stands, Requested
<1>2. r.left # Retries
  BY <1>1, HomeFields, ListFields DEF HomeBounds
<1>3. g = IF r.kind = "recovery" THEN Lists!RefreshedForRecovery(k, r.gen, r.left)
                                 ELSE Lists!Requested(k, r.kind, r.gen, r.left)
  BY DEF k
<1>4. g = Lists!Requested(k, r.kind, r.gen, r.left)
  BY <1>2, <1>3 DEF Lists!RefreshedForRecovery
<1>. QED  BY <1>1, <1>4, Repeated DEF k

\* The server gives a list.
Answer(r, has, ver) == [r EXCEPT !.at = "answered", !.has = has, !.ver = ver]

\* An answer is of the request it was given to.
LEMMA AnswerIs ==
    ASSUME NEW r \in Lists!List, NEW has \in SUBSET Chats, NEW ver \in Nat,
           NEW q, q = Answer(r, has, ver)
    PROVE  /\ q \in Lists!List /\ q.kind = r.kind /\ q.gen = r.gen /\ q.mode = r.mode
           /\ q.at = "answered" /\ q.ver = ver /\ q.has = has
  BY DEF Answer, Lists!List

\* The answer of the server keeps the invariant.
LEMMA ListsKeeps ==
    ASSUME NEW h \in Lists!World, NEW s \in Served, NEW r \in h.lists,
           r.at = "sent", Talks(h), Lasts(h, s),
           NEW q \in Lists!List, Gives(s, r, q),
           NEW k, k = Lists!Without(h, r),
           NEW g, g = [k EXCEPT !.lists = k.lists \cup {q}]
    PROVE  g \in Lists!World /\ Talks(g) /\ Lasts(g, s) /\ Rests(g, h)
<1>1. /\ k \in Lists!World /\ SameTalk(k, h) /\ SameScreen(k, h) /\ k.lists = h.lists \ {r}
      /\ k.upset = h.upset
  BY WithoutIs
<1>2. Adds(g, k, q)
  BY <1>1, AddsIs
<1>3. SameTalk(g, h)
  BY <1>1, <1>2 DEF SameTalk, Adds
<1>4. SameScreen(g, h)
  BY <1>1, <1>2 DEF SameScreen, Adds
<1>5. g.lists = (h.lists \ {r}) \cup {q} /\ g.upset = h.upset
  BY <1>1, <1>2 DEF Adds
<1>6. g \in Lists!World
  BY <1>2 DEF Adds
<1>7. Rests(g, h)
  BY <1>3, <1>4 DEF Rests, SameTalk, SameScreen
<1>. QED  BY <1>6, <1>3, <1>4, <1>5, <1>7, AnswersKeeps

-----------------------------------------------------------------------------
(* The connection.                                                          *)

\* A note changes nothing else.
LEMMA NotedKeeps ==
    ASSUME NEW h \in Lists!World, NEW s, Talks(h), Lasts(h, s),
           NEW what \in Lists!Notes, NEW overtakes \in BOOLEAN,
           NEW g, g = Lists!Noted(h, what, overtakes)
    PROVE  /\ g \in Lists!World /\ SameTalk(g, h) /\ SameScreen(g, h) /\ g.lists = h.lists
           /\ g.upset = h.upset \cup (IF overtakes THEN {what} ELSE {})
           /\ Talks(g) /\ Lasts(g, s)
<1>1. /\ g \in Lists!World /\ SameTalk(g, h) /\ SameScreen(g, h) /\ g.lists = h.lists
      /\ g.upset = h.upset \cup (IF overtakes THEN {what} ELSE {})
  BY NotedIs
<1>2. Remembers(g, h)
  BY <1>1 DEF Remembers
<1>3. Lists!Fetching(g, {"recovery"}) <=> Lists!Fetching(h, {"recovery"})
  BY <1>1 DEF Lists!Fetching, SameTalk
<1>4. Talks(g)
  BY <1>1, <1>2, <1>3, TalkRests
<1>5. Stands(g, s)
  BY <1>1, <1>2, DropsKeeps DEF Lasts
<1>6. Loading(g)
  BY <1>1, <1>2, LoadingRests DEF Lasts
<1>. QED  BY <1>1, <1>4, <1>5, <1>6 DEF Lasts

\* Connecting again keeps the invariant.
LEMMA ConnectKeeps ==
    ASSUME NEW h \in Lists!World, NEW s, Talks(h), Lasts(h, s), ~Lists!IsOpen(h),
           NEW g, g = [h EXCEPT !.state = "connecting"]
    PROVE  g \in Lists!World /\ Talks(g) /\ Lasts(g, s) /\ Rests(g, h)
<1>1. g \in Lists!World
  BY ZenonT(60) DEF Lists!World
<1>2. /\ SameList(g, h) /\ g.initial = h.initial /\ g.state = "connecting"
      /\ g.established = h.established /\ g.recoveryGen = h.recoveryGen
      /\ g.selected = h.selected /\ g.saved = h.saved /\ g.behind = h.behind
      /\ g.ask = h.ask /\ g.lastID = h.lastID /\ g.asks = h.asks
  BY DEF Lists!World, SameList
<1>3. Connects(g, h)
  BY <1>1, <1>2 DEF Connects, Lists!IsOpen
<1>4. Talks(g)
  BY <1>2 DEF Talks, Asking, Awaiting, Timely, Catching, SameList
<1>. QED  BY <1>1, <1>2, <1>3, <1>4, ConnectsKeeps, SameRests

\* So does a drop, with all that was asked over the connection.
LEMMA DropKeeps ==
    ASSUME NEW h \in Lists!World, NEW s, Talks(h), Lasts(h, s),
           NEW k, k = Lists!FailRecovery(h), NEW g, g = [k EXCEPT !.asks = {}]
    PROVE  g \in Lists!World /\ Talks(g) /\ Lasts(g, s) /\ Rests(g, h)
<1>1. /\ k \in Lists!World /\ SameList(k, h) /\ k.initial = h.initial
      /\ k.established = h.established /\ k.state = "failed"
      /\ k.recoveryGen = h.recoveryGen /\ k.selected = h.selected /\ k.saved = h.saved
      /\ k.behind = h.behind /\ k.ask = h.ask /\ k.lastID = h.lastID
      /\ Talks(k)
  BY FailIs DEF Talks
<1>2. {} \in SUBSET Lists!Ask
  OBVIOUS
<1>3. Connects(g, k) /\ g.recoveryGen = k.recoveryGen /\ g.selected = k.selected /\ Talks(g)
  <2>1. g \in Lists!World
    BY ZenonT(60), <1>1, <1>2 DEF Lists!World
  <2>2. /\ SameList(g, k) /\ g.initial = k.initial /\ g.state = "failed"
        /\ g.established = k.established /\ g.recoveryGen = k.recoveryGen
        /\ g.selected = k.selected /\ g.saved = k.saved /\ g.behind = k.behind
        /\ g.ask = k.ask /\ g.lastID = k.lastID /\ g.asks = {}
    BY <1>1 DEF Lists!World, SameList
  <2>3. Connects(g, k)
    BY <1>1, <2>1, <2>2 DEF Connects, Lists!IsOpen
  <2>4. Talks(g)
    BY <1>1, <2>2 DEF Talks, Asking, Awaiting, Timely, Catching, SameList
  <2>. QED  BY <2>2, <2>3, <2>4
<1>4. Connects(k, h)
  BY <1>1 DEF Connects, Lists!IsOpen
<1>5. Connects(g, h)
  BY <1>3, <1>4, ConnectsOn
<1>6. Lasts(g, s)
  BY <1>1, <1>3, <1>5, ConnectsKeeps
<1>. QED  BY <1>3, <1>5, <1>6, SameRests DEF Connects

\* A recovery of its own generation.
LEMMA RecoversIs ==
    ASSUME NEW h \in Lists!World, NEW n \in Nat, NEW g, g = [h EXCEPT !.recoveryGen = n]
    PROVE  /\ g \in Lists!World /\ SameList(g, h) /\ g.initial = h.initial
           /\ g.state = h.state /\ g.awaited = h.awaited
           /\ g.established = h.established /\ g.recoveryGen = n /\ g.snapshot = h.snapshot
           /\ g.selected = h.selected /\ g.saved = h.saved /\ g.behind = h.behind
           /\ g.ask = h.ask /\ g.lastID = h.lastID /\ g.asks = h.asks
<1>1. g \in Lists!World
  BY ZenonT(60) DEF Lists!World
<1>. QED  BY <1>1 DEF Lists!World, SameList

\* A recovery begins as the connection opens.
LEMMA RecoversKeeps ==
    ASSUME HomeBounds, NEW x \in Lists!World, NEW s \in Served, Asking(x), Stands(x, s),
           x.state = "recovering", x.awaited = 0, ~x.snapshot, x.established,
           NEW y \in Lists!World, SameList(y, x), y.initial = x.initial,
           y.state = x.state, y.awaited = x.awaited, y.established = x.established,
           y.recoveryGen = x.recoveryGen + 1, y.snapshot = x.snapshot,
           y.selected = x.selected, y.saved = x.saved, y.behind = x.behind,
           y.ask = x.ask, y.lastID = x.lastID, y.asks = x.asks,
           NEW g, g = Lists!RefreshedForRecovery(y, y.recoveryGen, Retries)
    PROVE  g \in Lists!World /\ Talks(g) /\ Lasts(g, s) /\ Rests(g, x)
<1>1. Turns(y, x)
  BY DEF Turns
<1>2. Stands(y, s)
  BY <1>1, TurnsKeeps
<1>3. ~Lists!Fetching(y, {"recovery"})
  <2>1. \A r \in x.lists : r.gen \in Nat /\ x.recoveryGen \in Nat
    BY HomeFields, ListFields
  <2>2. \A r \in x.lists : r.kind = "recovery" => r.gen <= x.recoveryGen
    BY DEF Stands, Requested
  <2>. QED  BY <2>1, <2>2 DEF Lists!Fetching, SameList
<1>4. g = Lists!Requested(Anew(y), "recovery", y.recoveryGen, Retries)
  BY DEF Lists!RefreshedForRecovery, Anew
<1>5. /\ g \in Lists!World /\ SameTalk(g, y) /\ g.upset = y.upset /\ Lasts(g, s)
      /\ Lists!Fetching(g, {"recovery"}) /\ g.ver = y.ver
  <2>1. /\ y.established /\ "recovery" \in {"refresh", "recovery"}
        /\ y.recoveryGen = (IF "recovery" = "recovery" THEN y.recoveryGen ELSE y.refreshGen + 1)
    OBVIOUS
  <2>. QED  BY ONLY HomeBounds, y \in Lists!World, s \in Served, <1>2, <1>3, <1>4, <2>1, AnewKeeps
<1>6. /\ g.initial = y.initial /\ g.state = y.state /\ g.awaited = y.awaited
      /\ g.established = y.established /\ g.snapshot = y.snapshot
      /\ g.selected = y.selected /\ g.saved = y.saved /\ g.behind = y.behind
      /\ g.ask = y.ask /\ g.lastID = y.lastID /\ g.asks = y.asks
  BY <1>5 DEF SameTalk
<1>7. Asking(g) /\ Awaiting(g)
  BY <1>6 DEF Asking, Awaiting
<1>8. Timely(g)
  BY <1>6 DEF Timely
<1>9. Rests(g, x)
  BY <1>5, <1>6 DEF Rests, SameList
<1>. QED  BY <1>5, <1>7, <1>8, <1>9 DEF Catching, Talks

\* The connection is open, and has nothing yet.
Opening(h, behind) ==
    [h EXCEPT !.state = "recovering", !.snapshot = FALSE, !.awaited = 0,
              !.asks = {}, !.pages = 0, !.behind = behind]

\* What is under way over the connection is forgotten, and the list rests.
LEMMA OpenIs ==
    ASSUME NEW h \in Lists!World, NEW behind \in BOOLEAN,
           NEW x, x = Opening(h, behind)
    PROVE  /\ x \in Lists!World /\ SameList(x, h) /\ x.initial = h.initial
           /\ x.state = "recovering" /\ x.awaited = 0
           /\ x.established = h.established /\ x.recoveryGen = h.recoveryGen /\ ~x.snapshot
           /\ x.selected = h.selected /\ x.saved = h.saved /\ x.behind = behind
           /\ x.ask = h.ask /\ x.lastID = h.lastID /\ x.asks = {}
<1>1. x \in Lists!World
  BY ZenonT(60), {} \in SUBSET Lists!Ask, 0 \in Nat, FALSE \in BOOLEAN DEF Opening, Lists!World
<1>. QED  BY <1>1 DEF Opening, Lists!World, SameList

\* The connection opens: the list is recovered, or the first load waited for.
OpenedFrom(x) ==
    IF x.established
      THEN Lists!RefreshedForRecovery([x EXCEPT !.recoveryGen = @ + 1], x.recoveryGen + 1, Retries)
      ELSE Lists!InitialCompleted(x)

\* An opened connection keeps the invariant, recovering or loading for the first time.
LEMMA OpensKeeps ==
    ASSUME HomeBounds, NEW h \in Lists!World, NEW s \in Served, Talks(h), Lasts(h, s),
           NEW x \in Lists!World, SameList(x, h), x.initial = h.initial,
           x.state = "recovering", x.awaited = 0,
           x.established = h.established, x.recoveryGen = h.recoveryGen, ~x.snapshot,
           x.selected = h.selected, x.saved = h.saved, x.behind = (h.selected # "none"),
           x.ask = h.ask, x.lastID = h.lastID, x.asks = {},
           NEW g, g = OpenedFrom(x)
    PROVE  g \in Lists!World /\ Talks(g) /\ Lasts(g, s) /\ Rests(g, h)
<1>1. Asking(x) /\ Awaiting(x) /\ Timely(x)
  BY DEF Talks, Asking, Awaiting, Timely, SameList
<1>2. CASE ~x.established
  <2>1. g = Lists!InitialCompleted(x)
    BY <1>2 DEF OpenedFrom
  <2>2. x.initial = "pending" => Catching(x)
    BY <1>2 DEF Catching
  <2>3. Connects(x, h)
    BY <1>2 DEF Connects
  <2>4. Lasts(x, s)
    BY <2>3, ConnectsKeeps
  <2>5. /\ Connects(g, x) /\ g.recoveryGen = x.recoveryGen /\ g.selected = x.selected
        /\ Talks(g)
    BY <1>1, <1>2, <2>1, <2>2, InitialCompletedIs DEF Talks
  <2>6. Rests(g, h)
    BY <2>5, RestsOn DEF Connects
  <2>. QED  BY <2>4, <2>5, <2>6, ConnectsKeeps DEF Connects
<1>3. CASE x.established
  <2>. DEFINE n == x.recoveryGen + 1
              y == [x EXCEPT !.recoveryGen = n]
  <2>1. n \in Nat /\ n = x.recoveryGen + 1
    BY HomeFields
  <2>2. g = Lists!RefreshedForRecovery(y, n, Retries)
    BY <1>3 DEF OpenedFrom
  <2>3. Turns(x, h)
    BY DEF Turns
  <2>4. Stands(x, s)
    BY <2>3, TurnsKeeps DEF Lasts
  <2>. HIDE DEF n
  <2>5. y = [x EXCEPT !.recoveryGen = n]
    OBVIOUS
  <2>. HIDE DEF y
  <2>6. /\ y \in Lists!World /\ SameList(y, x) /\ y.initial = x.initial
        /\ y.state = x.state /\ y.awaited = x.awaited
        /\ y.established = x.established /\ y.recoveryGen = n /\ y.snapshot = x.snapshot
        /\ y.selected = x.selected /\ y.saved = x.saved /\ y.behind = x.behind
        /\ y.ask = x.ask /\ y.lastID = x.lastID /\ y.asks = x.asks
    BY <2>1, <2>5, RecoversIs
  <2>7. y.recoveryGen = x.recoveryGen + 1 /\ g = Lists!RefreshedForRecovery(y, y.recoveryGen, Retries)
    BY <2>1, <2>2, <2>6
  <2>8. g \in Lists!World /\ Talks(g) /\ Lasts(g, s) /\ Rests(g, x)
    BY <1>1, <1>3, <2>4, <2>6, <2>7, RecoversKeeps
  <2>9. Rests(g, h)
    BY <2>8 DEF Rests, SameList
  <2>. QED  BY <2>8, <2>9
<1>. QED  BY <1>2, <1>3

\* The presence snapshot comes: a first list that it overtakes is noted.
LEMMA SnapshotKeeps ==
    ASSUME NEW h \in Lists!World, NEW s, Talks(h), Lasts(h, s),
           NEW l, l = [h EXCEPT !.snapshot = TRUE],
           NEW g, g = Lists!Completed(l),
           "early" \in h.upset \/ h.initial = "ready" \/ ~h.behind
    PROVE  g \in Lists!World /\ Talks(g) /\ Lasts(g, s) /\ Rests(g, h)
<1>1. l \in Lists!World
  BY ZenonT(60), TRUE \in BOOLEAN DEF Lists!World
<1>2. /\ SameList(l, h) /\ l.initial = h.initial /\ l.state = h.state /\ l.awaited = h.awaited
      /\ l.established = h.established /\ l.recoveryGen = h.recoveryGen /\ l.snapshot
      /\ l.selected = h.selected /\ l.saved = h.saved /\ l.behind = h.behind
      /\ l.ask = h.ask /\ l.lastID = h.lastID /\ l.asks = h.asks
  BY DEF Lists!World, SameList
<1>3. Connects(l, h)
  BY <1>1, <1>2 DEF Connects, Lists!IsOpen
<1>4. Asking(l) /\ Awaiting(l)
  BY <1>2 DEF Talks, Asking, Awaiting
<1>5. Timely(l) /\ Catching(l)
  BY <1>2, FetchingRests DEF Talks, Timely, Catching, Excused, SameList
<1>6. Lasts(l, s)
  BY <1>2, <1>3, ConnectsKeeps
<1>7. CASE ~(Lists!IsOpen(l) /\ l.awaited = 0)
  <2>1. g = l
    BY <1>7 DEF Lists!Completed
  <2>. QED  BY <1>1, <1>2, <1>4, <1>5, <1>6, <2>1, SameRests DEF Talks
<1>8. CASE Lists!IsOpen(l) /\ l.awaited = 0
  <2>1. g = Ready(l)
    BY <1>2, <1>8 DEF Lists!Completed, Ready
  <2>2. g \in Lists!World /\ SameList(g, l) /\ g.initial = l.initial /\ g.state = "ready"
        /\ g.awaited = l.awaited /\ g.established /\ g.recoveryGen = l.recoveryGen
        /\ g.selected = l.selected /\ g.saved = l.saved /\ g.behind = l.behind
        /\ g.ask = l.ask /\ g.lastID = l.lastID /\ g.asks = l.asks
    BY ONLY <1>1, <2>1, ReadyIs
  <2>3. Connects(g, l)
    BY <1>8, <2>2 DEF Connects, Lists!IsOpen
  <2>4. Asking(g) /\ Awaiting(g) /\ Catching(g)
    BY <1>4, <1>8, <2>2 DEF Asking, Awaiting, Catching
  <2>5. Timely(g)
    <3>1. SUFFICES ASSUME ~Excused(g), g.behind
                   PROVE  Lists!Fetching(g, {"recovery"})
      BY DEF Timely
    <3>2. ~Excused(l) /\ l.behind /\ l.initial = "ready"
      BY <1>2, <2>2, <3>1 DEF Excused, SameList
    <3>3. Lists!Fetching(l, {"recovery"})
      BY <1>5, <1>8, <3>2 DEF Timely, Catching, Lists!IsOpen
    <3>. QED  BY <2>2, <3>3, FetchingRests DEF SameList
  <2>6. Lasts(g, s)
    BY <1>1, <1>6, <2>2, <2>3, ConnectsKeeps
  <2>7. Rests(g, h)
    BY <1>2, <2>2, RestsOn
  <2>. QED  BY <2>2, <2>4, <2>5, <2>6, <2>7 DEF Talks
<1>. QED  BY <1>7, <1>8

\* A reply is on its way no more.
Replies(g, h, S) ==
    /\ g \in Lists!World /\ SameList(g, h) /\ g.initial = h.initial
    /\ g.state = h.state /\ g.awaited = h.awaited
    /\ g.established = h.established /\ g.recoveryGen = h.recoveryGen
    /\ g.snapshot = h.snapshot
    /\ g.selected = h.selected /\ g.saved = h.saved /\ g.behind = h.behind
    /\ g.ask = h.ask /\ g.lastID = h.lastID /\ g.asks = S
Replied(h, S) == [h EXCEPT !.asks = S]
PageReplied(h, S, p) == [h EXCEPT !.asks = S, !.pages = p]

\* A reply that is taken changes nothing else.
LEMMA RepliedIs ==
    ASSUME NEW h \in Lists!World, NEW S \in SUBSET Lists!Ask, NEW g, g = Replied(h, S)
    PROVE  Replies(g, h, S)
<1>1. g \in Lists!World
  BY ZenonT(60) DEF Replied, Lists!World
<1>. QED  BY <1>1 DEF Replied, Replies, Lists!World, SameList

\* Nor does one after which a page of events is asked for.
LEMMA PageRepliedIs ==
    ASSUME NEW h \in Lists!World, NEW S \in SUBSET Lists!Ask, NEW p \in Nat,
           NEW g, g = PageReplied(h, S, p)
    PROVE  Replies(g, h, S)
<1>1. g \in Lists!World
  BY ZenonT(60) DEF PageReplied, Lists!World
<1>. QED  BY <1>1 DEF PageReplied, Replies, Lists!World, SameList

\* Home waits for no reply, and may have what was missing.
Caught(h, behind) == [h EXCEPT !.ask = Lists!NoAsk, !.behind = behind]

\* What Home no longer waits for is nothing, and nothing else changes.
LEMMA CaughtIs ==
    ASSUME NEW h \in Lists!World, NEW behind \in BOOLEAN, NEW g, g = Caught(h, behind)
    PROVE  /\ g \in Lists!World /\ SameList(g, h) /\ g.initial = h.initial
           /\ g.state = h.state /\ g.awaited = h.awaited
           /\ g.established = h.established /\ g.recoveryGen = h.recoveryGen
           /\ g.snapshot = h.snapshot
           /\ g.selected = h.selected /\ g.saved = h.saved /\ g.behind = behind
           /\ g.ask = Lists!NoAsk /\ g.ask.id = 0 /\ g.lastID = h.lastID /\ g.asks = h.asks
<1>1. Lists!NoAsk \in Lists!Ask /\ Lists!NoAsk.id = 0
  BY DEF Lists!NoAsk, Lists!Ask, Lists!ChatOrNone
<1>2. g \in Lists!World
  BY ZenonT(60), <1>1 DEF Caught, Lists!World
<1>. QED  BY <1>1, <1>2 DEF Caught, Lists!World, SameList

\* The reply that a recovery waits for is Home's own.
LEMMA AwaitsOwn ==
    ASSUME NEW h \in Lists!World, NEW ask \in h.asks, Asking(h), Awaiting(h),
           h.state = "recovering", ask.id = h.awaited
    PROVE  ask = h.ask /\ ask.gen = h.recoveryGen /\ ask.chat = h.selected
<1>1. ask.id # 0
  <2>1. ask.id \in Nat
    BY HomeFields DEF Lists!Ask
  <2>. QED  BY <2>1 DEF Asking
<1>. QED  BY <1>1 DEF Asking, Awaiting

\* A reply that is not waited for is dropped.
LEMMA RepliesKeep ==
    ASSUME NEW h \in Lists!World, NEW s, Talks(h), Lasts(h, s), NEW ask \in h.asks,
           NEW g, Replies(g, h, h.asks \ {ask})
    PROVE  /\ Connects(g, h)
           /\ Asking(g) /\ Timely(g) /\ Catching(g) /\ Lasts(g, s)
           /\ h.state # "recovering" \/ ask # h.ask => Awaiting(g)
<1>1. Connects(g, h)
  BY DEF Connects, Lists!IsOpen, Replies
<1>2. \A a \in g.asks : a \in h.asks
  BY DEF Replies
<1>3. Asking(g)
  BY <1>2 DEF Talks, Asking, Replies
<1>4. Timely(g) /\ Catching(g)
  BY FetchingRests DEF Talks, Timely, Catching, Excused, SameList, Replies
<1>5. Lasts(g, s)
  BY <1>1, ConnectsKeeps DEF Replies
<1>6. h.state # "recovering" \/ ask # h.ask => Awaiting(g)
  BY DEF Talks, Awaiting, Replies
<1>. QED  BY <1>1, <1>3, <1>4, <1>5, <1>6

\* Home takes the reply if it is its own, and the recovery ends if it waited for it.
Takes(h, d, a, ask) ==
    /\ a = d \/ (h.ask.id = ask.id /\ \E behind \in {FALSE, d.behind} : a = Caught(d, behind))
    /\ h.ask = ask /\ ask.gen = h.recoveryGen /\ ask.chat = h.selected =>
          Excused(a) \/ ~a.behind
Ended(a, ask) == IF ask.id = a.awaited THEN Lists!Finish(a) ELSE a

\* Taking a reply keeps the invariant.
LEMMA TakesKeep ==
    ASSUME NEW h \in Lists!World, NEW s, Talks(h), Lasts(h, s), Lists!IsOpen(h),
           NEW ask \in h.asks, NEW d, Replies(d, h, h.asks \ {ask}),
           NEW a, Takes(h, d, a, ask), NEW g, g = Ended(a, ask)
    PROVE  g \in Lists!World /\ Talks(g) /\ Lasts(g, s) /\ Rests(g, h)
<1>1. /\ a = d \/ (h.ask.id = ask.id /\ \E behind \in {FALSE, d.behind} : a = Caught(d, behind))
      /\ h.ask = ask /\ ask.gen = h.recoveryGen /\ ask.chat = h.selected =>
            Excused(a) \/ ~a.behind
  BY DEF Takes
<1>2. /\ Connects(d, h) /\ d.recoveryGen = h.recoveryGen /\ d.selected = h.selected
      /\ Asking(d) /\ Timely(d) /\ Catching(d) /\ Lasts(d, s)
      /\ h.state # "recovering" \/ ask # h.ask => Awaiting(d)
      /\ d \in Lists!World
      /\ d.state = h.state /\ d.awaited = h.awaited /\ d.ask = h.ask
  BY RepliesKeep DEF Replies
<1>3. /\ a \in Lists!World /\ Connects(a, d) /\ a.recoveryGen = d.recoveryGen
      /\ a.selected = d.selected /\ a.state = d.state /\ a.awaited = d.awaited
      /\ Asking(a) /\ Timely(a) /\ Catching(a) /\ Lasts(a, s)
      /\ h.state # "recovering" \/ ask.id # h.awaited => Awaiting(a)
  <2>1. ask.id # h.awaited => Awaiting(d)
    BY <1>2 DEF Talks, Awaiting
  <2>2. CASE a = d
    <3>1. Connects(d, d)
      BY <1>2 DEF Connects, SameList
    <3>. QED  BY <1>2, <2>1, <2>2, <3>1
  <2>3. CASE h.ask.id = ask.id /\ \E behind \in {FALSE, d.behind} : a = Caught(d, behind)
    <3>1. PICK behind \in {FALSE, d.behind} : a = Caught(d, behind)
      BY <2>3
    <3>2. /\ a \in Lists!World /\ SameList(a, d) /\ a.initial = d.initial
          /\ a.state = d.state /\ a.awaited = d.awaited
          /\ a.established = d.established /\ a.recoveryGen = d.recoveryGen
          /\ a.snapshot = d.snapshot
          /\ a.selected = d.selected /\ a.saved = d.saved /\ a.behind = behind
          /\ a.ask.id = 0 /\ a.lastID = d.lastID /\ a.asks = d.asks
      <4>1. d \in Lists!World /\ a = Caught(d, behind) /\ behind \in BOOLEAN
        BY <1>2, <3>1, HomeFields
      <4>. QED  BY ONLY <4>1, CaughtIs
    <3>3. Connects(a, d)
      BY <3>2 DEF Connects, Lists!IsOpen
    <3>4. Asking(a)
      <4>1. a.lastID \in Nat
        BY <3>2, HomeFields
      <4>2. a.behind => d.behind
        BY <3>1, <3>2
      <4>. QED  BY ONLY <1>2, <3>2, <4>1, <4>2 DEF Asking
    <3>5. Timely(a) /\ Catching(a)
      BY <1>2, <3>1, <3>2, FetchingRests DEF Timely, Catching, Excused, SameList
    <3>6. Lasts(a, s)
      BY <1>2, <3>2, <3>3, ConnectsKeeps
    <3>7. h.state # "recovering" \/ ask.id # h.awaited => Awaiting(a)
      BY <1>2, <2>3, <3>2 DEF Talks, Awaiting
    <3>. QED  BY <3>2, <3>3, <3>4, <3>5, <3>6, <3>7
  <2>. QED  BY <1>1, <2>2, <2>3
<1>4. Connects(a, h)
  BY <1>2, <1>3, ConnectsOn
<1>5. CASE ask.id # a.awaited
  <2>1. g = a
    BY <1>5 DEF Ended
  <2>2. Rests(g, h)
    BY <1>4, <2>1, SameRests DEF Connects
  <2>. QED  BY <1>2, <1>3, <1>5, <2>1, <2>2 DEF Talks
<1>6. CASE ask.id = a.awaited
  <2>1. g = Lists!Finish(a)
    BY <1>6 DEF Ended
  <2>2. a.state = "recovering" => Excused(a) \/ ~a.behind
    BY <1>1, <1>2, <1>3, <1>6, AwaitsOwn DEF Talks
  <2>3. /\ Connects(g, a) /\ g.recoveryGen = a.recoveryGen /\ g.selected = a.selected
        /\ Talks(g)
    BY <1>3, <2>1, <2>2, FinishIs DEF Talks
  <2>4. Rests(g, h)
    BY <1>4, <2>3, RestsOn DEF Connects
  <2>. QED  BY <1>3, <2>3, <2>4, ConnectsKeeps DEF Connects
<1>. QED  BY <1>5, <1>6

\* Home takes a page, and asks for the next.
LEMMA PagesKeep ==
    ASSUME NEW h \in Lists!World, NEW s, Talks(h), Lasts(h, s),
           NEW ask \in h.asks, NEW d, Replies(d, h, h.asks \ {ask}),
           NEW g, g = IF d.ask.id # ask.id \/ d.ask.gen # d.recoveryGen \/ d.ask.chat # d.selected
                        THEN d ELSE Lists!Reconcile(Caught(d, d.behind), ask.gen)
    PROVE  g \in Lists!World /\ Talks(g) /\ Lasts(g, s) /\ Rests(g, h)
<1>1. /\ Connects(d, h) /\ d.recoveryGen = h.recoveryGen /\ d.selected = h.selected
      /\ Asking(d) /\ Timely(d) /\ Catching(d) /\ Lasts(d, s)
      /\ h.state # "recovering" \/ ask # h.ask => Awaiting(d)
      /\ d \in Lists!World
      /\ d.state = h.state /\ d.awaited = h.awaited /\ d.ask = h.ask
  BY RepliesKeep DEF Replies
<1>2. CASE d.ask.id # ask.id \/ d.ask.gen # d.recoveryGen \/ d.ask.chat # d.selected
  <2>1. g = d
    BY <1>2
  <2>2. Awaiting(d)
    BY <1>1, <1>2 DEF Talks, Awaiting
  <2>3. Rests(g, h)
    BY <1>1, <2>1, SameRests DEF Connects
  <2>. QED  BY <1>1, <2>1, <2>2, <2>3 DEF Talks
<1>3. CASE d.ask.id = ask.id /\ d.ask.gen = d.recoveryGen /\ d.ask.chat = d.selected
  <2>. DEFINE a == Caught(d, d.behind)
  <2>1. ask = h.ask
    BY <1>1, <1>3 DEF Talks, Asking
  <2>2. d.behind \in BOOLEAN
    BY <1>1, HomeFields
  <2>3. /\ a \in Lists!World /\ SameList(a, d) /\ a.initial = d.initial
        /\ a.state = d.state /\ a.awaited = d.awaited
        /\ a.established = d.established /\ a.recoveryGen = d.recoveryGen
        /\ a.snapshot = d.snapshot
        /\ a.selected = d.selected /\ a.saved = d.saved /\ a.behind = d.behind
        /\ a.ask.id = 0 /\ a.lastID = d.lastID /\ a.asks = d.asks
    BY ONLY <1>1, <2>2, CaughtIs
  <2>4. g = Lists!Reconcile(a, a.recoveryGen)
    BY <1>1, <1>3, <2>1, <2>3
  <2>. HIDE DEF a
  <2>5. Connects(a, d)
    BY <2>3 DEF Connects, Lists!IsOpen
  <2>6. Asking(a)
    <3>1. a.lastID \in Nat
      BY <2>3, HomeFields
    <3>. QED  BY <1>1, <2>3, <3>1 DEF Asking
  <2>7. Timely(a)
    BY <1>1, <2>3, FetchingRests DEF Timely, Excused, SameList
  <2>8. Lasts(a, s)
    BY <1>1, <2>3, <2>5, ConnectsKeeps
  <2>9. a.selected # "none"
    BY <1>1, <1>3, <2>1, <2>3 DEF Talks, Asking
  <2>10. /\ Connects(g, a) /\ g.recoveryGen = a.recoveryGen /\ g.selected = a.selected
         /\ Talks(g)
    BY <2>3, <2>4, <2>6, <2>7, <2>9, ReconcileIs DEF Talks
  <2>11. Connects(a, h)
    BY <1>1, <2>5, ConnectsOn
  <2>12. Rests(g, h)
    BY <2>10, <2>11, RestsOn DEF Connects
  <2>. QED  BY <2>3, <2>8, <2>10, <2>12, ConnectsKeeps DEF Connects
<1>. QED  BY <1>2, <1>3

-----------------------------------------------------------------------------
(* The user and the peers.                                                  *)

\* A move on the list notes the recovery it overtakes.
LEMMA MovingIs ==
    ASSUME NEW h \in Lists!World, Talks(h), NEW g, g = Lists!Moving(h)
    PROVE  /\ g \in Lists!World /\ SameTalk(g, h) /\ SameScreen(g, h) /\ g.lists = h.lists
           /\ Remembers(g, h) /\ Talks(g)
           /\ "moves" \in g.upset \/ ~Lists!Fetching(g, {"recovery"})
           /\ \E b \in BOOLEAN : g = Lists!Noted(h, "moves", b)
<1>. DEFINE b == Lists!Fetching(h, {"recovery"})
<1>1. b \in BOOLEAN
  BY DEF Lists!Fetching
<1>2. g = Lists!Noted(h, "moves", b)
  BY DEF Lists!Moving
<1>. HIDE DEF b
<1>3. /\ g \in Lists!World /\ SameTalk(g, h) /\ SameScreen(g, h) /\ g.lists = h.lists
      /\ g.upset = h.upset \cup (IF b THEN {"moves"} ELSE {})
  <2>1. "moves" \in Lists!Notes
    BY DEF Lists!Notes
  <2>. QED  BY <1>1, <1>2, <2>1, NotedIs
<1>4. Lists!Fetching(g, {"recovery"}) <=> Lists!Fetching(h, {"recovery"})
  BY <1>3 DEF Lists!Fetching, SameTalk
<1>5. Remembers(g, h)
  BY <1>3 DEF Remembers
<1>6. Talks(g)
  BY <1>3, <1>4, <1>5, TalkRests
<1>. QED  BY <1>1, <1>2, <1>3, <1>4, <1>5, <1>6 DEF b

\* Noting a move that overtakes a list keeps what is said of the list.
LEMMA MovingKeeps ==
    ASSUME NEW h \in Lists!World, NEW s, Talks(h), Lasts(h, s), NEW g, g = Lists!Moving(h)
    PROVE  Lasts(g, s)
<1>1. PICK b \in BOOLEAN : g = Lists!Noted(h, "moves", b)
  BY MovingIs
<1>2. "moves" \in Lists!Notes
  BY DEF Lists!Notes
<1>. QED  BY <1>1, <1>2, NotedKeeps

\* The user selects a chat of the list.
LEMMA SelectKeeps ==
    ASSUME HomeBounds, NEW h \in Lists!World, NEW s, Talks(h), Lasts(h, s),
           NEW c \in h.listed, NEW g, g = Lists!Selected(h, c)
    PROVE  /\ g \in Lists!World /\ Talks(g) /\ Lasts(g, s)
           /\ g.ver = h.ver /\ g.lists = h.lists
<1>1. c \in Chats
  BY HomeFields
<1>2. Connects(g, h) /\ g.recoveryGen = h.recoveryGen /\ g.selected = c /\ Talks(g)
  BY <1>1, SelectedIs DEF Talks
<1>. QED  BY <1>2, ConnectsKeeps DEF Connects, SameList

\* No recovery is ahead of the present.
NoneAhead(h) == \A r \in h.lists : r.kind = "recovery" => r.gen <= h.recoveryGen

\* A chat is closed, in no recovery or in one that was noted.
LEMMA ClosesKeep ==
    ASSUME NEW h \in Lists!World, NEW s, Talks(h), Lasts(h, s),
           "moves" \in h.upset \/ ~Lists!Fetching(h, {"recovery"}),
           NEW g, g = Lists!Closed(h)
    PROVE  /\ g \in Lists!World /\ SameList(g, h) /\ Talks(g) /\ Lasts(g, s)
           /\ g.recoveryGen = h.recoveryGen + 1 /\ g.selected = "none"
           /\ h.established => g.established
           /\ ~Lists!Fetching(g, {"recovery"})
<1>1. NoneAhead(h)
  BY DEF NoneAhead, Lasts, Stands, Requested
<1>2. Connects(g, h) /\ g.recoveryGen = h.recoveryGen + 1 /\ g.selected = "none" /\ Talks(g)
  BY ClosedIs DEF Talks
<1>3. ~Lists!Fetching(g, {"recovery"})
  <2>1. h.recoveryGen \in Nat /\ \A r \in h.lists : r.gen \in Nat
    BY HomeFields, ListFields
  <2>. QED  BY <1>1, <1>2, <2>1 DEF Lists!Fetching, NoneAhead, Connects, SameList
<1>. QED  BY <1>2, <1>3, ConnectsKeeps DEF Connects

\* The list is refreshed, and a recovery that was not noted is not under way.
LEMMA RefreshesKeep ==
    ASSUME HomeBounds, NEW h \in Lists!World, NEW s \in Served, Talks(h), Stands(h, s),
           "moves" \in h.upset \/ ~Lists!Fetching(h, {"recovery"}),
           NEW g, g = Lists!Refreshed(h)
    PROVE  /\ g \in Lists!World /\ SameTalk(g, h) /\ g.upset = h.upset
           /\ g.moves = h.moves /\ g.mode = h.mode /\ g.listed = h.listed
           /\ Talks(g) /\ Lasts(g, s) /\ g.snapLoading
           /\ g.ver = h.ver /\ \E q \in g.lists : q \notin h.lists
<1>1. Anew(h).refreshGen = h.refreshGen + 1
  <2>. DEFINE k == Anew(h)
  <2>1. k = Anew(h)
    OBVIOUS
  <2>. HIDE DEF k
  <2>2. k.refreshGen = h.refreshGen + 1
    BY <2>1, AnewIs
  <2>. QED  BY <2>1, <2>2
<1>2. g = Lists!Requested(Anew(h), "refresh", h.refreshGen + 1, Retries)
  BY <1>1 DEF Lists!Refreshed, Anew
<1>3. /\ "refresh" \in {"refresh", "recovery"}
      /\ h.refreshGen + 1 = (IF "refresh" = "recovery" THEN h.recoveryGen ELSE h.refreshGen + 1)
      /\ "refresh" = "recovery" => h.established
  OBVIOUS
<1>4. /\ g \in Lists!World /\ SameTalk(g, h) /\ g.upset = h.upset /\ Lasts(g, s)
      /\ g.moves = h.moves /\ g.mode = h.mode /\ g.listed = h.listed /\ g.snapLoading
      /\ g.ver = h.ver /\ ("refresh" = "refresh" => \E q \in g.lists : q \notin h.lists)
      /\ Lists!Fetching(g, {"recovery"}) <=> Lists!Fetching(h, {"recovery"}) \/ "refresh" = "recovery"
  BY ONLY HomeBounds, h \in Lists!World, s \in Served, Stands(h, s),
          "moves" \in h.upset \/ ~Lists!Fetching(h, {"recovery"}), <1>2, <1>3, AnewKeeps
<1>5. Lists!Fetching(g, {"recovery"}) <=> Lists!Fetching(h, {"recovery"})
  BY <1>4
<1>6. Talks(g)
  BY <1>4, <1>5, TalkRests DEF Remembers
<1>. QED  BY <1>4, <1>6

\* A failed list that is asked for again says that it loads.
AskedAgain(h) == [h EXCEPT !.isLoading = TRUE, !.error = FALSE]

\* Asking again keeps the invariant.
LEMMA RetriedKeeps ==
    ASSUME NEW h \in Lists!World, NEW s, Talks(h), Lasts(h, s), h.snapLoading,
           NEW g, g = AskedAgain(h)
    PROVE  /\ g \in Lists!World /\ Talks(g) /\ Lasts(g, s)
           /\ g.ver = h.ver /\ g.selected = h.selected
<1>1. g \in Lists!World
  BY ZenonT(60), TRUE \in BOOLEAN, FALSE \in BOOLEAN DEF Lists!World, AskedAgain
<1>2. /\ SameTalk(g, h) /\ g.upset = h.upset /\ g.lists = h.lists
      /\ g.moves = h.moves /\ g.mode = h.mode /\ g.from = h.from
      /\ g.listed = h.listed /\ g.ver = h.ver /\ g.gone = h.gone
      /\ g.cursor = h.cursor /\ g.tail = h.tail
      /\ g.refreshGen = h.refreshGen /\ g.snapLoading = h.snapLoading
  BY DEF Lists!World, AskedAgain, SameTalk
<1>3. Lists!Fetching(g, {"recovery"}) <=> Lists!Fetching(h, {"recovery"})
  BY <1>2 DEF Lists!Fetching, SameTalk
<1>4. Talks(g)
  BY <1>1, <1>2, <1>3, TalkRests DEF Remembers
<1>5. \A p : Present(g, p) <=> Present(h, p)
  BY <1>2 DEF Present, SameTalk
<1>6. Requested(g)
  BY <1>2, <1>5 DEF Lasts, Stands, Requested, SameTalk
<1>7. Single(g)
  BY <1>2, <1>5 DEF Lasts, Stands, Single, SameTalk
<1>8. Versions(g, s) /\ Moves(g, s)
  BY <1>2 DEF Lasts, Stands, Versions, Moves
<1>9. Listing(g, s)
  <2>1. \A c : Leaving(h, c) <=> Leaving(g, c)
    BY <1>2 DEF Leaving
  <2>2. \A r : Answers(h, s, r) => Answers(g, s, r)
    BY <1>2, <2>1 DEF Answers
  <2>. QED  BY <1>2, <1>5, <2>1, <2>2 DEF Lasts, Stands, Listing, SameTalk
<1>10. Loading(g)
  <2>1. Lists!Fetching(h, {"refresh", "recovery"}) => Lists!Fetching(g, {"refresh", "recovery"})
    BY <1>2 DEF Lists!Fetching, SameTalk
  <2>2. Lists!Fetching(g, {"refresh", "recovery"})
          => Lists!Fetching(g, {"initial", "refresh", "recovery"})
    BY DEF Lists!Fetching
  <2>. QED  BY <1>2, <2>1, <2>2 DEF Lasts, Loading, SameTalk, Lists!IsOpen
<1>. QED  BY <1>1, <1>2, <1>4, <1>6, <1>7, <1>8, <1>9, <1>10 DEF Lasts, Stands, SameTalk

\* The user asks for the list again.
LEMMA RefreshChatsKeeps ==
    ASSUME HomeBounds, NEW h \in Lists!World, NEW s \in Served, Talks(h), Lasts(h, s),
           NEW k, k = Lists!Refreshed(Lists!Moving(h)),
           NEW g, g = IF k.error THEN [k EXCEPT !.isLoading = TRUE, !.error = FALSE] ELSE k
    PROVE  g \in Lists!World /\ Talks(g) /\ Lasts(g, s) /\ Rests(g, h)
<1>. DEFINE d == Lists!Moving(h)
<1>1. /\ d \in Lists!World /\ Talks(d) /\ Lasts(d, s) /\ SameTalk(d, h) /\ SameScreen(d, h)
      /\ "moves" \in d.upset \/ ~Lists!Fetching(d, {"recovery"})
  BY MovingIs, MovingKeeps
<1>2. k = Lists!Refreshed(d)
  OBVIOUS
<1>. HIDE DEF d
<1>3. /\ k \in Lists!World /\ Talks(k) /\ Lasts(k, s) /\ k.snapLoading
      /\ SameTalk(k, d) /\ k.ver = d.ver
  BY <1>1, <1>2, RefreshesKeep DEF Lasts
<1>4. g = k \/ g = AskedAgain(k)
  BY DEF AskedAgain
<1>5. g \in Lists!World /\ Talks(g) /\ Lasts(g, s) /\ g.ver = k.ver /\ g.selected = k.selected
  BY <1>3, <1>4, RetriedKeeps
<1>6. Rests(g, h)
  BY <1>1, <1>3, <1>5 DEF Rests, SameTalk, SameScreen
<1>. QED  BY <1>5, <1>6

\* The rest of the list shown is asked for, when nothing else is under way.
LEMMA LoadMoreKeeps ==
    ASSUME NEW h \in Lists!World, NEW s \in Served, Talks(h), Lasts(h, s),
           ~h.snapLoading, h.cursor # 0, ~\E r \in h.lists : r.kind = "page",
           NEW q \in Lists!List, q.kind = "page", q.gen = h.refreshGen, q.mode = h.mode,
           q.at = "sent", q.ver = h.cursor,
           NEW g, g = [h EXCEPT !.lists = h.lists \cup {q}]
    PROVE  g \in Lists!World /\ Talks(g) /\ Lasts(g, s) /\ Rests(g, h)
<1>1. Adds(g, h, q)
  BY AddsIs
<1>2. /\ g \in Lists!World /\ SameTalk(g, h) /\ SameScreen(g, h) /\ g.upset = h.upset
      /\ g.lists = h.lists \cup {q}
  BY <1>1 DEF Adds
<1>3. \A p : Present(g, p) <=> Present(h, p)
  BY <1>2 DEF Present, SameScreen, SameTalk
<1>4. Remembers(g, h) /\ (Lists!Fetching(g, {"recovery"}) <=> Lists!Fetching(h, {"recovery"}))
  BY <1>2 DEF Remembers, Lists!Fetching, SameTalk
<1>5. Talks(g)
  BY <1>2, <1>4, TalkRests
<1>6. Loading(g)
  BY <1>2, <1>4, LoadingRests DEF Lasts
<1>7. Requested(g)
  <2>1. h.refreshGen \in Nat
    BY HomeFields
  <2>2. g.from = g.mode
    BY <1>2 DEF Lasts, Stands, Requested, SameScreen
  <2>3. \A r \in g.lists : r = q \/ r \in h.lists
    BY <1>2
  <2>4. /\ g.refreshGen = h.refreshGen /\ g.mode = h.mode
        /\ g.recoveryGen = h.recoveryGen /\ g.established = h.established
    BY <1>2 DEF SameScreen, SameTalk
  <2>5. SUFFICES ASSUME NEW r \in g.lists
                 PROVE  /\ r.kind = "recovery" => r.gen <= g.recoveryGen /\ g.established
                        /\ r.kind # "recovery" => r.gen <= g.refreshGen
                        /\ Present(g, r) => r.mode = g.mode
                        /\ r.at = "timer" => r.kind # "page" /\ r.left < Retries
    BY <2>2 DEF Requested
  <2>6. CASE r = q
    BY <2>1, <2>4, <2>6
  <2>7. CASE r \in h.lists
    BY <1>3, <2>4, <2>7 DEF Lasts, Stands, Requested
  <2>. QED  BY <2>3, <2>6, <2>7
<1>8. Single(g)
  <2>1. SUFFICES ASSUME "moves" \notin g.upset
                 PROVE  Single(g)
    BY DEF Single
  <2>2. \A r \in h.lists : ~Present(h, r)
    <3>1. \A r \in h.lists : r.kind \in {"initial", "recovery", "refresh", "page"}
      BY HomeFields, ListFields
    <3>. QED  BY <1>2, <2>1, <3>1 DEF Lasts, Stands, Single
  <2>3. h.cursor = h.ver
    BY <1>2, <2>1 DEF Lasts, Stands, Single
  <2>. QED  BY <1>2, <1>3, <2>1, <2>2, <2>3 DEF Lasts, Stands, Single, SameScreen
<1>9. Versions(g, s)
  BY <1>2 DEF Lasts, Stands, Versions, SameScreen
<1>10. Moves(g, s)
  BY <1>2 DEF Lasts, Stands, Moves, SameScreen
<1>11. Listing(g, s)
  <2>1. \A c : Leaving(h, c) <=> Leaving(g, c)
    BY <1>2 DEF Leaving, SameScreen
  <2>2. \A r : Answers(h, s, r) => Answers(g, s, r)
    BY <1>2, <2>1 DEF Answers, SameScreen
  <2>. QED  BY <1>2, <1>3, <2>1, <2>2 DEF Lasts, Stands, Listing, SameScreen, SameTalk
<1>12. Rests(g, h)
  BY <1>2 DEF Rests, SameTalk, SameScreen
<1>. QED  BY <1>2, <1>5, <1>6, <1>7, <1>8, <1>9, <1>10, <1>11, <1>12 DEF Lasts, Stands

\* The list rests but for the moves that are under way.
SameView(g, h) ==
    /\ g.refreshGen = h.refreshGen /\ g.mode = h.mode /\ g.from = h.from
    /\ g.isLoading = h.isLoading /\ g.snapLoading = h.snapLoading
    /\ g.listed = h.listed /\ g.ver = h.ver /\ g.gone = h.gone
    /\ g.cursor = h.cursor /\ g.tail = h.tail
    /\ g.lists = h.lists /\ g.upset = h.upset
MovesSet(h, M) == [h EXCEPT !.moves = M]

\* Moves under way change nothing of what is shown or said.
LEMMA MovesSetIs ==
    ASSUME NEW h \in Lists!World, NEW M \in SUBSET Lists!Move, NEW g, g = MovesSet(h, M)
    PROVE  g \in Lists!World /\ SameTalk(g, h) /\ SameView(g, h) /\ g.moves = M
<1>1. g \in Lists!World
  BY ZenonT(60) DEF MovesSet, Lists!World
<1>. QED  BY <1>1 DEF MovesSet, Lists!World, SameTalk, SameView

\* What does not look at the moves holds whatever they are.
LEMMA ViewRests ==
    ASSUME NEW h \in Lists!World, NEW g \in Lists!World, NEW s, SameTalk(g, h), SameView(g, h),
           Talks(h), Lasts(h, s)
    PROVE  /\ Talks(g) /\ Requested(g) /\ Single(g) /\ Loading(g)
           /\ \A p : Present(g, p) <=> Present(h, p)
<1>1. Remembers(g, h) /\ (Lists!Fetching(g, {"recovery"}) <=> Lists!Fetching(h, {"recovery"}))
  BY DEF Remembers, Lists!Fetching, SameTalk, SameView
<1>2. Talks(g)
  BY <1>1, TalkRests
<1>3. \A p : Present(g, p) <=> Present(h, p)
  BY DEF Present, SameTalk, SameView
<1>4. Requested(g)
  BY <1>3 DEF Lasts, Stands, Requested, SameTalk, SameView
<1>5. Single(g)
  BY <1>3 DEF Lasts, Stands, Single, SameView
<1>6. \A kinds : Lists!Fetching(g, kinds) <=> Lists!Fetching(h, kinds)
  BY DEF Lists!Fetching, SameTalk, SameView
<1>7. Loading(g)
  BY <1>6 DEF Lasts, Loading, SameTalk, SameView, Lists!IsOpen
<1>. QED  BY <1>2, <1>3, <1>4, <1>5, <1>7

\* The user begins to move a chat, one move at a time.
LEMMA AddsMoveKeeps ==
    ASSUME NEW h \in Lists!World, NEW s \in Served, Talks(h), Lasts(h, s),
           NEW m \in Lists!Move, m.ver = 0,
           "moves" \in h.upset \/ \A k \in h.moves : k.chat # m.chat,
           "moves" \notin h.upset =>
              s.at[m.chat] = (IF m.kind = "create" THEN "nowhere" ELSE m.mode),
           NEW g, g = MovesSet(h, h.moves \cup {m})
    PROVE  g \in Lists!World /\ Talks(g) /\ Lasts(g, s) /\ Rests(g, h)
<1>1. h.moves \cup {m} \in SUBSET Lists!Move
  BY HomeFields
<1>2. g \in Lists!World /\ SameTalk(g, h) /\ SameView(g, h) /\ g.moves = h.moves \cup {m}
  BY <1>1, MovesSetIs
<1>3. /\ Talks(g) /\ Requested(g) /\ Single(g) /\ Loading(g)
      /\ \A p : Present(g, p) <=> Present(h, p)
  BY <1>2, ViewRests
<1>4. Versions(g, s)
  <2>1. s.ver \in Nat
    BY ServedFields
  <2>. QED  BY <1>2, <2>1 DEF Lasts, Stands, Versions, SameView
<1>5. Moves(g, s)
  BY <1>2 DEF Lasts, Stands, Moves, SameView
<1>6. Listing(g, s)
  <2>1. \A c : Leaving(h, c) <=> Leaving(g, c)
    BY <1>2 DEF Leaving, SameView
  <2>2. \A r : Answers(h, s, r) => Answers(g, s, r)
    BY <1>2, <2>1 DEF Answers, SameView
  <2>. QED  BY <1>2, <1>3, <2>1, <2>2 DEF Lasts, Stands, Listing, SameView, SameTalk
<1>7. Rests(g, h)
  BY <1>2 DEF Rests, SameView
<1>. QED  BY <1>2, <1>3, <1>4, <1>5, <1>6, <1>7 DEF Lasts, Stands

\* The server does a move that was asked for.
LEMMA ServerMovesKeeps ==
    ASSUME HomeBounds, NEW h \in Lists!World, NEW s \in Served, Talks(h), Lasts(h, s),
           NEW m \in h.moves, m.ver = 0,
           NEW to, to = (IF m.kind = "create" THEN "active" ELSE Lists!Other(m.mode)),
           NEW t \in Served, t.ver = s.ver + 1, t.at[m.chat] = to,
           \A c \in Chats : c # m.chat => t.at[c] = s.at[c],
           NEW n \in Lists!Move, n.kind = m.kind, n.chat = m.chat, n.mode = m.mode, n.ver = s.ver + 1,
           NEW g, g = MovesSet(h, (h.moves \ {m}) \cup {n})
    PROVE  g \in Lists!World /\ Talks(g) /\ Lasts(g, t) /\ Rests(g, h)
<1>1. (h.moves \ {m}) \cup {n} \in SUBSET Lists!Move
  BY HomeFields
<1>2. /\ g \in Lists!World /\ SameTalk(g, h) /\ SameView(g, h)
      /\ g.moves = (h.moves \ {m}) \cup {n}
  BY <1>1, MovesSetIs
<1>3. /\ Talks(g) /\ Requested(g) /\ Single(g) /\ Loading(g)
      /\ \A p : Present(g, p) <=> Present(h, p)
  BY <1>2, ViewRests
<1>4. /\ s.ver \in Nat /\ m.chat \in Chats /\ m.kind \in {"archive", "create"}
      /\ m.mode \in Lists!Modes /\ h.mode \in Lists!Modes
      /\ \A k \in h.moves : k.chat \in Chats /\ k.ver \in Nat
      /\ \A r \in h.lists : r.ver \in Nat /\ r.has \in SUBSET Chats
      /\ h.ver \in Nat /\ h.gone \in Nat /\ h.cursor \in Nat /\ h.listed \in SUBSET Chats
  BY HomeFields, MoveFields, ListFields, ServedFields
<1>5. \A k \in g.moves : k = n \/ (k \in h.moves /\ k # m)
  BY <1>2
<1>6. n.ver <= t.ver /\ t.ver \in Nat
  BY <1>4
<1>7. Versions(g, t)
  <2>1. /\ h.ver <= s.ver /\ h.gone <= s.ver /\ h.cursor <= s.ver
        /\ \A r \in h.lists : r.ver <= s.ver
        /\ \A k \in h.moves : k.ver <= s.ver
    BY DEF Lasts, Stands, Versions
  <2>2. \A k \in h.moves : k.ver <= t.ver
    BY <1>4, <2>1
  <2>3. \A r \in h.lists : r.ver <= t.ver
    BY <1>4, <2>1
  <2>4. \A k \in g.moves : k.ver <= t.ver
    BY <1>5, <1>6, <2>2
  <2>5. h.ver <= t.ver /\ h.gone <= t.ver /\ h.cursor <= t.ver
    BY <1>4, <2>1
  <2>. QED  BY <1>2, <2>3, <2>4, <2>5 DEF Versions, SameView
<1>8. Moves(g, t)
  <2>1. SUFFICES ASSUME "moves" \notin h.upset
                 PROVE  Moves(g, t)
    BY <1>2 DEF Moves, SameView
  <2>2. \A k \in h.moves \ {m} : k.chat # m.chat /\ t.at[k.chat] = s.at[k.chat]
    BY <1>4, <2>1 DEF Lasts, Stands, Moves
  <2>3. \A k, l \in g.moves : k.chat = l.chat => k = l
    <3>1. \A k, l \in h.moves : k.chat = l.chat => k = l
      BY <2>1 DEF Lasts, Stands, Moves
    <3>2. n.chat = m.chat
      OBVIOUS
    <3>. QED  BY ONLY <1>5, <3>1, <3>2
  <2>4. \A r \in h.lists : ~(r.ver >= n.ver)
    BY <1>4 DEF Lasts, Stands, Versions
  <2>5. /\ n.kind = "create" => t.at[n.chat] = "active"
        /\ n.kind = "archive" => t.at[n.chat] = Lists!Other(n.mode)
        /\ n.ver # 0
    BY <1>4
  <2>6. g.lists = h.lists
    BY <1>2 DEF SameView
  <2>7. SUFFICES ASSUME NEW k \in g.moves
                 PROVE  /\ k.kind = "create" /\ k.ver = 0 => t.at[k.chat] = "nowhere"
                        /\ k.kind = "create" /\ k.ver # 0 =>
                              /\ t.at[k.chat] = "active"
                              /\ \A r \in g.lists :
                                    r.at = "answered" /\ r.kind # "page" /\ r.mode = "active"
                                       /\ r.ver >= k.ver => k.chat \in r.has
                        /\ k.kind = "archive" /\ k.ver = 0 => t.at[k.chat] = k.mode
                        /\ k.kind = "archive" /\ k.ver # 0 => t.at[k.chat] = Lists!Other(k.mode)
    BY <2>3 DEF Moves
  <2>8. CASE k = n
    BY <2>4, <2>5, <2>6, <2>8
  <2>9. CASE k \in h.moves \ {m}
    <3>1. t.at[k.chat] = s.at[k.chat] /\ k \in h.moves
      BY <2>2, <2>9
    <3>. QED  BY <2>1, <2>6, <3>1 DEF Lasts, Stands, Moves
  <2>. QED  BY <1>2, <2>8, <2>9
<1>9. Listing(g, t)
  <2>1. SUFFICES ASSUME "moves" \notin h.upset
                 PROVE  Listing(g, t)
    BY <1>2 DEF Listing, SameView
  <2>2. g.mode = h.mode /\ g.listed = h.listed /\ g.lists = h.lists /\ g.ver = h.ver /\ g.gone = h.gone
    BY <1>2 DEF SameView
  <2>3. \A c : Leaving(h, c) => Leaving(g, c)
    <3>1. SUFFICES ASSUME NEW c, NEW k \in h.moves, k.kind = "archive", k.chat = c, k.ver # 0,
                          k.mode = h.mode
                   PROVE  Leaving(g, c)
      BY DEF Leaving
    <3>2. k \in g.moves
      BY <1>2, <3>1
    <3>. QED  BY <2>2, <3>1, <3>2 DEF Leaving
  <2>4. ~Leaving(h, m.chat)
    BY <2>1 DEF Leaving, Lasts, Stands, Moves
  <2>5. s.at[m.chat] = (IF m.kind = "create" THEN "nowhere" ELSE m.mode)
    BY <1>4, <2>1 DEF Lasts, Stands, Moves
  <2>6. s.at[m.chat] = h.mode => Leaving(g, m.chat)
    <3>1. n \in g.moves
      BY <1>2
    <3>. QED  BY <1>4, <2>2, <2>5, <3>1 DEF Leaving, Lists!Modes
  <2>7. t.at[m.chat] = h.mode => s.at[m.chat] # h.mode
    BY <1>4, <2>5 DEF Lists!Modes, Lists!Other
  <2>8. \A c \in Chats : s.at[c] = h.mode \/ Leaving(h, c) => t.at[c] = g.mode \/ Leaving(g, c)
    BY <2>2, <2>3, <2>6
  <2>9. \A c \in h.listed : t.at[c] = h.mode => s.at[c] = h.mode
    <3>1. \A c \in h.listed : s.at[c] = h.mode \/ Leaving(h, c)
      BY <2>1 DEF Lasts, Stands, Listing
    <3>. QED  BY <1>4, <2>4, <2>7, <3>1
  <2>10. \A r \in h.lists : Answers(h, s, r) => Answers(g, t, r)
    <3>1. SUFFICES ASSUME NEW r \in h.lists, Answers(h, s, r)
                   PROVE  Answers(g, t, r)
      OBVIOUS
    <3>2. \A c \in r.has : t.at[c] = g.mode \/ Leaving(g, c)
      BY <1>4, <2>8, <3>1 DEF Answers
    <3>3. \A c \in g.listed : t.at[c] = g.mode => c \in r.has
      BY <2>2, <2>9, <3>1 DEF Answers
    <3>. QED  BY <2>2, <3>1, <3>2, <3>3 DEF Answers
  <2>11. \A c \in g.listed : t.at[c] = g.mode \/ Leaving(g, c)
    BY <1>4, <2>1, <2>2, <2>8 DEF Lasts, Stands, Listing
  <2>12. g.selected = "none" \/ g.selected \in g.listed \/ Leaving(g, g.selected)
    BY <1>2, <2>1, <2>2, <2>3 DEF Lasts, Stands, Listing, SameTalk
  <2>. QED  BY <1>3, <2>1, <2>2, <2>10, <2>11, <2>12 DEF Lasts, Stands, Listing
<1>10. Rests(g, h)
  BY <1>2 DEF Rests, SameView
<1>. QED  BY <1>2, <1>3, <1>7, <1>8, <1>9, <1>10 DEF Lasts, Stands

\* A peer creates a chat that nobody moves.
LEMMA CreatesKeep ==
    ASSUME HomeBounds, NEW h \in Lists!World, NEW s \in Served, Lasts(h, s),
           NEW c \in Chats, s.at[c] = "nowhere", \A m \in h.moves : m.chat # c,
           NEW t \in Served, t.ver = s.ver + 1,
           \A d \in Chats : d # c => t.at[d] = s.at[d]
    PROVE  Lasts(h, t)
<1>1. /\ s.ver \in Nat /\ h.mode \in Lists!Modes
      /\ \A k \in h.moves : k.chat \in Chats /\ k.ver \in Nat
      /\ \A r \in h.lists : r.ver \in Nat /\ r.has \in SUBSET Chats
      /\ h.ver \in Nat /\ h.gone \in Nat /\ h.cursor \in Nat /\ h.listed \in SUBSET Chats
  BY HomeFields, MoveFields, ListFields, ServedFields
<1>2. Versions(h, t)
  BY <1>1 DEF Lasts, Stands, Versions
<1>3. Moves(h, t)
  BY <1>1 DEF Lasts, Stands, Moves
<1>4. Listing(h, t)
  <2>1. SUFFICES ASSUME "moves" \notin h.upset
                 PROVE  Listing(h, t)
    BY DEF Listing
  <2>2. ~Leaving(h, c) /\ s.at[c] # h.mode
    BY <1>1 DEF Leaving, Lists!Modes
  <2>3. c \notin h.listed
    BY <2>1, <2>2 DEF Lasts, Stands, Listing
  <2>4. \A r \in h.lists : Answers(h, s, r) => Answers(h, t, r)
    <3>1. SUFFICES ASSUME NEW r \in h.lists, Answers(h, s, r)
                   PROVE  Answers(h, t, r)
      OBVIOUS
    <3>2. \A d \in r.has : t.at[d] = h.mode \/ Leaving(h, d)
      BY <1>1, <2>2, <3>1 DEF Answers
    <3>3. \A d \in h.listed : t.at[d] = h.mode => d \in r.has
      BY <1>1, <2>3, <3>1 DEF Answers
    <3>. QED  BY <3>1, <3>2, <3>3 DEF Answers
  <2>5. \A d \in h.listed : t.at[d] = h.mode \/ Leaving(h, d)
    BY <1>1, <2>1, <2>3 DEF Lasts, Stands, Listing
  <2>. QED  BY <2>1, <2>4, <2>5 DEF Lasts, Stands, Listing
<1>. QED  BY <1>2, <1>3, <1>4 DEF Lasts, Stands

\* The other mode is shown: its list is asked for, and nothing of this one stays.
ModeSet(h, mode) == [h EXCEPT !.mode = mode]
Emptied(h, mode) ==
    [h EXCEPT !.listed = {}, !.ver = 0, !.gone = 0, !.from = mode, !.cursor = 0, !.tail = 0,
              !.isLoading = TRUE, !.error = FALSE, !.snapLoading = FALSE, !.refreshGen = @ + 1]

\* The mode alone changes nothing of what was asked for.
LEMMA ModeSetIs ==
    ASSUME NEW h \in Lists!World, NEW mode \in Lists!Modes, NEW g, g = ModeSet(h, mode)
    PROVE  /\ g \in Lists!World /\ SameTalk(g, h) /\ g.mode = mode
           /\ g.lists = h.lists /\ g.moves = h.moves /\ g.upset = h.upset
           /\ g.refreshGen = h.refreshGen
<1>1. g \in Lists!World
  BY ZenonT(60) DEF ModeSet, Lists!World
<1>. QED  BY <1>1 DEF ModeSet, Lists!World, SameTalk

\* A list emptied is of its mode, and what was asked for is of the past.
LEMMA EmptiedIs ==
    ASSUME NEW h \in Lists!World, NEW mode \in Lists!Modes, NEW g, g = Emptied(h, mode)
    PROVE  /\ g \in Lists!World /\ SameTalk(g, h) /\ g.mode = h.mode /\ g.from = mode
           /\ g.lists = h.lists /\ g.moves = h.moves /\ g.upset = h.upset
           /\ g.refreshGen = h.refreshGen + 1 /\ ~g.snapLoading
           /\ g.listed = {} /\ g.ver = 0 /\ g.gone = 0 /\ g.cursor = 0 /\ g.tail = 0
<1>1. h.refreshGen + 1 \in Nat /\ {} \in SUBSET Chats /\ 0 \in Nat
  BY HomeFields
<1>2. g \in Lists!World
  BY ZenonT(60), <1>1, TRUE \in BOOLEAN, FALSE \in BOOLEAN DEF Emptied, Lists!World
<1>3. SameTalk(g, h)
  BY DEF Emptied, Lists!World, SameTalk
<1>4. /\ g.mode = h.mode /\ g.from = mode
      /\ g.lists = h.lists /\ g.moves = h.moves /\ g.upset = h.upset
  BY DEF Emptied, Lists!World
<1>5. /\ g.refreshGen = h.refreshGen + 1 /\ ~g.snapLoading
      /\ g.listed = {} /\ g.ver = 0 /\ g.gone = 0 /\ g.cursor = 0 /\ g.tail = 0
  BY DEF Emptied, Lists!World
<1>. QED  BY <1>2, <1>3, <1>4, <1>5

\* The mode changes, and what was under way is of the past.
LEMMA InModeKeeps ==
    ASSUME HomeBounds, NEW h \in Lists!World, NEW s \in Served, Talks(h), Lasts(h, s),
           "moves" \in h.upset \/ ~Lists!Fetching(h, {"recovery"}),
           NEW mode \in Lists!Modes, NEW g, g = Lists!InMode(h, mode)
    PROVE  g \in Lists!World /\ Talks(g) /\ Lasts(g, s) /\ Follows(g, h, s)
<1>1. CASE h.mode = mode
  <2>1. g = h
    BY <1>1 DEF Lists!InMode
  <2>. QED  BY <2>1, RestFollows DEF Rests
<1>2. CASE h.mode # mode
  <2>. DEFINE a == ModeSet(h, mode)
              b == Lists!Closed(a)
              c == Lists!WithoutPages(b)
              d == Emptied(c, mode)
              q == Query(d, "initial", d.refreshGen, 0)
  <2>1. g = Lists!Requested(d, "initial", d.refreshGen, 0)
    BY <1>2 DEF Lists!InMode, ModeSet, Emptied
  <2>2. /\ a \in Lists!World /\ SameTalk(a, h) /\ a.mode = mode
        /\ a.lists = h.lists /\ a.moves = h.moves /\ a.upset = h.upset
        /\ a.refreshGen = h.refreshGen
    BY ModeSetIs
  <2>3. b = Lists!Closed(a)
    OBVIOUS
  <2>4. c = Lists!WithoutPages(b)
    OBVIOUS
  <2>5. d = Emptied(c, mode)
    OBVIOUS
  <2>. HIDE DEF a, b, c, d
  <2>6. NoneAhead(h) /\ NoneAhead(a)
    BY <2>2 DEF NoneAhead, Lasts, Stands, Requested, SameTalk
  <2>7. Asking(a)
    BY <2>2, TalkLoses
  <2>8. /\ b \in Lists!World /\ SameList(b, a) /\ (a.established => b.established)
        /\ b.recoveryGen = a.recoveryGen + 1 /\ b.selected = "none" /\ Talks(b)
    BY <2>2, <2>3, <2>7, ClosedIs DEF Connects
  <2>9. /\ c \in Lists!World /\ SameTalk(c, b) /\ SameScreen(c, b)
        /\ c.lists = {r \in b.lists : r.kind # "page"} /\ c.upset = b.upset
    BY <2>4, <2>8, WithoutPagesIs
  <2>10. /\ d \in Lists!World /\ SameTalk(d, c) /\ d.mode = c.mode /\ d.from = mode
         /\ d.lists = c.lists /\ d.moves = c.moves /\ d.upset = c.upset
         /\ d.refreshGen = c.refreshGen + 1 /\ ~d.snapLoading
         /\ d.listed = {} /\ d.ver = 0 /\ d.gone = 0 /\ d.cursor = 0 /\ d.tail = 0
    BY <2>5, <2>9, EmptiedIs
  <2>11. d.refreshGen \in Nat /\ 0 \in 0 .. Retries /\ "initial" \in {"initial", "recovery", "refresh", "page"}
    BY <2>10, HomeFields DEF HomeBounds
  <2>12. Adds(g, d, q)
    BY ONLY <2>1, <2>10, <2>11, RequestedIs
  <2>13. /\ q \in Lists!List /\ q.kind = "initial" /\ q.gen = d.refreshGen
         /\ q.mode = d.mode /\ q.at = "sent" /\ q.ver = 0
    BY <2>10, <2>11, QueryFields
  <2>. HIDE DEF q
  <2>14. /\ g \in Lists!World /\ SameTalk(g, b)
         /\ g.mode = mode /\ g.from = mode /\ g.moves = h.moves /\ g.upset = h.upset
         /\ g.refreshGen = h.refreshGen + 1 /\ ~g.snapLoading
         /\ g.listed = {} /\ g.ver = 0 /\ g.gone = 0 /\ g.cursor = 0 /\ g.tail = 0
         /\ g.lists = {r \in h.lists : r.kind # "page"} \cup {q}
    <3>1. SameTalk(g, b)
      BY <2>9, <2>10, <2>12 DEF Adds, SameTalk
    <3>2. /\ g \in Lists!World /\ SameScreen(g, d) /\ g.upset = d.upset /\ g.lists = d.lists \cup {q}
      BY <2>12 DEF Adds
    <3>3. d.lists = {r \in h.lists : r.kind # "page"}
      BY <2>2, <2>8, <2>9, <2>10 DEF SameList
    <3>4. /\ d.mode = mode /\ d.moves = h.moves /\ d.upset = h.upset
          /\ d.refreshGen = h.refreshGen + 1
      BY <2>2, <2>8, <2>9, <2>10 DEF SameList, SameScreen
    <3>. QED  BY <2>10, <3>1, <3>2, <3>3, <3>4 DEF SameScreen
  <2>15. /\ g.recoveryGen = h.recoveryGen + 1 /\ g.selected = "none"
         /\ h.established => g.established
    BY <2>2, <2>8, <2>14 DEF SameTalk
  <2>16. Lists!Fetching(g, {"recovery"}) <=> Lists!Fetching(b, {"recovery"})
    <3>1. b.lists = h.lists
      BY <2>2, <2>8 DEF SameList
    <3>. QED  BY <2>13, <2>14, <3>1 DEF Lists!Fetching, SameTalk
  <2>17. Talks(g)
    <3>1. g.upset = b.upset
      BY <2>2, <2>8, <2>14 DEF SameList
    <3>. QED  BY <2>8, <2>14, <2>16, <3>1, TalkRests DEF Remembers
  <2>18. /\ h.recoveryGen \in Nat /\ \A r \in h.lists : r.gen \in Nat
    BY HomeFields, ListFields
  <2>19. /\ h.recoveryGen <= g.recoveryGen
         /\ \A r \in h.lists : r.kind = "recovery" => r.gen # g.recoveryGen
    BY <2>6, <2>15, <2>18 DEF NoneAhead
  <2>20. q.mode = g.mode /\ q.kind = "initial" /\ q.gen = g.refreshGen /\ Present(g, q)
    <3>1. d.mode = g.mode /\ d.refreshGen = g.refreshGen
      BY <2>12 DEF Adds, SameScreen
    <3>. QED  BY <2>13, <3>1 DEF Present
  <2>21. Stands(h, s)
    BY DEF Lasts
  <2>22. q.kind # "page" /\ (q.kind = "recovery" => g.established)
         /\ (q.kind = "initial" => g.cursor = 0 /\ ~g.snapLoading)
         /\ (q.kind # "initial" => g.snapLoading)
    BY <2>13, <2>14
  <2>23. Lasts(g, s)
    BY ONLY h \in Lists!World, s \in Served, <2>13, <2>14, <2>15, <2>19, <2>20, <2>21, <2>22,
            BeginsKeeps DEF Remembers
  <2>24. Follows(g, h, s)
    <3>1. \A r \in h.lists : r.kind # "recovery" => r.gen <= h.refreshGen
      BY DEF Lasts, Stands, Requested
    <3>2. h.refreshGen \in Nat
      BY HomeFields
    <3>3. q \in g.lists /\ q \notin h.lists /\ g.mode # h.mode
      BY <1>2, <2>14, <2>20, <3>1, <3>2
    <3>. QED  BY <3>3, AskingFollows
  <2>. QED  BY <2>14, <2>17, <2>23, <2>24
<1>. QED  BY <1>1, <1>2

\* A move that is not answered is forgotten.
LEMMA ForgetsKeep ==
    ASSUME NEW h \in Lists!World, NEW s, Talks(h), Lasts(h, s),
           NEW m \in h.moves, m.ver = 0 \/ m.kind = "create" \/ m.mode # h.mode,
           NEW g, g = MovesSet(h, h.moves \ {m})
    PROVE  /\ g \in Lists!World /\ Talks(g) /\ Lasts(g, s)
           /\ SameTalk(g, h) /\ SameView(g, h) /\ g.moves = h.moves \ {m}
<1>1. h.moves \ {m} \in SUBSET Lists!Move
  BY HomeFields
<1>2. g \in Lists!World /\ SameTalk(g, h) /\ SameView(g, h) /\ g.moves = h.moves \ {m}
  BY <1>1, MovesSetIs
<1>3. /\ Talks(g) /\ Requested(g) /\ Single(g) /\ Loading(g)
      /\ \A p : Present(g, p) <=> Present(h, p)
  BY <1>2, ViewRests
<1>4. Versions(g, s) /\ Moves(g, s)
  BY <1>2 DEF Lasts, Stands, Versions, Moves, SameView
<1>5. Listing(g, s)
  <2>1. \A c : Leaving(h, c) <=> Leaving(g, c)
    BY <1>2 DEF Leaving, SameView
  <2>2. \A r : Answers(h, s, r) => Answers(g, s, r)
    BY <1>2, <2>1 DEF Answers, SameView
  <2>. QED  BY <1>2, <1>3, <2>1, <2>2 DEF Lasts, Stands, Listing, SameView, SameTalk
<1>. QED  BY <1>2, <1>3, <1>4, <1>5 DEF Lasts, Stands

\* What was archived is taken out of the list, with what was under way.
TakenOut(h, L, ver) ==
    [h EXCEPT !.refreshGen = @ + 1, !.listed = L, !.gone = ver,
              !.snapLoading = FALSE, !.isLoading = FALSE]

\* Taking chats out changes nothing of what was asked for.
LEMMA TakenOutIs ==
    ASSUME NEW h \in Lists!World, NEW L \in SUBSET Chats, NEW ver \in Nat,
           NEW g, g = TakenOut(h, L, ver)
    PROVE  /\ g \in Lists!World /\ SameTalk(g, h) /\ g.mode = h.mode /\ g.from = h.from
           /\ g.lists = h.lists /\ g.moves = h.moves /\ g.upset = h.upset
           /\ g.refreshGen = h.refreshGen + 1 /\ ~g.snapLoading /\ ~g.isLoading
           /\ g.listed = L /\ g.ver = h.ver /\ g.gone = ver /\ g.cursor = h.cursor /\ g.tail = h.tail
<1>1. h.refreshGen + 1 \in Nat
  BY HomeFields
<1>2. g \in Lists!World
  BY ZenonT(60), <1>1, FALSE \in BOOLEAN DEF TakenOut, Lists!World
<1>3. SameTalk(g, h)
  BY DEF TakenOut, Lists!World, SameTalk
<1>4. /\ g.mode = h.mode /\ g.from = h.from
      /\ g.lists = h.lists /\ g.moves = h.moves /\ g.upset = h.upset
  BY DEF TakenOut, Lists!World
<1>5. /\ g.refreshGen = h.refreshGen + 1 /\ ~g.snapLoading /\ ~g.isLoading
      /\ g.listed = L /\ g.ver = h.ver /\ g.gone = ver /\ g.cursor = h.cursor /\ g.tail = h.tail
  BY DEF TakenOut, Lists!World
<1>. QED  BY <1>2, <1>3, <1>4, <1>5

\* The chat that left is shown no more, nor selected.
LEMMA TakesOutKeeps ==
    ASSUME NEW h \in Lists!World, NEW s \in Served, Stands(h, s),
           NEW m \in h.moves, m.ver # 0, m.kind = "archive", m.mode = h.mode,
           NEW g \in Lists!World, Remembers(g, h), g.mode = h.mode, g.from = h.from,
           h.established => g.established, h.recoveryGen <= g.recoveryGen,
           "moves" \in g.upset \/ \A r \in h.lists : r.kind = "recovery" => r.gen # g.recoveryGen,
           g.lists = {r \in h.lists : r.kind # "page"}, g.moves = h.moves \ {m},
           g.refreshGen = h.refreshGen + 1, ~g.snapLoading, ~g.isLoading,
           g.listed = h.listed \ {m.chat}, g.ver = h.ver, g.gone = m.ver,
           g.cursor = h.cursor, g.tail = h.tail,
           g.selected = "none" \/ (g.selected = h.selected /\ h.selected # m.chat)
    PROVE  Lasts(g, s)
<1>1. /\ h.recoveryGen \in Nat /\ h.refreshGen \in Nat /\ g.recoveryGen \in Nat
      /\ \A r \in h.lists : r.gen \in Nat
  BY HomeFields, ListFields
<1>2. \A r \in h.lists : /\ r.kind = "recovery" => r.gen <= h.recoveryGen
                         /\ r.kind # "recovery" => r.gen < g.refreshGen
  BY <1>1 DEF Stands, Requested
<1>3. \A r \in g.lists : Present(g, r) => r.kind = "recovery"
  BY <1>1, <1>2 DEF Present
<1>4. "moves" \notin g.upset => \A r \in g.lists : ~Present(g, r)
  BY <1>3 DEF Present
<1>5. Requested(g)
  <2>1. \A r \in g.lists : Present(g, r) => r.mode = g.mode
    <3>1. SUFFICES ASSUME NEW r \in g.lists, Present(g, r)
                   PROVE  r.mode = g.mode
      OBVIOUS
    <3>2. r \in h.lists /\ r.kind = "recovery" /\ r.gen = g.recoveryGen
      BY <1>3, <3>1 DEF Present
    <3>3. g.recoveryGen = h.recoveryGen
      BY <1>1, <1>2, <3>2
    <3>. QED  BY <3>2, <3>3 DEF Stands, Requested, Present
  <2>2. \A r \in g.lists : /\ r.kind = "recovery" => r.gen <= g.recoveryGen /\ g.established
                           /\ r.kind # "recovery" => r.gen <= g.refreshGen
                           /\ r.at = "timer" => r.kind # "page" /\ r.left < Retries
    BY <1>1, <1>2 DEF Stands, Requested
  <2>. QED  BY <2>1, <2>2 DEF Stands, Requested
<1>6. Single(g)
  BY <1>4 DEF Stands, Single, Remembers
<1>7. Versions(g, s) /\ Moves(g, s)
  BY DEF Stands, Versions, Moves, Remembers
<1>8. Listing(g, s)
  <2>1. SUFFICES ASSUME "moves" \notin g.upset
                 PROVE  Listing(g, s)
    BY DEF Listing
  <2>2. \A c : c # m.chat /\ Leaving(h, c) => Leaving(g, c)
    BY DEF Leaving
  <2>. QED  BY <1>4, <2>1, <2>2 DEF Stands, Listing, Remembers
<1>9. Loading(g)
  BY DEF Loading
<1>. QED  BY <1>5, <1>6, <1>7, <1>8, <1>9 DEF Lasts, Stands

\* The chat the user archived has left.
LEMMA ArchivedKeeps ==
    ASSUME HomeBounds, NEW h \in Lists!World, NEW s \in Served, Talks(h), Lasts(h, s),
           NEW m \in h.moves, m.ver # 0, m.kind = "archive",
           NEW k, k = MovesSet(h, h.moves \ {m}),
           NEW g, g = Lists!Archived(Lists!Moving(k), m)
    PROVE  g \in Lists!World /\ Talks(g) /\ Lasts(g, s) /\ Follows(g, h, s)
<1>. DEFINE d == Lists!Moving(k)
            e == IF d.selected = m.chat THEN Lists!Closed(d) ELSE d
<1>1. h.moves \ {m} \in SUBSET Lists!Move /\ m \in Lists!Move
  BY HomeFields
<1>2. k \in Lists!World /\ SameTalk(k, h) /\ SameView(k, h) /\ k.moves = h.moves \ {m}
  BY <1>1, MovesSetIs
<1>3. Talks(k) /\ Requested(k)
  BY <1>2, ViewRests
<1>4. /\ d \in Lists!World /\ SameTalk(d, k) /\ SameScreen(d, k) /\ d.lists = k.lists
      /\ Remembers(d, k) /\ Talks(d)
      /\ "moves" \in d.upset \/ ~Lists!Fetching(d, {"recovery"})
  BY <1>2, <1>3, MovingIs
<1>5. d = Lists!Moving(k)
  OBVIOUS
<1>6. e = IF d.selected = m.chat THEN Lists!Closed(d) ELSE d
  OBVIOUS
<1>7. g = IF d.mode # m.mode THEN Lists!Refreshed(e)
          ELSE TakenOut(Lists!WithoutPages(e), Lists!WithoutPages(e).listed \ {m.chat}, m.ver)
  BY DEF Lists!Archived, TakenOut
<1>. HIDE DEF d, e
<1>8. CASE d.mode # m.mode
  <2>1. m.mode # h.mode
    BY <1>2, <1>4, <1>8 DEF SameScreen, SameView
  <2>2. Lasts(k, s)
    BY <2>1, ForgetsKeep
  <2>3. Lasts(d, s)
    BY <1>2, <1>3, <1>5, <2>2, MovingKeeps
  <2>4. /\ e \in Lists!World /\ Talks(e) /\ Lasts(e, s)
        /\ "moves" \in e.upset \/ ~Lists!Fetching(e, {"recovery"})
        /\ SameList(e, d)
    BY <1>4, <1>6, <2>3, ClosesKeep DEF SameList
  <2>5. g = Lists!Refreshed(e)
    BY <1>7, <1>8
  <2>6. /\ g \in Lists!World /\ Talks(g) /\ Lasts(g, s) /\ g.ver = e.ver
        /\ \E q \in g.lists : q \notin e.lists
    BY <2>4, <2>5, RefreshesKeep DEF Lasts
  <2>7. g.ver = h.ver /\ e.lists = h.lists
    BY <1>2, <1>4, <2>4, <2>6 DEF SameList, SameScreen, SameView
  <2>. QED  BY <2>6, <2>7, AskingFollows
<1>9. CASE d.mode = m.mode
  <2>. DEFINE c == Lists!WithoutPages(e)
  <2>2. /\ e \in Lists!World /\ SameList(e, d) /\ (d.established => e.established) /\ Talks(e)
        /\ \/ e.recoveryGen = d.recoveryGen /\ e.selected = d.selected /\ d.selected # m.chat
           \/ e.recoveryGen = d.recoveryGen + 1 /\ e.selected = "none"
    <3>1. CASE d.selected = m.chat
      <4>1. e = Lists!Closed(d)
        BY <1>6, <3>1
      <4>2. /\ Connects(e, d) /\ e.recoveryGen = d.recoveryGen + 1
            /\ e.selected = "none" /\ Talks(e)
        BY <1>4, <4>1, ClosedIs DEF Talks
      <4>. QED  BY <4>2 DEF Connects
    <3>2. CASE d.selected # m.chat
      <4>1. e = d
        BY <1>6, <3>2
      <4>. QED  BY <1>4, <3>2, <4>1 DEF SameList
    <3>. QED  BY <3>1, <3>2
  <2>3. /\ c \in Lists!World /\ SameTalk(c, e) /\ SameScreen(c, e)
        /\ c.lists = {r \in e.lists : r.kind # "page"} /\ c.upset = e.upset
    BY <2>2, WithoutPagesIs
  <2>4. g = TakenOut(c, c.listed \ {m.chat}, m.ver)
    BY <1>7, <1>9
  <2>. HIDE DEF c
  <2>. DEFINE L == c.listed \ {m.chat}
  <2>5. L \in SUBSET Chats /\ m.ver \in Nat
    BY <1>1, <2>3, HomeFields, MoveFields
  <2>6. L = c.listed \ {m.chat} /\ g = TakenOut(c, L, m.ver)
    BY <2>4
  <2>. HIDE DEF L
  <2>7. /\ g \in Lists!World /\ SameTalk(g, c) /\ g.mode = c.mode /\ g.from = c.from
        /\ g.lists = c.lists /\ g.moves = c.moves /\ g.upset = c.upset
        /\ g.refreshGen = c.refreshGen + 1 /\ ~g.snapLoading /\ ~g.isLoading
        /\ g.listed = L /\ g.ver = c.ver /\ g.gone = m.ver
        /\ g.cursor = c.cursor /\ g.tail = c.tail
    <3>1. c \in Lists!World /\ g = TakenOut(c, L, m.ver)
      BY <2>3, <2>6
    <3>. QED  BY ONLY <2>5, <3>1, TakenOutIs
  <2>8. /\ d.mode = h.mode /\ d.from = h.from /\ d.moves = h.moves \ {m}
         /\ d.refreshGen = h.refreshGen /\ d.listed = h.listed /\ d.ver = h.ver
         /\ d.cursor = h.cursor /\ d.tail = h.tail /\ d.lists = h.lists
    BY <1>2, <1>4 DEF SameView, SameScreen
  <2>9. /\ c.mode = d.mode /\ c.from = d.from /\ c.moves = d.moves
         /\ c.refreshGen = d.refreshGen /\ c.listed = d.listed /\ c.ver = d.ver
         /\ c.cursor = d.cursor /\ c.tail = d.tail /\ e.lists = d.lists
    BY <2>2, <2>3 DEF SameList, SameScreen
  <2>10. SameTalk(g, e) /\ g.upset = d.upset
    BY <2>2, <2>3, <2>7 DEF SameTalk, SameList
  <2>11. g.lists = {r \in h.lists : r.kind # "page"}
    BY <2>3, <2>7, <2>8, <2>9
  <2>12. /\ g.mode = h.mode /\ g.from = h.from /\ g.moves = h.moves \ {m}
        /\ g.refreshGen = h.refreshGen + 1
        /\ g.listed = h.listed \ {m.chat} /\ g.ver = h.ver
        /\ g.cursor = h.cursor /\ g.tail = h.tail
    BY <2>7, <2>6, <2>8, <2>9
  <2>13. /\ Remembers(g, h) /\ (h.established => g.established)
         /\ g.recoveryGen \in {h.recoveryGen, h.recoveryGen + 1}
         /\ g.selected = "none" \/ (g.selected = h.selected /\ h.selected # m.chat)
    <3>1. Remembers(g, h)
      BY <1>2, <1>4, <2>10 DEF Remembers, SameView
    <3>. QED  BY <1>2, <1>4, <2>2, <2>10, <3>1 DEF SameTalk
  <2>14. Lists!Fetching(g, {"recovery"}) <=> Lists!Fetching(e, {"recovery"})
    <3>1. e.lists = h.lists
      BY <1>2, <1>4, <2>2 DEF SameList, SameView
    <3>. QED  BY <2>10, <2>11, <3>1 DEF Lists!Fetching, SameTalk
  <2>15. Talks(g)
    <3>1. Remembers(g, e)
      BY <2>2, <2>10 DEF Remembers, SameList
    <3>. QED  BY <2>2, <2>7, <2>10, <2>14, <3>1, TalkRests
  <2>16. h.recoveryGen \in Nat /\ \A r \in h.lists : r.gen \in Nat
    BY HomeFields, ListFields
  <2>17. "moves" \in g.upset \/ \A r \in h.lists : r.kind = "recovery" => r.gen # g.recoveryGen
    <3>1. \A r \in h.lists : r.kind = "recovery" => r.gen <= h.recoveryGen
      BY DEF Lasts, Stands, Requested
    <3>2. d.lists = h.lists /\ d.recoveryGen = h.recoveryGen
      BY <1>2, <1>4 DEF SameView, SameTalk
    <3>3. "moves" \in g.upset \/ \A r \in h.lists : r.kind = "recovery" => r.gen # h.recoveryGen
      BY <1>4, <2>10, <3>2 DEF Lists!Fetching
    <3>. QED  BY <2>13, <2>16, <3>1, <3>3
  <2>18. h.recoveryGen <= g.recoveryGen /\ m.mode = h.mode /\ Stands(h, s)
    BY <1>9, <2>13, <2>16, <1>2, <1>4 DEF SameScreen, SameView, Lasts
  <2>19. Lasts(g, s)
    BY ONLY h \in Lists!World, s \in Served, m \in h.moves, m.ver # 0, m.kind = "archive",
            <2>7, <2>11, <2>12, <2>13, <2>17, <2>18, TakesOutKeeps
  <2>20. Follows(g, h, s)
    <3>1. SUFFICES ASSUME "moves" \notin g.upset, h.selected # "none",
                          s.at[h.selected] = h.mode
                   PROVE  g.selected = h.selected
      BY <2>12 DEF Follows
    <3>2. "moves" \notin h.upset
      BY <2>13, <3>1 DEF Remembers
    <3>3. s.at[m.chat] = Lists!Other(h.mode)
      BY <2>18, <3>2 DEF Lasts, Stands, Moves
    <3>4. h.selected # m.chat
      BY <3>1, <3>3 DEF Lists!Other
    <3>5. d.selected = h.selected
      BY <1>2, <1>4 DEF SameTalk
    <3>. QED  BY <1>6, <2>10, <3>4, <3>5 DEF SameTalk
  <2>. QED  BY <2>7, <2>15, <2>19, <2>20
<1>. QED  BY <1>8, <1>9

\* The chat the user started is listed, and every list of the present has it.
ListedToo(h, L) == [h EXCEPT !.listed = L]

\* Listing it keeps the invariant.
LEMMA ListedTooKeeps ==
    ASSUME NEW h \in Lists!World, NEW s \in Served, Talks(h), Lasts(h, s), NEW c \in Chats,
           "moves" \notin h.upset =>
              /\ s.at[c] = h.mode
              /\ \A r \in h.lists : Present(h, r) /\ r.kind # "page" /\ r.at = "answered"
                                       => c \in r.has,
           NEW g, g = ListedToo(h, h.listed \cup {c})
    PROVE  /\ g \in Lists!World /\ Talks(g) /\ Lasts(g, s)
           /\ c \in g.listed /\ g.ver = h.ver /\ g.lists = h.lists
<1>1. h.listed \cup {c} \in SUBSET Chats
  BY HomeFields
<1>2. g \in Lists!World
  BY ZenonT(60), <1>1 DEF ListedToo, Lists!World
<1>3. SameTalk(g, h)
  BY DEF ListedToo, Lists!World, SameTalk
<1>4. /\ g.refreshGen = h.refreshGen /\ g.mode = h.mode /\ g.from = h.from
      /\ g.isLoading = h.isLoading /\ g.snapLoading = h.snapLoading
      /\ g.listed = h.listed \cup {c} /\ g.ver = h.ver /\ g.gone = h.gone
      /\ g.cursor = h.cursor /\ g.tail = h.tail
      /\ g.lists = h.lists /\ g.upset = h.upset /\ g.moves = h.moves
  BY DEF ListedToo, Lists!World
<1>5. Remembers(g, h) /\ (Lists!Fetching(g, {"recovery"}) <=> Lists!Fetching(h, {"recovery"}))
  BY <1>3, <1>4 DEF Remembers, Lists!Fetching, SameTalk
<1>6. Talks(g)
  BY <1>2, <1>3, <1>5, TalkRests
<1>7. \A p : Present(g, p) <=> Present(h, p)
  BY <1>3, <1>4 DEF Present, SameTalk
<1>8. Requested(g)
  BY <1>3, <1>4, <1>7 DEF Lasts, Stands, Requested, SameTalk
<1>9. Single(g)
  BY <1>4, <1>7 DEF Lasts, Stands, Single
<1>10. Versions(g, s) /\ Moves(g, s)
  BY <1>4 DEF Lasts, Stands, Versions, Moves
<1>11. Listing(g, s)
  <2>1. \A k : Leaving(h, k) <=> Leaving(g, k)
    BY <1>4 DEF Leaving
  <2>2. SUFFICES ASSUME "moves" \notin h.upset
                 PROVE  Listing(g, s)
    BY <1>4 DEF Listing
  <2>3. \A r : Answers(h, s, r) /\ c \in r.has => Answers(g, s, r)
    BY <1>4, <2>1 DEF Answers
  <2>. QED  BY <1>3, <1>4, <1>7, <2>1, <2>2, <2>3 DEF Lasts, Stands, Listing, SameTalk
<1>12. Loading(g)
  <2>1. \A kinds : Lists!Fetching(g, kinds) <=> Lists!Fetching(h, kinds)
    BY <1>3, <1>4 DEF Lists!Fetching, SameTalk
  <2>. QED  BY <1>3, <1>4, <2>1 DEF Lasts, Loading, SameTalk, Lists!IsOpen
<1>. QED  BY <1>2, <1>4, <1>6, <1>8, <1>9, <1>10, <1>11, <1>12 DEF Lasts, Stands

\* A chat that was created is listed and selected.
LEMMA CreatedKeeps ==
    ASSUME HomeBounds, NEW h \in Lists!World, NEW s \in Served, Talks(h), Lasts(h, s),
           NEW m \in h.moves, m.ver # 0, m.kind = "create",
           NEW els \in BOOLEAN,
           ~els => h.mode = "active" /\ \A r \in h.lists : r.at # "sent" => r.ver >= m.ver,
           NEW k, k = MovesSet(h, h.moves \ {m}),
           NEW n, n = Lists!Noted(k, "moves", els),
           NEW g, g = Lists!Selected(ListedToo(n, n.listed \cup {m.chat}), m.chat)
    PROVE  g \in Lists!World /\ Talks(g) /\ Lasts(g, s) /\ Rests(g, h)
<1>. DEFINE l == ListedToo(n, n.listed \cup {m.chat})
<1>1. m.chat \in Chats
  BY HomeFields, MoveFields
<1>2. /\ k \in Lists!World /\ Talks(k) /\ Lasts(k, s)
      /\ SameTalk(k, h) /\ SameView(k, h)
  BY ForgetsKeep
<1>3. /\ n \in Lists!World /\ SameTalk(n, k) /\ SameScreen(n, k) /\ n.lists = k.lists
      /\ n.upset = k.upset \cup (IF els THEN {"moves"} ELSE {})
      /\ Talks(n) /\ Lasts(n, s)
  <2>1. "moves" \in Lists!Notes
    BY DEF Lists!Notes
  <2>. QED  BY ONLY <1>2, <2>1, els \in BOOLEAN, n = Lists!Noted(k, "moves", els), NotedKeeps
<1>4. "moves" \notin n.upset =>
         /\ s.at[m.chat] = n.mode
         /\ \A r \in n.lists : Present(n, r) /\ r.kind # "page" /\ r.at = "answered"
                                  => m.chat \in r.has
  <2>1. SUFFICES ASSUME "moves" \notin n.upset
                 PROVE  /\ s.at[m.chat] = n.mode
                        /\ \A r \in n.lists : Present(n, r) /\ r.kind # "page" /\ r.at = "answered"
                                                 => m.chat \in r.has
    OBVIOUS
  <2>2. ~els /\ "moves" \notin h.upset
    BY <1>2, <1>3, <2>1 DEF SameView
  <2>3. n.lists = h.lists /\ n.mode = h.mode /\ n.refreshGen = h.refreshGen
        /\ n.recoveryGen = h.recoveryGen
    BY <1>2, <1>3 DEF SameView, SameScreen, SameTalk
  <2>4. \A r \in h.lists : Present(n, r) => r.mode = h.mode
    BY <2>3 DEF Lasts, Stands, Requested, Present
  <2>. QED  BY <2>2, <2>3, <2>4 DEF Lasts, Stands, Moves
<1>. HIDE DEF l
<1>5. /\ l \in Lists!World /\ Talks(l) /\ Lasts(l, s) /\ m.chat \in l.listed
      /\ l.ver = n.ver /\ l.lists = n.lists
  <2>1. l = ListedToo(n, n.listed \cup {m.chat})
    BY DEF l
  <2>. QED  BY ONLY <1>1, <1>3, <1>4, s \in Served, <2>1, ListedTooKeeps
<1>6. g = Lists!Selected(l, m.chat)
  BY DEF l
<1>7. g \in Lists!World /\ Talks(g) /\ Lasts(g, s) /\ g.ver = l.ver /\ g.lists = l.lists
  BY <1>5, <1>6, SelectKeeps
<1>8. Rests(g, h)
  BY <1>2, <1>3, <1>5, <1>7 DEF Rests, SameScreen, SameView
<1>. QED  BY <1>7, <1>8

-----------------------------------------------------------------------------
(* Every action of HomeSync.                                                *)

Here == home \in Lists!World /\ chats \in Served /\ Talks(home) /\ Lasts(home, chats)

\* The step is one that NewestListWins allows.
Onward == Follows(home', home, chats)

\* Such a step is what NewestListWins says.
LEMMA OnwardWins ==
    ASSUME Onward
    PROVE  Lists!NewestListWins /\ Lists!StartedStaysOpen
  BY DEF Onward, Follows, Lists!NewestListWins, Lists!StartedStaysOpen

\* The requests of the list keep the invariant.
LEMMA ServerListsKeeps ==
    ASSUME Here, NEW r \in home.lists, Lists!ServerLists(r)
    PROVE  Here' /\ Onward
<1>. DEFINE ver == IF r.kind = "page" THEN r.ver ELSE chats.ver
            has == {c \in Chats : chats.at[c] = r.mode}
            q == Answer(r, has, ver)
            k == Lists!Without(home, r)
<1>1. r \in Lists!List /\ has \in SUBSET Chats /\ ver \in Nat
  BY HomeFields, ListFields, ServedFields DEF Here
<1>2. /\ q \in Lists!List /\ q.kind = r.kind /\ q.gen = r.gen /\ q.mode = r.mode
      /\ q.at = "answered" /\ q.ver = ver /\ q.has = has
  <2>1. q = Answer(r, has, ver)
    OBVIOUS
  <2>. HIDE DEF q, has, ver
  <2>. QED  BY ONLY <1>1, <2>1, AnswerIs
<1>3. Gives(chats, r, q)
  BY <1>2 DEF Gives
<1>4. home' = [k EXCEPT !.lists = @ \cup {q}]
  BY DEF Lists!ServerLists, Answer
<1>5. r.at = "sent" /\ chats' = chats
  BY DEF Lists!ServerLists
<1>. HIDE DEF q, k
<1>6. home' = [k EXCEPT !.lists = k.lists \cup {q}] /\ r.at = "sent" /\ chats' = chats
  BY <1>4, <1>5
<1>7. k = Lists!Without(home, r)
  BY DEF k
<1>8. home' \in Lists!World /\ Talks(home') /\ Lasts(home', chats) /\ Rests(home', home)
  BY <1>2, <1>3, <1>6, <1>7, ListsKeeps DEF Here
<1>. QED  BY <1>6, <1>8, RestFollows DEF Here, Onward

\* An answer, a failure and a retry of a list keep it.
LEMMA ListStepsKeep ==
    ASSUME HomeBounds, Here, NEW r \in home.lists,
           Lists!ListCame(r) \/ Lists!ListFailed(r) \/ Lists!TimerFires(r)
    PROVE  Here' /\ Onward
<1>1. CASE Lists!ListCame(r)
  BY <1>1, CameKeeps DEF Here, Onward, Lists!ListCame
<1>2. CASE Lists!ListFailed(r)
  BY <1>2, FailedKeeps, RestFollows DEF Here, Onward, Lists!ListFailed
<1>3. CASE Lists!TimerFires(r)
  BY <1>3, FiresKeeps, RestFollows DEF Here, Onward, Lists!TimerFires
<1>. QED  BY <1>1, <1>2, <1>3

\* The connection keeps it.
LEMMA OpeningKeeps ==
    ASSUME HomeBounds, Here, Lists!Connect \/ Lists!Opens \/ Lists!Drop \/ Lists!PresenceSnapshot
    PROVE  Here' /\ Onward
<1>1. CASE Lists!Connect
  BY <1>1, ConnectKeeps, RestFollows DEF Here, Onward, Lists!Connect, Lists!IsOpen
<1>2. CASE Lists!Opens
  <2>. DEFINE behind == home.selected # "none"
              x == Opening(home, behind)
  <2>1. home' = OpenedFrom(x) /\ chats' = chats
    BY <1>2 DEF Lists!Opens, OpenedFrom, Opening
  <2>2. behind \in BOOLEAN
    OBVIOUS
  <2>3. x = Opening(home, behind)
    OBVIOUS
  <2>. HIDE DEF x, behind
  <2>4. /\ x \in Lists!World /\ SameList(x, home) /\ x.initial = home.initial
        /\ x.state = "recovering" /\ x.awaited = 0
        /\ x.established = home.established /\ x.recoveryGen = home.recoveryGen /\ ~x.snapshot
        /\ x.selected = home.selected /\ x.saved = home.saved /\ x.behind = behind
        /\ x.ask = home.ask /\ x.lastID = home.lastID /\ x.asks = {}
    <3>1. home \in Lists!World
      BY DEF Here
    <3>. QED  BY ONLY <2>2, <2>3, <3>1, OpenIs
  <2>5. x.behind = (home.selected # "none")
    BY <2>4 DEF behind
  <2>6. home' \in Lists!World /\ Talks(home') /\ Lasts(home', chats) /\ Rests(home', home)
    BY <2>1, <2>4, <2>5, OpensKeeps DEF Here
  <2>. QED  BY <2>1, <2>6, RestFollows DEF Here, Onward
<1>3. CASE Lists!Drop
  BY <1>3, DropKeeps, RestFollows DEF Here, Onward, Lists!Drop
<1>4. CASE Lists!PresenceSnapshot
  <2>. DEFINE b == home.initial # "ready" /\ home.behind
              k == Lists!Noted(home, "early", b)
              l == [k EXCEPT !.snapshot = TRUE]
  <2>1. b \in BOOLEAN
    BY HomeFields DEF Here
  <2>2. home' = Lists!Completed(l) /\ chats' = chats
    BY <1>4 DEF Lists!PresenceSnapshot
  <2>. HIDE DEF b
  <2>3. /\ k \in Lists!World /\ SameTalk(k, home) /\ SameScreen(k, home) /\ k.lists = home.lists
        /\ k.upset = home.upset \cup (IF b THEN {"early"} ELSE {})
        /\ Talks(k) /\ Lasts(k, chats)
    <3>1. "early" \in Lists!Notes
      BY DEF Lists!Notes
    <3>. QED  BY <2>1, <3>1, NotedKeeps DEF Here
  <2>. HIDE DEF k
  <2>4. "early" \in k.upset \/ k.initial = "ready" \/ ~k.behind
    BY <2>3 DEF SameTalk, b
  <2>5. home' \in Lists!World /\ Talks(home') /\ Lasts(home', chats) /\ Rests(home', k)
    BY <2>2, <2>3, <2>4, SnapshotKeeps
  <2>6. Onward
    BY <2>3, <2>5, RestFollows DEF Onward, Rests, SameTalk, SameScreen
  <2>. QED  BY <2>2, <2>5, <2>6 DEF Here
<1>. QED  BY <1>1, <1>2, <1>3, <1>4

\* A reconciliation answered, in pages or not at all, keeps it.
LEMMA ReconcilesKeep ==
    ASSUME HomeBounds, Here, NEW ask \in home.asks,
           Lists!Reconciled(ask) \/ Lists!PageReconciled(ask) \/ Lists!ReconcileRejected(ask)
    PROVE  Here' /\ Onward
<1>. DEFINE S == home.asks \ {ask}
            d == Replied(home, S)
<1>1. S \in SUBSET Lists!Ask
  BY HomeFields DEF Here
<1>2. CASE Lists!Reconciled(ask)
  <2>. DEFINE a == Lists!Applied(d, ask)
  <2>1. /\ home' = (IF ask.id = a.awaited THEN Lists!Finish(a) ELSE a)
        /\ chats' = chats /\ Lists!IsOpen(home)
    BY <1>2 DEF Lists!Reconciled, Replied
  <2>2. Replies(d, home, S)
    BY <1>1, RepliedIs DEF Here
  <2>. HIDE DEF d
  <2>3. d.ask = home.ask /\ d.recoveryGen = home.recoveryGen /\ d.selected = home.selected
    BY <2>2 DEF Replies
  <2>4. \/ a = d
        \/ home.ask.id = ask.id /\ \E behind \in {FALSE, d.behind} : a = Caught(d, behind)
    BY <2>3 DEF Lists!Applied, Caught
  <2>5. home.ask = ask /\ ask.gen = home.recoveryGen /\ ask.chat = home.selected => ~a.behind
    <3>1. SUFFICES ASSUME home.ask = ask, ask.gen = home.recoveryGen, ask.chat = home.selected
                   PROVE  ~a.behind
      OBVIOUS
    <3>2. PICK no \in BOOLEAN : no = FALSE
      OBVIOUS
    <3>3. a = Caught(d, no) /\ d \in Lists!World
      BY <2>2, <2>3, <3>1, <3>2 DEF Lists!Applied, Caught, Replies
    <3>4. a.behind = no
      BY ONLY no \in BOOLEAN, <3>3, CaughtIs
    <3>. QED  BY <3>2, <3>4
  <2>. HIDE DEF a, S
  <2>6. home' \in Lists!World /\ Talks(home') /\ Lasts(home', chats) /\ Rests(home', home)
    <3>1. /\ home \in Lists!World /\ Talks(home) /\ Lasts(home, chats) /\ Lists!IsOpen(home)
          /\ Replies(d, home, home.asks \ {ask}) /\ home' = Ended(a, ask)
      BY <2>1, <2>2 DEF Here, S, Ended
    <3>2. Takes(home, d, a, ask)
      BY <2>4, <2>5 DEF Takes
    <3>. QED  BY ONLY ask \in home.asks, <3>1, <3>2, TakesKeep
  <2>. QED  BY <2>1, <2>6, RestFollows DEF Here, Onward
<1>3. CASE Lists!ReconcileRejected(ask)
  <2>. DEFINE mine == home.ask.id = ask.id
              k == Lists!Noted(home, "rejected", mine)
              e == Replied(k, S)
              a == IF mine THEN Caught(e, e.behind) ELSE e
  <2>1. mine \in BOOLEAN /\ "rejected" \in Lists!Notes
    BY DEF Lists!Notes
  <2>2. /\ k \in Lists!World /\ SameTalk(k, home) /\ SameScreen(k, home) /\ k.lists = home.lists
        /\ k.upset = home.upset \cup (IF mine THEN {"rejected"} ELSE {})
        /\ Talks(k) /\ Lasts(k, chats)
    <3>1. home \in Lists!World /\ Talks(home) /\ Lasts(home, chats) /\ k = Lists!Noted(home, "rejected", mine)
      BY DEF Here
    <3>. HIDE DEF mine, k
    <3>. QED  BY ONLY <2>1, <3>1, NotedKeeps
  <2>3. /\ home' = (IF ask.id = a.awaited THEN Lists!Finish(a) ELSE a)
        /\ chats' = chats /\ Lists!IsOpen(home)
    <3>1. k.asks = home.asks
      BY <2>2 DEF SameTalk
    <3>2. a = [k EXCEPT !.asks = S, !.ask = IF mine THEN Lists!NoAsk ELSE @]
      <4>. HIDE DEF k, mine, S
      <4>1. CASE mine
        BY <2>2, <4>1 DEF Caught, Replied, Lists!World
      <4>2. CASE ~mine
        BY <2>2, <4>2 DEF Replied, Lists!World
      <4>. QED  BY <4>1, <4>2
    <3>. DEFINE o == [k EXCEPT !.asks = @ \ {ask}, !.ask = IF mine THEN Lists!NoAsk ELSE @]
    <3>3. /\ home' = (IF ask.id = o.awaited THEN Lists!Finish(o) ELSE o)
          /\ chats' = chats /\ Lists!IsOpen(home)
      BY <1>3 DEF Lists!ReconcileRejected
    <3>4. o = a
      <4>. HIDE DEF a, k, mine
      <4>. QED  BY <3>1, <3>2
    <3>. HIDE DEF a, k, mine, o
    <3>. QED  BY <3>3, <3>4
  <2>. HIDE DEF k
  <2>4. Replies(e, k, S)
    BY <1>1, <2>2, RepliedIs
  <2>. HIDE DEF e
  <2>5. k.ask = home.ask /\ k.asks = home.asks /\ Lists!IsOpen(k)
    BY <2>2, <2>3 DEF SameTalk, Lists!IsOpen
  <2>6. \/ a = e
        \/ k.ask.id = ask.id /\ \E behind \in {FALSE, e.behind} : a = Caught(e, behind)
    BY <2>5
  <2>7. k.ask = ask => Excused(a)
    <3>1. SUFFICES ASSUME k.ask = ask
                   PROVE  Excused(a)
      OBVIOUS
    <3>2. "rejected" \in e.upset /\ e \in Lists!World
      BY <2>2, <2>4, <2>5, <3>1 DEF Replies, SameList
    <3>3. a = Caught(e, e.behind)
      BY <2>5, <3>1
    <3>4. a.upset = e.upset
      BY <3>2, <3>3, HomeFields, CaughtIs DEF SameList
    <3>. QED  BY <3>2, <3>4 DEF Excused
  <2>. HIDE DEF a, S
  <2>8. home' \in Lists!World /\ Talks(home') /\ Lasts(home', chats) /\ Rests(home', k)
    <3>1. /\ k \in Lists!World /\ Talks(k) /\ Lasts(k, chats) /\ Lists!IsOpen(k)
          /\ ask \in k.asks /\ Replies(e, k, k.asks \ {ask}) /\ home' = Ended(a, ask)
      BY <2>2, <2>3, <2>4, <2>5 DEF S, Ended
    <3>2. Takes(k, e, a, ask)
      BY <2>6, <2>7 DEF Takes
    <3>. QED  BY ONLY <3>1, <3>2, TakesKeep
  <2>9. Onward
    BY <2>2, <2>8, RestFollows DEF Onward, Rests, SameTalk, SameScreen
  <2>. QED  BY <2>3, <2>8, <2>9 DEF Here
<1>4. CASE Lists!PageReconciled(ask)
  <2>. DEFINE p == home.pages + 1
              e == PageReplied(home, S, p)
  <2>1. home' = IF e.ask.id # ask.id \/ e.ask.gen # e.recoveryGen \/ e.ask.chat # e.selected
                  THEN e ELSE Lists!Reconcile([e EXCEPT !.ask = Lists!NoAsk], ask.gen)
    BY <1>4 DEF Lists!PageReconciled, PageReplied
  <2>2. p \in Nat
    BY HomeFields DEF Here
  <2>3. e = PageReplied(home, S, p)
    OBVIOUS
  <2>. HIDE DEF d, e, p
  <2>4. Replies(e, home, S)
    <3>1. home \in Lists!World
      BY DEF Here
    <3>. HIDE DEF S
    <3>. QED  BY ONLY <1>1, <2>2, <2>3, <3>1, PageRepliedIs
  <2>5. Caught(e, e.behind) = [e EXCEPT !.ask = Lists!NoAsk]
    BY <2>4 DEF Caught, Replies, Lists!World
  <2>6. home' = IF e.ask.id # ask.id \/ e.ask.gen # e.recoveryGen \/ e.ask.chat # e.selected
                  THEN e ELSE Lists!Reconcile(Caught(e, e.behind), ask.gen)
    BY <2>1, <2>5
  <2>7. home' \in Lists!World /\ Talks(home') /\ Lasts(home', chats) /\ Rests(home', home)
    BY <2>4, <2>6, PagesKeep DEF Here
  <2>. QED  BY <1>4, <2>7, RestFollows DEF Here, Onward, Lists!PageReconciled
<1>. QED  BY <1>2, <1>3, <1>4

\* The user keeps it.
LEMMA UserKeeps ==
    ASSUME HomeBounds, Here,
           \/ \E c \in Chats : Lists!Select(c)
           \/ Lists!Close \/ Lists!RefreshChats \/ Lists!LoadMoreGroups \/ Lists!SetArchiveMode
    PROVE  Here' /\ Onward
<1>. DEFINE d == Lists!Moving(home)
<1>1. /\ d \in Lists!World /\ Talks(d) /\ Lasts(d, chats)
      /\ "moves" \in d.upset \/ ~Lists!Fetching(d, {"recovery"})
      /\ d.mode = home.mode /\ d.ver = home.ver /\ d.gone = home.gone
      /\ d.selected = home.selected /\ d.lists = home.lists
  BY MovingIs, MovingKeeps DEF Here, SameScreen, SameTalk
<1>2. ASSUME NEW c \in Chats, Lists!Select(c)
      PROVE  Here' /\ Onward
  <2>1. /\ home' \in Lists!World /\ Talks(home') /\ Lasts(home', chats)
        /\ home'.ver = home.ver /\ home'.lists = home.lists
    BY <1>2, SelectKeeps DEF Here, Lists!Select
  <2>. QED  BY <1>2, <2>1, RestFollows DEF Here, Onward, Rests, Lists!Select
<1>3. CASE Lists!Close
  <2>1. home' = Lists!Closed(d) /\ chats' = chats
    BY <1>3 DEF Lists!Close
  <2>. HIDE DEF d
  <2>2. /\ home' \in Lists!World /\ SameList(home', d) /\ Talks(home') /\ Lasts(home', chats)
    BY <1>1, <2>1, ClosesKeep
  <2>. QED  BY <1>1, <2>1, <2>2, RestFollows DEF Here, Onward, Rests, SameList
<1>4. CASE Lists!RefreshChats
  <2>. DEFINE k == Lists!Refreshed(Lists!Moving(home))
  <2>1. home' = (IF k.error THEN [k EXCEPT !.isLoading = TRUE, !.error = FALSE] ELSE k)
    BY <1>4 DEF Lists!RefreshChats
  <2>2. chats' = chats
    BY <1>4 DEF Lists!RefreshChats
  <2>3. k = Lists!Refreshed(Lists!Moving(home))
    OBVIOUS
  <2>. HIDE DEF k
  <2>4. home' \in Lists!World /\ Talks(home') /\ Lasts(home', chats) /\ Rests(home', home)
    BY <2>1, <2>3, RefreshChatsKeeps DEF Here
  <2>. QED  BY <2>2, <2>4, RestFollows DEF Here, Onward
<1>5. CASE Lists!LoadMoreGroups
  <2>. DEFINE q == [kind |-> "page", gen |-> home.refreshGen, left |-> 0, mode |-> home.mode,
                    proj |-> home.proj, at |-> "sent", has |-> {}, ver |-> home.cursor]
  <2>1. /\ home' = [home EXCEPT !.lists = home.lists \cup {q}] /\ chats' = chats
        /\ ~home.snapLoading /\ home.cursor # 0 /\ ~\E r \in home.lists : r.kind = "page"
    BY <1>5 DEF Lists!LoadMoreGroups
  <2>2. /\ q \in Lists!List /\ q.kind = "page" /\ q.gen = home.refreshGen /\ q.mode = home.mode
        /\ q.at = "sent" /\ q.ver = home.cursor
    BY HomeFields DEF Here, Lists!List, HomeBounds
  <2>. HIDE DEF q
  <2>3. home' \in Lists!World /\ Talks(home') /\ Lasts(home', chats) /\ Rests(home', home)
    BY <2>1, <2>2, LoadMoreKeeps DEF Here
  <2>. QED  BY <2>1, <2>3, RestFollows DEF Here, Onward
<1>6. CASE Lists!SetArchiveMode
  <2>. DEFINE other == Lists!Other(home.mode)
  <2>1. home' = Lists!InMode(d, other) /\ chats' = chats
    BY <1>6 DEF Lists!SetArchiveMode
  <2>2. other \in Lists!Modes
    BY DEF Lists!Other, Lists!Modes
  <2>. HIDE DEF d, other
  <2>3. /\ home' \in Lists!World /\ Talks(home') /\ Lasts(home', chats)
        /\ Follows(home', d, chats)
    BY <1>1, <2>1, <2>2, InModeKeeps DEF Here
  <2>4. Onward
    BY <1>1, <2>3, FollowsOn DEF Onward
  <2>. QED  BY <2>1, <2>3, <2>4 DEF Here
<1>. QED  BY <1>2, <1>3, <1>4, <1>5, <1>6

\* A move that is begun.
LEMMA MoveBegins ==
    ASSUME HomeBounds, Here, NEW c \in Chats, Lists!ToggleArchive(c) \/ Lists!StartConversation(c)
    PROVE  Here' /\ Onward
<1>1. CASE Lists!ToggleArchive(c)
  <2>. DEFINE b == \E m \in home.moves : m.chat = c
              k == Lists!Noted(home, "moves", b)
              m == [kind |-> "archive", chat |-> c, mode |-> home.mode, ver |-> 0]
  <2>1. home' = [k EXCEPT !.moves = @ \cup {m}]
    BY <1>1 DEF Lists!ToggleArchive
  <2>2. chats' = chats /\ c \in home.listed
    BY <1>1 DEF Lists!ToggleArchive
  <2>3. m \in Lists!Move /\ m.ver = 0 /\ m.chat = c /\ m.kind = "archive" /\ m.mode = home.mode
    BY HomeFields DEF Here, Lists!Move
  <2>4. b \in BOOLEAN /\ "moves" \in Lists!Notes
    BY DEF Lists!Notes
  <2>5. k = Lists!Noted(home, "moves", b)
    OBVIOUS
  <2>. HIDE DEF k, m
  <2>6. /\ k \in Lists!World /\ SameTalk(k, home) /\ SameScreen(k, home) /\ k.lists = home.lists
        /\ k.upset = home.upset \cup (IF b THEN {"moves"} ELSE {})
        /\ Talks(k) /\ Lasts(k, chats)
    <3>1. home \in Lists!World /\ Talks(home) /\ Lasts(home, chats)
      BY DEF Here
    <3>. HIDE DEF b
    <3>. QED  BY ONLY <2>4, <2>5, <3>1, NotedKeeps
  <2>7. home' = MovesSet(k, k.moves \cup {m})
    BY <2>1 DEF MovesSet
  <2>8. "moves" \in k.upset \/ \A n \in k.moves : n.chat # m.chat
    BY <2>3, <2>6 DEF SameScreen
  <2>9. "moves" \notin k.upset => chats.at[c] = home.mode
    <3>1. SUFFICES ASSUME "moves" \notin k.upset
                   PROVE  chats.at[c] = home.mode
      OBVIOUS
    <3>2. "moves" \notin home.upset /\ ~b
      BY <2>6, <3>1
    <3>3. ~Leaving(home, c)
      BY <3>2 DEF Leaving
    <3>. QED  BY <2>2, <3>2, <3>3 DEF Here, Lasts, Stands, Listing
  <2>10. "moves" \notin k.upset =>
            chats.at[m.chat] = (IF m.kind = "create" THEN "nowhere" ELSE m.mode)
    BY <2>3, <2>9
  <2>11. home' \in Lists!World /\ Talks(home') /\ Lasts(home', chats) /\ Rests(home', k)
    <3>1. chats \in Served
      BY DEF Here
    <3>. QED  BY ONLY <2>3, <2>6, <2>7, <2>8, <2>10, <3>1, AddsMoveKeeps
  <2>12. Onward
    BY <2>6, <2>11, RestFollows DEF Onward, Rests, SameTalk, SameScreen
  <2>. QED  BY <2>2, <2>11, <2>12 DEF Here
<1>2. CASE Lists!StartConversation(c)
  <2>. DEFINE m == [kind |-> "create", chat |-> c, mode |-> home.mode, ver |-> 0]
  <2>1. home' = [home EXCEPT !.moves = @ \cup {m}]
    BY <1>2 DEF Lists!StartConversation
  <2>2. chats' = chats /\ chats.at[c] = "nowhere" /\ ~\E k \in home.moves : k.chat = c
    BY <1>2 DEF Lists!StartConversation
  <2>3. m \in Lists!Move /\ m.ver = 0 /\ m.chat = c /\ m.kind = "create"
    BY HomeFields DEF Here, Lists!Move
  <2>. HIDE DEF m
  <2>4. home' = MovesSet(home, home.moves \cup {m})
    BY <2>1 DEF MovesSet
  <2>5. /\ \A n \in home.moves : n.chat # m.chat
        /\ chats.at[m.chat] = (IF m.kind = "create" THEN "nowhere" ELSE m.mode)
    BY <2>2, <2>3
  <2>6. home' \in Lists!World /\ Talks(home') /\ Lasts(home', chats) /\ Rests(home', home)
    <3>1. chats \in Served /\ home \in Lists!World /\ Talks(home) /\ Lasts(home, chats)
      BY DEF Here
    <3>. QED  BY ONLY <2>3, <2>4, <2>5, <3>1, AddsMoveKeeps
  <2>. QED  BY <2>2, <2>6, RestFollows DEF Here, Onward
<1>. QED  BY <1>1, <1>2

\* A move that the server does, or that is answered.
LEMMA MoveGoesOn ==
    ASSUME HomeBounds, Here, NEW m \in home.moves,
           Lists!ServerMoves(m) \/ Lists!MoveAnswered(m) \/ Lists!ArchiveFails(m)
    PROVE  Here' /\ Onward
<1>1. /\ home \in Lists!World /\ chats \in Served /\ Talks(home) /\ Lasts(home, chats)
      /\ m \in Lists!Move /\ m.chat \in Chats /\ m.mode \in Lists!Modes
      /\ m.kind \in {"archive", "create"} /\ m.ver \in Nat
  BY HomeFields, MoveFields DEF Here
<1>. DEFINE k == MovesSet(home, home.moves \ {m})
<1>2. CASE Lists!ServerMoves(m)
  <2>. DEFINE to == IF m.kind = "create" THEN "active" ELSE Lists!Other(m.mode)
              n == [m EXCEPT !.ver = chats.ver + 1]
              M == (home.moves \ {m}) \cup {n}
  <2>1. chats' = [at |-> [chats.at EXCEPT ![m.chat] = to], ver |-> chats.ver + 1]
    BY <1>2 DEF Lists!ServerMoves
  <2>2. home' = MovesSet(home, M)
    BY <1>2 DEF Lists!ServerMoves, MovesSet
  <2>3. m.ver = 0
    BY <1>2 DEF Lists!ServerMoves
  <2>4. to \in Lists!Modes
    BY <1>1 DEF Lists!Modes, Lists!Other
  <2>5. /\ chats' \in Served /\ chats'.ver = chats.ver + 1 /\ chats'.at[m.chat] = to
        /\ \A c \in Chats : c # m.chat => chats'.at[c] = chats.at[c]
    <3>. HIDE DEF to
    <3>. QED  BY <1>1, <2>1, <2>4, ServedFields DEF Served
  <2>6. n \in Lists!Move /\ n.kind = m.kind /\ n.chat = m.chat /\ n.mode = m.mode
        /\ n.ver = chats.ver + 1
    BY <1>1, ServedFields DEF Lists!Move
  <2>7. to = (IF m.kind = "create" THEN "active" ELSE Lists!Other(m.mode))
    OBVIOUS
  <2>8. home' = MovesSet(home, (home.moves \ {m}) \cup {n})
    BY <2>2
  <2>. HIDE DEF n, to, M
  <2>9. home' \in Lists!World /\ Talks(home') /\ Lasts(home', chats') /\ Rests(home', home)
    BY ONLY HomeBounds, m \in home.moves, <1>1, <2>3, <2>5, <2>6, <2>7, <2>8, ServerMovesKeeps
  <2>. QED  BY <2>5, <2>9, RestFollows DEF Here, Onward
<1>3. CASE Lists!MoveAnswered(m) /\ m.kind = "archive"
  <2>1. home' = Lists!Archived(Lists!Moving(k), m)
    BY <1>3 DEF Lists!MoveAnswered, MovesSet
  <2>2. chats' = chats /\ m.ver # 0
    BY <1>3 DEF Lists!MoveAnswered
  <2>3. k = MovesSet(home, home.moves \ {m}) /\ m.kind = "archive"
    BY <1>3
  <2>. HIDE DEF k
  <2>4. home' \in Lists!World /\ Talks(home') /\ Lasts(home', chats) /\ Onward
    BY ONLY HomeBounds, m \in home.moves, <1>1, <2>1, <2>2, <2>3, ArchivedKeeps DEF Onward
  <2>. QED  BY <1>1, <2>2, <2>4 DEF Here
<1>4. CASE Lists!MoveAnswered(m) /\ m.kind = "create"
  <2>. DEFINE els == Lists!Elsewhere(m)
              n == Lists!Noted(k, "moves", els)
  <2>1. home' = Lists!Selected([n EXCEPT !.listed = @ \cup {m.chat}], m.chat)
    BY <1>4 DEF Lists!MoveAnswered, MovesSet
  <2>2. chats' = chats /\ m.ver # 0
    BY <1>4 DEF Lists!MoveAnswered
  <2>3. /\ k = MovesSet(home, home.moves \ {m}) /\ m.kind = "create"
        /\ n = Lists!Noted(k, "moves", els)
    BY <1>4
  <2>4. els \in BOOLEAN
    BY DEF Lists!Elsewhere
  <2>5. ~els => home.mode = "active" /\ \A r \in home.lists : r.at # "sent" => r.ver >= m.ver
    <3>1. \A r \in home.lists : r.ver \in Nat
      BY <1>1, HomeFields, ListFields
    <3>. QED  BY <1>1, <3>1 DEF Lists!Elsewhere
  <2>. HIDE DEF k, n, els
  <2>6. home' = Lists!Selected(ListedToo(n, n.listed \cup {m.chat}), m.chat)
    BY <2>1 DEF ListedToo
  <2>7. home' \in Lists!World /\ Talks(home') /\ Lasts(home', chats) /\ Rests(home', home)
    BY ONLY HomeBounds, m \in home.moves, <1>1, <2>2, <2>3, <2>4, <2>5, <2>6, CreatedKeeps
  <2>. QED  BY <1>1, <2>2, <2>7, RestFollows DEF Here, Onward
<1>5. CASE Lists!ArchiveFails(m)
  <2>. DEFINE d == Lists!Moving(k)
  <2>1. home' = Lists!InMode(d, m.mode)
    BY <1>5 DEF Lists!ArchiveFails, MovesSet
  <2>2. chats' = chats /\ m.ver = 0
    BY <1>5 DEF Lists!ArchiveFails
  <2>3. k = MovesSet(home, home.moves \ {m}) /\ d = Lists!Moving(k)
    OBVIOUS
  <2>. HIDE DEF k, d
  <2>4. k \in Lists!World /\ Talks(k) /\ Lasts(k, chats)
    BY <1>1, <2>2, <2>3, ForgetsKeep
  <2>5. SameTalk(k, home) /\ SameView(k, home)
    BY <1>1, <2>2, <2>3, ForgetsKeep
  <2>6. /\ d \in Lists!World /\ Talks(d) /\ Lasts(d, chats)
        /\ SameTalk(d, k) /\ SameScreen(d, k) /\ d.lists = k.lists
        /\ "moves" \in d.upset \/ ~Lists!Fetching(d, {"recovery"})
    BY <2>3, <2>4, MovingIs, MovingKeeps
  <2>7. /\ home' \in Lists!World /\ Talks(home') /\ Lasts(home', chats)
        /\ Follows(home', d, chats)
    BY <1>1, <2>1, <2>6, InModeKeeps
  <2>8. Onward
    BY <2>6, <2>7, <2>5, FollowsOn DEF Onward, SameTalk, SameScreen, SameView
  <2>. QED  BY <1>1, <2>2, <2>7, <2>8 DEF Here
<1>. QED  BY <1>1, <1>2, <1>3, <1>4, <1>5

\* A peer creates a chat, or the groups that may be shown change.
LEMMA PeersKeep ==
    ASSUME HomeBounds, Here, Lists!ProjectionChanges \/ \E c \in Chats : Lists!PeerCreates(c)
    PROVE  Here' /\ Onward
<1>1. home \in Lists!World /\ chats \in Served /\ Talks(home) /\ Lasts(home, chats)
  BY DEF Here
<1>2. ASSUME NEW c \in Chats, Lists!PeerCreates(c)
      PROVE  Here' /\ Onward
  <2>1. /\ chats' = [at |-> [chats.at EXCEPT ![c] = "active"], ver |-> chats.ver + 1]
        /\ chats.at[c] = "nowhere" /\ \A m \in home.moves : m.chat # c
        /\ home' = home \/ home' = Lists!Refreshed(Lists!Moving(home))
    BY <1>2 DEF Lists!PeerCreates
  <2>2. /\ chats' \in Served /\ chats'.ver = chats.ver + 1
        /\ \A d \in Chats : d # c => chats'.at[d] = chats.at[d]
    BY <1>1, <2>1, ServedFields DEF Served, Lists!Modes
  <2>3. Lasts(home, chats')
    BY <1>1, <2>1, <2>2, CreatesKeep
  <2>4. CASE home' = home
    BY <1>1, <2>2, <2>3, <2>4, RestFollows DEF Here, Onward, Rests
  <2>5. CASE home' = Lists!Refreshed(Lists!Moving(home))
    <3>. DEFINE d == Lists!Moving(home)
    <3>1. /\ d \in Lists!World /\ Talks(d) /\ Lasts(d, chats')
          /\ "moves" \in d.upset \/ ~Lists!Fetching(d, {"recovery"})
          /\ SameTalk(d, home) /\ SameScreen(d, home)
      BY <1>1, <2>3, MovingIs, MovingKeeps
    <3>2. home' = Lists!Refreshed(d)
      BY <2>5
    <3>. HIDE DEF d
    <3>3. /\ home' \in Lists!World /\ Talks(home') /\ Lasts(home', chats')
          /\ SameTalk(home', d) /\ home'.ver = d.ver
      BY <2>2, <3>1, <3>2, RefreshesKeep DEF Lasts
    <3>4. Onward
      BY <3>1, <3>3, RestFollows DEF Onward, Rests, SameTalk, SameScreen
    <3>. QED  BY <2>2, <3>3, <3>4 DEF Here
  <2>. QED  BY <2>1, <2>4, <2>5
<1>3. CASE Lists!ProjectionChanges
  <2>1. home' = [home EXCEPT !.proj = 1] /\ chats' = chats
    BY <1>3 DEF Lists!ProjectionChanges
  <2>. DEFINE g == home'
  <2>2. g \in Lists!World
    BY ZenonT(60), <1>1, <2>1, 1 \in Nat DEF Lists!World
  <2>3. SameTalk(g, home)
    BY <1>1, <2>1 DEF Lists!World, SameTalk
  <2>4. SameView(g, home) /\ g.moves = home.moves
    BY <1>1, <2>1 DEF Lists!World, SameView
  <2>. HIDE DEF g
  <2>5. /\ Talks(g) /\ Requested(g) /\ Single(g) /\ Loading(g)
        /\ \A p : Present(g, p) <=> Present(home, p)
    BY <1>1, <2>2, <2>3, <2>4, ViewRests
  <2>6. Versions(g, chats) /\ Moves(g, chats)
    BY <1>1, <2>4 DEF Lasts, Stands, Versions, Moves, SameView
  <2>7. Listing(g, chats)
    <3>1. \A c : Leaving(home, c) <=> Leaving(g, c)
      BY <2>4 DEF Leaving, SameView
    <3>2. \A r : Answers(home, chats, r) => Answers(g, chats, r)
      BY <2>4, <3>1 DEF Answers, SameView
    <3>. QED  BY <1>1, <2>3, <2>4, <2>5, <3>1, <3>2 DEF Lasts, Stands, Listing, SameView, SameTalk
  <2>8. Onward
    BY <2>4, RestFollows DEF Onward, Rests, SameView, g
  <2>. QED  BY <1>1, <2>1, <2>2, <2>5, <2>6, <2>7, <2>8 DEF Here, Lasts, Stands, g
<1>. QED  BY <1>2, <1>3

\* Home starts with the invariant.
LEMMA HomeStarts ==
    ASSUME HomeBounds, MaxEffort \in Nat, Lists!Init
    PROVE  ListInv
<1>. DEFINE q(h) == Query(h, "initial", 1, Retries)
<1>1. PICK c \in Lists!ChatOrNone : home = Lists!Requested(Lists!Fresh(c), "initial", 1, Retries)
  BY DEF Lists!Init
<1>. DEFINE h == Lists!Fresh(c)
<1>2. h \in Lists!World
  BY DEF Lists!Fresh, Lists!World, Lists!Modes, Lists!ChatOrNone, Lists!Ask, Lists!NoAsk
<1>3. /\ h.state = "offline" /\ h.established = FALSE /\ h.initial = "pending"
      /\ h.refreshGen = 1 /\ h.recoveryGen = 0 /\ h.mode = "active" /\ h.from = "active"
      /\ h.isLoading /\ ~h.snapLoading /\ h.listed = {} /\ h.ver = 0 /\ h.gone = 0
      /\ h.cursor = 0 /\ h.tail = 0 /\ h.selected = "none" /\ ~h.behind
      /\ h.ask.id = 0 /\ h.lastID = 0 /\ h.asks = {} /\ h.lists = {} /\ h.moves = {} /\ h.upset = {}
  BY DEF Lists!Fresh, Lists!NoAsk
<1>4. home = Lists!Requested(h, "initial", 1, Retries)
  BY <1>1
<1>. HIDE DEF h
<1>5. "initial" \in {"initial", "recovery", "refresh", "page"} /\ 1 \in Nat /\ Retries \in 0 .. Retries
  BY DEF HomeBounds
<1>6. Adds(home, h, q(h))
  BY ONLY <1>2, <1>4, <1>5, RequestedIs
<1>7. /\ q(h) \in Lists!List /\ q(h).kind = "initial" /\ q(h).gen = 1
      /\ q(h).mode = h.mode /\ q(h).at = "sent" /\ q(h).ver = 0
  BY <1>2, <1>5, QueryFields
<1>. HIDE DEF q
<1>8. home \in Lists!World /\ SameTalk(home, h) /\ SameScreen(home, h) /\ home.upset = {}
      /\ home.lists = {q(h)}
  BY <1>3, <1>6 DEF Adds
<1>9. Talks(home)
  BY <1>3, <1>8 DEF Talks, Asking, Awaiting, Timely, Catching, SameTalk
<1>10. Requested(home)
  BY <1>3, <1>7, <1>8 DEF Requested, SameScreen, SameTalk
<1>11. Single(home)
  BY <1>3, <1>7, <1>8 DEF Single, SameScreen
<1>12. chats \in Served /\ chats.ver = 1 /\ moves = 0
  BY DEF Lists!Init, Served, Lists!Modes
<1>13. Versions(home, chats) /\ Moves(home, chats)
  BY <1>3, <1>7, <1>8, <1>12 DEF Versions, Moves, SameScreen
<1>14. Listing(home, chats)
  BY <1>3, <1>7, <1>8 DEF Listing, SameScreen, SameTalk
<1>15. Loading(home)
  <2>1. Lists!Fetching(home, {"initial", "refresh", "recovery"})
    BY <1>3, <1>7, <1>8 DEF Lists!Fetching, SameScreen
  <2>. QED  BY <1>3, <1>8, <2>1 DEF Loading, SameScreen
<1>. QED  BY <1>8, <1>9, <1>10, <1>11, <1>12, <1>13, <1>14, <1>15
          DEF ListInv, Lists!TypeOK, Lasts, Stands, Served

-----------------------------------------------------------------------------
(* The theorem.                                                             *)

\* Every action keeps the invariant.
LEMMA HomeSteps ==
    ASSUME HomeBounds, Here, Lists!Next
    PROVE  Here' /\ Onward
<1>1. ASSUME NEW r \in home.lists, Lists!ServerLists(r)
      PROVE  Here' /\ Onward
  BY <1>1, ServerListsKeeps
<1>2. ASSUME NEW r \in home.lists,
             Lists!ListCame(r) \/ Lists!ListFailed(r) \/ Lists!TimerFires(r)
      PROVE  Here' /\ Onward
  BY <1>2, ListStepsKeep
<1>3. CASE Lists!Connect \/ Lists!Opens \/ Lists!Drop \/ Lists!PresenceSnapshot
  BY <1>3, OpeningKeeps
<1>4. ASSUME NEW ask \in home.asks,
             Lists!Reconciled(ask) \/ Lists!PageReconciled(ask) \/ Lists!ReconcileRejected(ask)
      PROVE  Here' /\ Onward
  BY <1>4, ReconcilesKeep
<1>5. CASE \/ \E c \in Chats : Lists!Select(c)
           \/ Lists!Close \/ Lists!RefreshChats \/ Lists!LoadMoreGroups \/ Lists!SetArchiveMode
  BY <1>5, UserKeeps
<1>6. ASSUME NEW c \in Chats, Lists!ToggleArchive(c) \/ Lists!StartConversation(c)
      PROVE  Here' /\ Onward
  BY <1>6, MoveBegins
<1>7. ASSUME NEW m \in home.moves,
             Lists!ServerMoves(m) \/ Lists!MoveAnswered(m) \/ Lists!ArchiveFails(m)
      PROVE  Here' /\ Onward
  BY <1>7, MoveGoesOn
<1>8. CASE Lists!ProjectionChanges \/ \E c \in Chats : Lists!PeerCreates(c)
  BY <1>8, PeersKeep
<1>. QED  BY <1>1, <1>2, <1>3, <1>4, <1>5, <1>6, <1>7, <1>8 DEF Lists!Next

\* No action spends more than there is.
LEMMA EffortBounded ==
    ASSUME MaxEffort \in Nat, moves \in 0 .. MaxEffort, Lists!Next
    PROVE  moves' \in 0 .. MaxEffort
<1>1. Lists!Spend => moves' \in 0 .. MaxEffort
  BY DEF Lists!Spend
<1>2. Lists!Spend \/ moves' = moves
  BY DEF Lists!Next, Lists!ServerLists, Lists!ListCame, Lists!ListFailed, Lists!TimerFires,
         Lists!Connect, Lists!Opens, Lists!Drop, Lists!PresenceSnapshot, Lists!Reconciled,
         Lists!PageReconciled, Lists!ReconcileRejected, Lists!Select, Lists!ToggleArchive,
         Lists!StartConversation, Lists!PeerCreates, Lists!Close, Lists!RefreshChats,
         Lists!LoadMoreGroups, Lists!SetArchiveMode, Lists!ProjectionChanges,
         Lists!ServerMoves, Lists!MoveAnswered, Lists!ArchiveFails
<1>. QED  BY <1>1, <1>2

\* The invariant gives what the run checks.
LEMMA ListInvAgrees ==
    ASSUME ListInv
    PROVE  ListAgrees
<1>1. /\ Lists!TypeOK /\ home \in Lists!World /\ Talks(home) /\ Lasts(home, chats)
  BY DEF ListInv, Lists!TypeOK
<1>2. Lists!ListIsOfMode
  BY <1>1 DEF Lists!ListIsOfMode, Lasts, Stands, Requested
<1>3. Lists!RecoveryIsAnswered
  BY <1>1 DEF Lists!RecoveryIsAnswered, Talks, Awaiting
<1>4. Lists!SelectedIsListed
  BY <1>1 DEF Lists!SelectedIsListed, Lasts, Stands, Listing, Leaving
<1>5. Lists!LoadingIsOwned
  BY <1>1 DEF Lists!LoadingIsOwned, Lasts, Loading
<1>6. Lists!PageContinuesList
  BY <1>1 DEF Lists!PageContinuesList, Lasts, Stands, Single
<1>7. Lists!ReadyIsCaughtUp
  BY <1>1 DEF Lists!ReadyIsCaughtUp, Talks, Timely, Excused
<1>. QED  BY <1>1, <1>2, <1>3, <1>4, <1>5, <1>6, <1>7 DEF ListAgrees

\* It stays.
LEMMA ListInvStays ==
    ASSUME HomeBounds, MaxEffort \in Nat, ListInv, [Lists!Next]_Lists!vars
    PROVE  ListInv' /\ [Lists!NewestListWins /\ Lists!StartedStaysOpen]_homeVars
<1>1. Here /\ moves \in 0 .. MaxEffort
  BY DEF ListInv, Here, Lists!TypeOK, Served
<1>2. CASE Lists!Next
  <2>1. Here' /\ Onward /\ moves' \in 0 .. MaxEffort
    BY <1>1, <1>2, HomeSteps, EffortBounded
  <2>2. ListInv'
    BY <2>1 DEF ListInv, Here, Lists!TypeOK, Served
  <2>. QED  BY <2>1, <2>2, OnwardWins
<1>3. CASE UNCHANGED Lists!vars
  <2>1. UNCHANGED homeVars
    BY <1>3 DEF Lists!vars, homeVars
  <2>. QED  BY <1>3, <2>1 DEF Lists!vars, ListInv, Lists!TypeOK, Talks, Lasts
<1>. QED  BY <1>2, <1>3

\* The list of Home: for any number of chats, retries, pages and moves, the list is of
\* the mode that is shown and a recovery waits for what is under way; and where nothing
\* has overtaken a list, the chat selected is listed, what loads has a request, a page
\* continues the list that is shown, and a ready connection has caught up.
THEOREM ListHolds ==
    ASSUME Lists!HomeSyncAssumption
    PROVE  Lists!Spec => []ListAgrees
<1>1. HomeBounds /\ MaxEffort \in Nat
  BY DEF Lists!HomeSyncAssumption, HomeBounds
<1>2. Lists!Init => ListInv
  BY <1>1, HomeStarts
<1>3. ListInv /\ [Lists!Next]_Lists!vars => ListInv'
  BY <1>1, ListInvStays
<1>4. ListInv => ListAgrees
  BY ListInvAgrees
<1>. QED  BY <1>2, <1>3, <1>4, PTL DEF Lists!Spec

\* While no move overtakes a list, a list that comes is newer than the one it replaces
\* and than what was archived meanwhile, and the chat selected stays if it is there.
THEOREM ListFollows ==
    ASSUME Lists!HomeSyncAssumption
    PROVE  Lists!Spec => NewestListWins
<1>1. HomeBounds /\ MaxEffort \in Nat
  BY DEF Lists!HomeSyncAssumption, HomeBounds
<1>2. Lists!Init => ListInv
  BY <1>1, HomeStarts
<1>3. ListInv /\ [Lists!Next]_Lists!vars
         => ListInv' /\ [Lists!NewestListWins /\ Lists!StartedStaysOpen]_homeVars
  BY <1>1, ListInvStays
<1>. QED  BY <1>2, <1>3, PTL DEF Lists!Spec, NewestListWins
=============================================================================
