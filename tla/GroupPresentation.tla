-------------------------- MODULE GroupPresentation --------------------------
(***************************************************************************)
(* The screen one participant presents in a group call: the captures and   *)
(* the queue of operations of GroupCallFacade, one sender of video and of  *)
(* audio per peer, and the presenter of the room. An operation awaits the  *)
(* browser and the senders of the peers one after the other; meanwhile     *)
(* tracks end, peers come and go, another participant presents and the     *)
(* call ends. The queue runs one operation at a time.                      *)
(***************************************************************************)
EXTENDS Integers, FiniteSets, SequencesExt

CONSTANTS
    Peers,          \* connections of the call
    MaxCaptures,    \* screens captured
    MaxGen,         \* calls
    MaxQueue,       \* operations waiting
    MaxEffort,      \* failures, ended tracks, moves of peers, see Spend
    Overtakes,      \* whether a peer presents while a presentation is being started,
                    \* or has before without the event being here
    LateJoins       \* whether a peer joins while ended audio is taken back

GroupPresentationAssumption ==
    /\ IsFiniteSet(Peers)
    /\ {MaxCaptures, MaxGen, MaxQueue, MaxEffort} \subseteq Nat
    /\ {Overtakes, LateJoins} \subseteq BOOLEAN

VARIABLES
    s,          \* the facade, see Facade
    queue,      \* presentationOperationQueue; its head is running
    live,       \* video and audio tracks that are captured and not stopped
    presenter,  \* of the room at the server: 0 none, 1 this user, 2 a peer
    wire,       \* presenter requests on their way to the server
    news,       \* presenter events on their way back
    spent       \* of MaxEffort

vars == <<s, queue, live, presenter, wire, news, spent>>

Captures == 1 .. MaxCaptures
Gens == 1 .. MaxGen
Kinds == {"video", "audio"}

Capture == [startup : BOOLEAN, active : BOOLEAN, videoEnded : BOOLEAN,
            audioEnded : BOOLEAN, stopping : BOOLEAN, sound : BOOLEAN]

\* at names what the operation waits for; todo the peers it has not visited.
Op == [kind : {"start", "stop", "audio", "clear"}, cap : Captures \cup {0}, gen : Gens \cup {0},
       at : {"queued", "picking", "video", "sound", "tail", "detach"}, peer : Peers \cup {"none"},
       done : SUBSET Peers]

Facade == [gen : Gens, caps : [Captures -> Capture], last : Captures \cup {0},
           cap : Captures \cup {0},             \* presentationCapture
           shown : Captures \cup {0},           \* state.presentation, with sharing
           busy : BOOLEAN,                      \* shareTransitioning
           peers : SUBSET Peers,
           sender : [Kinds -> [Peers -> Captures \cup {0}]]]

TypeOK ==
    /\ s \in Facade
    /\ queue \in Seq(Op)
    /\ live \subseteq Kinds \X Captures
    /\ presenter \in 0 .. 2
    /\ wire \in Seq({"start", "stop"})
    /\ news \in Seq(0 .. 2)
    /\ spent \in 0 .. MaxEffort

NoCapture == [startup |-> TRUE, active |-> FALSE, videoEnded |-> FALSE,
              audioEnded |-> FALSE, stopping |-> FALSE, sound |-> FALSE]
NoSenders == [k \in Kinds |-> [p \in Peers |-> 0]]

Init ==
    /\ s \in [gen : {1}, caps : {[c \in Captures |-> NoCapture]}, last : {0}, cap : {0},
              shown : {0}, busy : {FALSE}, peers : SUBSET Peers, sender : {NoSenders}]
    /\ queue = <<>> /\ live = {} /\ presenter = 0
    /\ wire = <<>> /\ news = <<>> /\ spent = 0

Spend == spent < MaxEffort /\ spent' = spent + 1

(* The queue.                                                              *)

Queued(kind, cap, gen) ==
    [kind |-> kind, cap |-> cap, gen |-> gen, at |-> "queued", peer |-> "none", done |-> {}]
Enqueue(q, op) == IF Len(q) < MaxQueue THEN Append(q, op) ELSE q
Running == queue # <<>>
Now == Head(queue)
Waits(op) == queue' = <<op>> \o Tail(queue)
Done == queue' = Tail(queue)
Tracks(cap) == Kinds \X {cap}

\* A peer that has not been visited, in the order of the map, or nobody.
NextPeer(op, peers) ==
    IF peers \subseteq op.done THEN "none" ELSE CHOOSE p \in peers : p \notin op.done
Visit(op, at, p) == [op EXCEPT !.at = at, !.peer = p, !.done = @ \cup {p}]

\* A connection that is closed leaves the map, so its peer may be visited again,
\* and what awaits its sender goes on without it.
Forgotten(op, p) == [op EXCEPT !.done = @ \ {p}, !.peer = IF @ = p THEN "none" ELSE @]

\* assertPresentationVideoLive.
VideoLive(op) ==
    /\ op.gen = s.gen /\ s.cap = op.cap
    /\ ~s.caps[op.cap].videoEnded /\ ~s.caps[op.cap].stopping
    /\ <<"video", op.cap>> \in live

Heard(cap) == s.caps[cap].sound /\ ~s.caps[cap].audioEnded

(* startPresentation.                                                      *)

StartPresentation ==
    /\ s.shown = 0 /\ ~s.busy /\ Len(queue) < MaxQueue
    /\ s.last + Len(SelectSeq(queue, LAMBDA op : op.kind = "start" /\ op.cap = 0)) < MaxCaptures
    /\ queue' = Append(queue, Queued("start", 0, 0))
    /\ UNCHANGED <<s, live, presenter, wire, news, spent>>

\* startPresentationNow up to the picker of the browser.
StartRuns ==
    /\ Running /\ Now.kind = "start" /\ Now.at = "queued"
    /\ Overtakes \/ ~Contains(news, 2)
    /\ IF s.busy \/ s.cap # 0
         THEN Done /\ UNCHANGED <<s, wire>>
         ELSE /\ s' = [s EXCEPT !.busy = TRUE]
              /\ wire' = Append(wire, "start")
              /\ Waits([Now EXCEPT !.at = "picking", !.gen = s.gen])
    /\ UNCHANGED <<live, presenter, news, spent>>

\* Faulty: the capture of a call that is over goes on.
GaveUpCapturing(op, tracks) ==
    /\ live' = live \ (IF op.gen = s.gen THEN Tracks(op.cap) ELSE {})
    /\ s' = [s EXCEPT !.cap = IF @ = op.cap THEN 0 ELSE @, !.busy = @ /\ op.gen # s.gen]
    /\ IF op.gen = s.gen THEN Waits([op EXCEPT !.at = "detach", !.peer = "none", !.done = {}])
                         ELSE Done

\* The catch: stops the capture, whatever happened to the call.
GaveUp(op, tracks) ==
    /\ live' = tracks \ Tracks(op.cap)
    /\ s' = [s EXCEPT !.caps[op.cap].stopping = TRUE, !.caps[op.cap].active = FALSE,
                      !.cap = IF @ = op.cap THEN 0 ELSE @]
    /\ IF op.gen = s.gen THEN Waits([op EXCEPT !.at = "detach", !.peer = "none", !.done = {}])
                         ELSE Done

\* getDisplayMedia: a screen with or without sound, or none.
Picked(sound) ==
    LET c == s.last + 1
        op == [Now EXCEPT !.cap = c]
        first == NextPeer(op, s.peers)
    IN  /\ Running /\ Now.at = "picking"
        /\ IF Now.gen # s.gen THEN Done /\ UNCHANGED <<s, live>>
           ELSE /\ live' = live \cup {<<"video", c>>} \cup (IF sound THEN {<<"audio", c>>} ELSE {})
                /\ s' = [s EXCEPT !.last = c, !.cap = c,
                           !.caps[c] = [NoCapture EXCEPT !.sound = sound, !.audioEnded = ~sound],
                           !.caps[c].startup = first # "none", !.caps[c].active = first = "none",
                           !.shown = IF first = "none" THEN c ELSE @,
                           !.busy = first # "none"]
                /\ IF first = "none" THEN Done ELSE Waits(Visit(op, "video", first))
        /\ UNCHANGED <<presenter, wire, news, spent>>

\* Faulty: the room is not told.
NotPickedUntold ==
    /\ Running /\ Now.at = "picking" /\ Spend
    /\ Done
    /\ s' = IF Now.gen # s.gen THEN s ELSE [s EXCEPT !.busy = FALSE]
    /\ UNCHANGED <<live, presenter, wire, news>>

\* It fails, or there is no live screen: the room is told.
NotPicked ==
    /\ Running /\ Now.at = "picking" /\ Spend
    /\ Done
    /\ IF Now.gen # s.gen THEN UNCHANGED <<s, wire>>
       ELSE s' = [s EXCEPT !.busy = FALSE] /\ wire' = Append(wire, "stop")
    /\ UNCHANGED <<live, presenter, news>>

Sends(k, p, c) == s' = [s EXCEPT !.sender[k][p] = c]

\* Faulty: the senders of a peer go with it.
RemovedSenders(p) ==
    [s EXCEPT !.peers = @ \ {p}, !.sender = [k \in Kinds |-> [x \in Peers \ {p} |-> @[k][x]]]]

\* removePeer, when a sender cannot be replaced in time.
RemovedPeer(p) ==
    [s EXCEPT !.peers = @ \ {p}, !.sender = [k \in Kinds |-> [@[k] EXCEPT ![p] = 0]]]

\* The sender of the video of one peer has the new track. A connection that was
\* closed meanwhile takes no track of audio any more.
VideoReplaced ==
    /\ Running /\ Now.kind = "start" /\ Now.at = "video"
    /\ IF VideoLive(Now) /\ (Heard(Now.cap) => Now.peer \in s.peers)
         THEN /\ IF Now.peer \in s.peers THEN Sends("video", Now.peer, Now.cap) ELSE UNCHANGED s
              /\ Waits([Now EXCEPT !.at = "sound"])
              /\ UNCHANGED live
         ELSE GaveUp(Now, live)
    /\ UNCHANGED <<presenter, wire, news, spent>>

\* That of the audio too, unless it ended, and the peer has been offered both.
SoundReplaced ==
    LET heard == Heard(Now.cap) /\ Now.peer \in s.peers
        op == Now
        next == NextPeer(op, s.peers)
        c == s.caps[op.cap]
        f == IF heard THEN [s EXCEPT !.sender["audio"][op.peer] = op.cap] ELSE s
        back == c.sound /\ c.audioEnded
    IN  /\ Running /\ Now.kind = "start" /\ Now.at = "sound"
        /\ IF ~VideoLive(op) THEN GaveUp(op, live)
           ELSE /\ UNCHANGED live
                /\ CASE next # "none" -> Waits(Visit(op, "video", next)) /\ s' = f
                     [] next = "none" /\ back ->
                          /\ Waits([op EXCEPT !.at = "tail", !.peer = "none"])
                          /\ s' = [f EXCEPT !.caps[op.cap].sound = FALSE]
                     [] OTHER ->
                          /\ Done
                          /\ s' = [f EXCEPT !.caps[op.cap].startup = FALSE,
                                            !.caps[op.cap].active = TRUE,
                                            !.shown = op.cap, !.busy = FALSE]
        /\ UNCHANGED <<presenter, wire, news, spent>>

\* Faulty: audio that ended while starting stays with the senders.
SoundKept ==
    /\ Running /\ Now.kind = "start" /\ Now.at = "tail"
    /\ IF ~VideoLive(Now) THEN GaveUp(Now, live)
       ELSE /\ s' = [s EXCEPT !.caps[Now.cap].startup = FALSE, !.caps[Now.cap].active = TRUE,
                              !.shown = Now.cap, !.busy = FALSE]
            /\ Done /\ UNCHANGED live
    /\ UNCHANGED <<presenter, wire, news, spent>>

\* The audio that ended while starting has been taken back from all senders.
SoundTakenBack ==
    /\ Running /\ Now.kind = "start" /\ Now.at = "tail"
    /\ IF ~VideoLive(Now) THEN GaveUp(Now, live)
       ELSE /\ s' = [s EXCEPT !.sender["audio"] = [p \in Peers |-> 0],
                              !.caps[Now.cap].startup = FALSE, !.caps[Now.cap].active = TRUE,
                              !.shown = Now.cap, !.busy = FALSE]
            /\ Done /\ UNCHANGED live
    /\ UNCHANGED <<presenter, wire, news, spent>>

\* A sender fails, or times out: its peer is closed and the start given up.
ReplaceFails(p) ==
    LET c == Now.cap
        gone == Now.gen = s.gen /\ p \in s.peers
        f == IF gone THEN RemovedPeer(p) ELSE s
    IN  /\ Running /\ Now.kind = "start" /\ Spend
        /\ \/ Now.at \in {"video", "sound"} /\ p = Now.peer
           \/ Now.at = "tail" /\ s.sender["audio"][p] = c
        /\ live' = live \ Tracks(c)
        /\ s' = [f EXCEPT !.caps[c].stopping = TRUE, !.caps[c].active = FALSE,
                          !.cap = IF @ = c THEN 0 ELSE @]
        /\ IF Now.gen = s.gen THEN Waits([Now EXCEPT !.at = "detach", !.peer = "none", !.done = {}])
                              ELSE Done
        /\ UNCHANGED <<presenter, wire, news>>

(* The ends of it.                                                         *)

StopPresentation ==
    /\ s.cap # 0 /\ s.caps[s.cap].active /\ Len(queue) < MaxQueue
    /\ queue' = Append(queue, Queued("stop", s.cap, s.gen))
    /\ UNCHANGED <<s, live, presenter, wire, news, spent>>

\* The user or the browser ends a track of the capture.
TrackEnds(kind) ==
    LET c == s.cap
        ended == IF kind = "video" THEN [s EXCEPT !.caps[c].videoEnded = TRUE]
                                   ELSE [s EXCEPT !.caps[c].audioEnded = TRUE]
        op == Queued(IF kind = "video" THEN "stop" ELSE "audio", c, s.gen)
    IN  /\ c # 0 /\ <<kind, c>> \in live /\ Spend
        /\ Len(queue) < MaxQueue \/ ~s.caps[c].active
        /\ live' = live \ {<<kind, c>>}
        /\ s' = ended
        /\ queue' = IF s.caps[c].active THEN Append(queue, op) ELSE queue
        /\ UNCHANGED <<presenter, wire, news>>

Stops(op) == s.cap = op.cap /\ op.cap # 0 /\ op.gen = s.gen /\ ~s.caps[op.cap].stopping

\* stopPresentationCapture.
StopRuns ==
    /\ Running /\ Now.kind = "stop" /\ Now.at = "queued"
    /\ IF ~Stops(Now) THEN Done /\ UNCHANGED <<s, live, wire>>
       ELSE /\ s' = [s EXCEPT !.caps[Now.cap].stopping = TRUE, !.caps[Now.cap].active = FALSE,
                              !.shown = 0, !.busy = TRUE]
            /\ wire' = Append(wire, "stop")
            /\ live' = live \ Tracks(Now.cap)
            /\ Waits([Now EXCEPT !.at = "detach"])
    /\ UNCHANGED <<presenter, news, spent>>

\* stopPresentationAudio, up to the first sender.
AudioRuns ==
    /\ Running /\ Now.kind = "audio" /\ Now.at = "queued"
    /\ IF ~(Stops(Now) /\ s.caps[Now.cap].active) THEN Done /\ UNCHANGED <<s, live>>
       ELSE /\ s' = [s EXCEPT !.busy = TRUE, !.caps[Now.cap].audioEnded = TRUE,
                              !.caps[Now.cap].sound = FALSE]
            /\ live' = live \ {<<"audio", Now.cap>>}
            /\ Waits([Now EXCEPT !.at = "tail"])
    /\ UNCHANGED <<presenter, wire, news, spent>>

\* Faulty: the transition is not ended.
AudioStoppedSilently ==
    /\ Running /\ Now.kind = "audio" /\ Now.at = "tail"
    /\ Done
    /\ s' = IF Stops(Now) THEN [s EXCEPT !.sender["audio"] = [p \in Peers |-> 0]] ELSE s
    /\ UNCHANGED <<live, presenter, wire, news, spent>>

\* And then the presentation goes on in silence.
AudioStopped ==
    /\ Running /\ Now.kind = "audio" /\ Now.at = "tail"
    /\ Done
    /\ s' = IF Stops(Now) THEN [s EXCEPT !.busy = FALSE, !.sender["audio"] = [p \in Peers |-> 0]]
                          ELSE s
    /\ UNCHANGED <<live, presenter, wire, news, spent>>

\* clearPresentation, which the event of another presenter enqueued.
ClearRuns ==
    /\ Running /\ Now.kind = "clear" /\ Now.at = "queued"
    /\ IF Now.gen # s.gen THEN Done /\ UNCHANGED <<s, live>>
       ELSE /\ s' = [s EXCEPT !.caps = IF s.cap = 0 THEN @ ELSE
                                 [@ EXCEPT ![s.cap].stopping = TRUE, ![s.cap].active = FALSE],
                              !.cap = 0, !.shown = 0, !.busy = TRUE]
            /\ live' = live \ Tracks(s.shown)
            /\ Waits([Now EXCEPT !.at = "detach"])
    /\ UNCHANGED <<presenter, wire, news, spent>>

\* Faulty: the senders keep the track that is not shown any more.
DetachNothing ==
    /\ Running /\ Now.at = "detach"
    /\ Done
    /\ s' = [s EXCEPT !.busy = @ /\ Now.gen # s.gen, !.cap = IF Now.gen = s.gen THEN 0 ELSE @]
    /\ wire' = IF Now.kind = "start" /\ Now.gen = s.gen THEN Append(wire, "stop") ELSE wire
    /\ UNCHANGED <<live, presenter, news, spent>>

\* detachPresentationSenders: one peer after the other, then the operation ends.
Detach ==
    LET senders == {p \in Peers : \E k \in Kinds : s.sender[k][p] # 0}
        p == NextPeer(Now, senders)
        f == [s EXCEPT !.sender = [k \in Kinds |-> [@[k] EXCEPT ![p] = 0]]]
    IN  /\ Running /\ Now.at = "detach"
        /\ CASE Now.gen # s.gen -> Done /\ UNCHANGED <<s, wire>>
             [] Now.gen = s.gen /\ p # "none" ->
                  Waits([Now EXCEPT !.done = @ \cup {p}]) /\ s' = f /\ UNCHANGED wire
             [] OTHER ->
                  /\ Done
                  /\ s' = [s EXCEPT !.busy = FALSE, !.cap = 0, !.shown = 0]
                  /\ wire' = IF Now.kind = "start" THEN Append(wire, "stop") ELSE wire
        /\ UNCHANGED <<live, presenter, news, spent>>

(* The call and its peers.                                                 *)

\* terminal, and the next call with whoever is in it.
Leave(peers) ==
    /\ s.gen < MaxGen
    /\ live' = live \ Tracks(s.shown)
    /\ s' = [s EXCEPT !.gen = @ + 1, !.cap = 0, !.shown = 0, !.busy = FALSE, !.peers = peers,
                      !.sender = NoSenders,
                      !.caps = IF s.cap = 0 THEN @ ELSE
                                 [@ EXCEPT ![s.cap].stopping = TRUE, ![s.cap].active = FALSE]]
    /\ presenter' = 0 /\ wire' = <<>> /\ news' = <<>>
    /\ UNCHANGED <<queue, spent>>

\* Faulty: only the peers that were there get the presentation.
ConnectedBare(p) == [s EXCEPT !.peers = @ \cup {p}]

\* connectionFor: a late joiner gets the tracks of what is presented.
Connected(p) ==
    [s EXCEPT !.peers = @ \cup {p}, !.sender["video"][p] = s.shown,
              !.sender["audio"][p] =
                 IF s.shown # 0 /\ s.caps[s.shown].sound THEN s.shown ELSE 0]

PeerJoins(p) ==
    /\ p \notin s.peers /\ Spend
    /\ LateJoins \/ ~(Running /\ Now.kind = "start" /\ Now.at = "tail")
    /\ s' = Connected(p)
    /\ UNCHANGED <<queue, live, presenter, wire, news>>

PeerGoes(p) ==
    /\ p \in s.peers /\ Spend
    /\ s' = RemovedPeer(p)
    /\ queue' = [i \in DOMAIN queue |-> Forgotten(queue[i], p)]
    /\ UNCHANGED <<live, presenter, wire, news>>

\* Faulty: another presenter changes nothing.
PresenterHeardOnly ==
    /\ news # <<>> /\ news' = Tail(news)
    /\ UNCHANGED <<s, queue, live, presenter, wire, spent>>

\* A room event or a snapshot names the presenter.
PresenterHeard ==
    /\ news # <<>> /\ news' = Tail(news)
    /\ queue' = IF s.shown # 0 /\ Head(news) = 2
                  THEN Enqueue(queue, Queued("clear", 0, s.gen)) ELSE queue
    /\ Head(news) = 2 /\ s.shown # 0 => Len(queue) < MaxQueue
    /\ UNCHANGED <<s, live, presenter, wire, spent>>

(* The server, external.                                                   *)

\* Only who presents can stop; whoever starts presents.
ServerSets ==
    /\ wire # <<>> /\ wire' = Tail(wire)
    /\ presenter' = IF Head(wire) = "start" THEN 1 ELSE IF presenter = 1 THEN 0 ELSE presenter
    /\ news' = IF Head(wire) = "start" \/ presenter = 1 THEN Append(news, presenter') ELSE news
    /\ UNCHANGED <<s, queue, live, spent>>

PeerPresents ==
    /\ presenter # 2 /\ s.peers # {} /\ Spend
    /\ Overtakes \/ ~(wire # <<>> \/ Running)
    /\ presenter' = 2 /\ news' = Append(news, 2)
    /\ UNCHANGED <<s, queue, live, wire>>

Next ==
    \/ StartPresentation \/ StartRuns \/ NotPicked \/ \E sound \in BOOLEAN : Picked(sound)
    \/ VideoReplaced \/ SoundReplaced \/ SoundTakenBack
    \/ StopPresentation \/ \E kind \in Kinds : TrackEnds(kind)
    \/ StopRuns \/ AudioRuns \/ AudioStopped \/ ClearRuns \/ Detach
    \/ \E peers \in SUBSET Peers : Leave(peers)
    \/ \E p \in Peers : ReplaceFails(p) \/ PeerJoins(p) \/ PeerGoes(p)
    \/ PresenterHeard \/ ServerSets \/ PeerPresents

Spec == Init /\ [][Next]_vars

\* A sender answers or times out, and what waits for it goes on. Nobody has to
\* answer the picker of the browser.
SendersAnswer == VideoReplaced \/ SoundReplaced \/ SoundTakenBack
QueueRuns == StopRuns \/ AudioRuns \/ AudioStopped \/ ClearRuns \/ Detach
LiveSpec == Spec /\ WF_vars(StartRuns) /\ WF_vars(SendersAnswer) /\ WF_vars(QueueRuns)

(* Properties.                                                             *)

Idle == ~Running

\* A screen that is captured is presented, or being started: a call that ends, a
\* peer that fails or another presenter leaves no capture on.
CapturesAreOwned ==
    \A t \in live : t[2] = s.shown \/ (Running /\ Now.kind = "start" /\ Now.cap = t[2])

\* Between operations every peer is sent what is shown, and nothing else: also
\* who came, went or was closed meanwhile.
EveryPeerIsSent == Idle => \A p \in s.peers : s.sender["video"][p] = s.shown

\* Between operations no peer is sent system audio that has ended, or that of a
\* presentation that is over.
AudioFollowsVideo ==
    Idle => \A p \in Peers : LET c == s.sender["audio"][p]
                            IN  c = 0 \/ (c = s.shown /\ <<"audio", c>> \in live)

\* Nothing is in transition when nothing runs: the buttons are not left disabled.
TransitionsEnd == Idle => ~s.busy /\ s.cap = s.shown

\* Who is told "You are presenting." is the presenter of the room.
SharingIsPresenting ==
    Idle /\ wire = <<>> /\ news = <<>> => (s.shown # 0 => presenter = 1)

\* A room has no presenter who presents nothing.
PresenterIsSharing ==
    Idle /\ wire = <<>> /\ news = <<>> => (presenter = 1 => s.shown # 0)

\* Whatever fails, ends or leaves on the way, a transition is over in the end,
\* unless the user leaves the picker of the browser open.
PickerIsOpen == Running /\ Now.at = "picking"
TransitionIsOver == s.busy ~> ~s.busy \/ PickerIsOpen
=============================================================================
