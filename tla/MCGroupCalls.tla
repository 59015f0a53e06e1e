---------------------------- MODULE MCGroupCalls ----------------------------
(***************************************************************************)
(* The facade of group calls: its rooms and its screen presentations share *)
(* the generation only, so a behaviour is of one of them, in one scene,    *)
(* and the other rests.                                                    *)
(***************************************************************************)
EXTENDS Facades

CONSTANTS peer1, peer2

VARIABLES
    scene,
    late,       \* history: a failure of an older generation has ended a call
    shown, queue, live, presenter, wire, news, shareMoves           \* of GroupPresentation

shareVars == <<shown, queue, live, presenter, wire, news, shareMoves>>

Calling == INSTANCE GroupCall WITH
    g <- group, up <- asks, down <- tells, server <- rooms, ready <- linked, ended <- closed,
    spent <- moves,
    MaxRooms <- 2, MaxRev <- 2, MaxGen <- 3, MaxEffort <- 1, Drops <- FALSE,
    Lossy <- FALSE, Refusals <- FALSE, EarlyEnds <- FALSE,
    FullEnds <- FALSE, Races <- FALSE
Dropping == INSTANCE GroupCall WITH
    g <- group, up <- asks, down <- tells, server <- rooms, ready <- linked, ended <- closed,
    spent <- moves,
    MaxRooms <- 1, MaxRev <- 2, MaxGen <- 3, MaxEffort <- 2, Drops <- TRUE,
    Lossy <- FALSE, Refusals <- FALSE, EarlyEnds <- FALSE,
    FullEnds <- FALSE, Races <- FALSE
Losing == INSTANCE GroupCall WITH
    g <- group, up <- asks, down <- tells, server <- rooms, ready <- linked, ended <- closed,
    spent <- moves,
    MaxRooms <- 1, MaxRev <- 2, MaxGen <- 3, MaxEffort <- 2, Drops <- FALSE,
    Lossy <- TRUE, Refusals <- TRUE, EarlyEnds <- TRUE,
    FullEnds <- FALSE, Races <- FALSE
\* Whatever the code allows for.
Anything == INSTANCE GroupCall WITH
    g <- group, up <- asks, down <- tells, server <- rooms, ready <- linked, ended <- closed,
    spent <- moves,
    MaxRooms <- 2, MaxRev <- 1, MaxGen <- 2, MaxEffort <- 1, Drops <- TRUE,
    Lossy <- TRUE, Refusals <- TRUE, EarlyEnds <- TRUE,
    FullEnds <- TRUE, Races <- TRUE
\* The same in more generations, with little under way at a time: the end of a room may
\* come when the user is in the next one.
Ending == INSTANCE GroupCall WITH
    g <- group, up <- asks, down <- tells, server <- rooms, ready <- linked, ended <- closed,
    spent <- moves,
    MaxRooms <- 2, MaxRev <- 2, MaxGen <- 4, MaxEffort <- 0, Drops <- TRUE,
    Lossy <- TRUE, Refusals <- TRUE, EarlyEnds <- TRUE,
    FullEnds <- TRUE, Races <- TRUE

Presenting == INSTANCE GroupPresentation WITH
    s <- shown, spent <- shareMoves, Peers <- {peer1, peer2}, MaxCaptures <- 2, MaxGen <- 2,
    MaxQueue <- 3, MaxEffort <- 2, Overtakes <- FALSE, LateJoins <- FALSE
Competing == INSTANCE GroupPresentation WITH
    s <- shown, spent <- shareMoves, Peers <- {peer1, peer2}, MaxCaptures <- 2, MaxGen <- 2,
    MaxQueue <- 2, MaxEffort <- 1, Overtakes <- TRUE, LateJoins <- TRUE

ASSUME
    /\ Calling!GroupCallAssumption /\ Dropping!GroupCallAssumption
    /\ Losing!GroupCallAssumption /\ Anything!GroupCallAssumption
    /\ Ending!GroupCallAssumption
    /\ Presenting!GroupPresentationAssumption /\ Competing!GroupPresentationAssumption

RoomScenes == {"calling", "dropping", "losing", "anything", "ending"}
Shares == scene \in {"presenting", "competing"}

NoCalls == \A v \in {"rests"} : f = v /\ up = v /\ down = v /\ server = v /\ ready = v
                               /\ spent = v
NoShares == \A v \in {"rests"} : shown = v /\ queue = v /\ live = v /\ presenter = v
                                /\ wire = v /\ news = v /\ shareMoves = v

MCInit ==
    /\ NoCalls /\ Group!Init /\ late = FALSE
    /\ \/ scene \in RoomScenes /\ NoShares
       \/ scene \in {"presenting", "competing"} /\ Presenting!Init

LittleUnderWay == Len(asks') <= 1 /\ Cardinality(tells') <= 2

Called ==
    \/ scene = "calling" /\ Calling!Next
    \/ scene = "dropping" /\ Dropping!Next
    \/ scene = "losing" /\ Losing!Next
    \/ scene = "anything" /\ Anything!Next
    \/ scene = "ending" /\ Ending!Next /\ LittleUnderWay

Shared ==
    \/ scene = "presenting" /\ Presenting!Next
    \/ scene = "competing" /\ Competing!Next

MCNext ==
    \/ Called /\ late' = (late \/ Group!FailsLate) /\ UNCHANGED <<scene, vars, shareVars>>
    \/ Shared /\ UNCHANGED <<scene, late, vars, groupVars>>

\* What GroupCall and GroupPresentation assume to keep running, where they run.
MCFairness ==
    /\ WF_groupVars(scene = "losing" /\ Losing!Sync)
    /\ WF_groupVars(scene = "losing" /\ Losing!ServerHandles)
    /\ \A type \in {"synced", "rejected"} :
         WF_groupVars(scene = "losing" /\ \E e \in tells : e.type = type /\ Losing!HandleEvent(e))
    /\ WF_shareVars(scene = "competing" /\ Competing!StartRuns)
    /\ WF_shareVars(scene = "competing" /\ Competing!SendersAnswer)
    /\ WF_shareVars(scene = "competing" /\ Competing!QueueRuns)

MCSpec == MCInit /\ [][MCNext]_<<scene, late, vars, groupVars, shareVars>> /\ MCFairness

-----------------------------------------------------------------------------
Orderly == scene \in {"calling", "dropping"}

\* The facade and the server agree on the room: where requests are not refused or
\* overtaken by an early end, who shows itself active has a seat and no seat is left
\* behind (group-call-facade.service.ts:595, :214).
\* The screen and what is sent of it agree once nothing runs: a capture is the one
\* shown, no peer is sent audio that has ended, and no transition is left; and
\* where no peer presents or joins in the middle of one, every peer is sent the
\* screen, and who shares is the presenter (group-call-facade.service.ts:358, :388, :514).
CallsAgree ==
    /\ Orderly /\ ~late => Group!NoSeatIsStranded /\ Group!ActiveIsSeated
    /\ scene = "presenting" => Presenting!TypeOK
    /\ scene = "competing" => Competing!TypeOK
    /\ Shares =>
        /\ Presenting!CapturesAreOwned
        /\ Presenting!AudioFollowsVideo
        /\ Presenting!TransitionsEnd
    /\ scene = "presenting" =>
        /\ Presenting!EveryPeerIsSent
        /\ Presenting!SharingIsPresenting
        /\ Presenting!PresenterIsSharing

\* A room that ended while its event was lost is noticed in the end by the sync
\* loop, and a transition of the screen ends unless its picker stays open
\* (group-call-facade.service.ts:1091, :388).
NothingIsForgotten ==
    /\ scene = "losing" /\ Losing!RoomIsStale ~> scene = "losing" /\ ~Losing!RoomIsStale
    /\ scene = "competing" /\ shown.busy
          ~> scene = "competing" /\ (~shown.busy \/ Competing!PickerIsOpen)
=============================================================================
