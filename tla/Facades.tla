------------------------------- MODULE Facades -------------------------------
(***************************************************************************)
(* The two call facades of one tab: direct calls, and the rooms of group   *)
(* calls. Each has its own requests, events, generations and captures;     *)
(* they share no state.                                                    *)
(***************************************************************************)
EXTENDS CallFacade

CONSTANTS
    MaxRooms, MaxRev, Lossy, Refusals, EarlyEnds, FullEnds,
    Races                                                   \* of GroupCall

VARIABLES group, asks, tells, rooms, linked, closed, moves  \* of GroupCall

groupVars == <<group, asks, tells, rooms, linked, closed, moves>>

Group == INSTANCE GroupCall WITH
    g <- group, up <- asks, down <- tells, server <- rooms, ready <- linked,
    ended <- closed, spent <- moves

\* A microphone is captured for the room of now only; a room that has ended does not
\* come back; one that is established neither goes back to an older revision nor
\* becomes another one by a late frame, except by the end of another that comes with
\* its roster; and no late microphone of an earlier call changes it
\* (group-call-facade.service.ts:595, :784, :790).
RoomHolds ==
    /\ [](Group!TypeOK /\ Group!MicrophoneIsOwned /\ Group!EndedStaysEnded)
    /\ [][Group!EstablishedRoomHolds /\ Group!LateGrantIsFenced]_groupVars
=============================================================================
