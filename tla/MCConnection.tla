---------------------------- MODULE MCConnection ----------------------------
(***************************************************************************)
(* The connection of the frontend, the list of Home, and the tooltips of a *)
(* group's list of members. They share no state: a behaviour is of one of  *)
(* them, in one scene, and the others rest.                                *)
(***************************************************************************)
EXTENDS HomeConnection

CONSTANTS chat1, tip1, tip2, tip3

VARIABLES
    scene,
    list, dom, shown, inputs                                \* of MemberTooltips

tooltipVars == <<list, dom, shown, inputs>>

Hovering == INSTANCE MemberTooltips WITH
    c <- list, spent <- inputs, Tips <- {tip1, tip2, tip3}, MaxEvents <- 8

ASSUME Lists!HomeSyncAssumption /\ Hovering!MemberTooltipsAssumption

Rests == "rests"
NoTooltips == list = Rests /\ dom = Rests /\ shown = Rests /\ inputs = Rests

\* The list in two scenes: two moves that may overtake a list, or three that do not.
InScene ==
    \/ scene = "anytime" /\ moves' <= 2
    \/ scene = "orderly" /\ home'.upset \subseteq {"rejected", "early"}

\* Of the initial lists one for each part that rests.
MCInit ==
    /\ scene \in {"connecting", "anytime", "orderly", "hovering"}
    /\ Init /\ Lists!Init
    /\ home.saved # "none" \/ chats.at[chat1] # "nowhere" => scene \in {"anytime", "orderly"}
    /\ IF scene = "hovering" THEN Hovering!Init ELSE NoTooltips

MCNext ==
    \/ scene = "connecting" /\ Next /\ UNCHANGED <<scene, homeVars, tooltipVars>>
    \/ Lists!Next /\ InScene /\ UNCHANGED <<scene, vars, tooltipVars>>
    \/ scene = "hovering" /\ Hovering!Next /\ UNCHANGED <<scene, vars, homeVars>>

\* What HomeSync assumes to keep running, in the scene where anything may come; the browser draws frames
\* and lets timers run out.
MCFairness ==
    /\ WF_vars(scene = "connecting" /\ getObservable)
    /\ WF_vars(scene = "connecting" /\ TimerFires)
    /\ WF_vars(scene = "connecting" /\ \E g \in tickets : TicketArrives(g) \/ TicketFails(g))
    /\ WF_vars(scene = "connecting" /\ \E g \in opening : SocketOpens(g) \/ SocketCloses(g))
    /\ WF_homeVars(scene = "anytime" /\ Lists!ListsGoOn)
    /\ WF_homeVars(scene = "anytime" /\ Lists!Reconnects)
    /\ WF_homeVars(scene = "anytime" /\ Lists!PresenceSnapshot)
    /\ WF_homeVars(scene = "anytime" /\ \E ask \in home.asks : Lists!Reconciled(ask))
    /\ WF_tooltipVars(scene = "hovering" /\ Hovering!AnimationFrame)
    /\ WF_tooltipVars(scene = "hovering" /\ Hovering!FinishScrollHideSettle)

MCSpec == MCInit /\ [][MCNext]_<<scene, vars, homeVars, tooltipVars>> /\ MCFairness

-----------------------------------------------------------------------------
\* What Home has begun comes to an end. A recovery gets the connection ready, fails or is
\* closed (home.component.ts:1191). In the list of members one tooltip is owned once frames
\* and scrolling have settled, the one that won is shown, and scrolling hides it
\* (group-member-list.component.ts:93, :219); the button that has the focus and the turn
\* gets its tooltip or loses its turn, so no frame or timer is forgotten (:205). The
\* buttons are alike: this is of one of them.
HomeSettles ==
    /\ scene = "anytime" /\ home.state = "recovering" ~> home.state # "recovering"
    /\ [](scene = "hovering" =>
            Hovering!TypeOK /\ Hovering!OneOwned /\ Hovering!WinnerShown /\ Hovering!ScrollHides)
    /\ scene = "hovering" /\ list.focused = tip1 /\ list.active = tip1
         ~> scene = "hovering" /\ (tip1 \in shown \/ list.active # tip1)
=============================================================================
