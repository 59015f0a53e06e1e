---------------------------- MODULE MemberTooltips ----------------------------
(***************************************************************************)
(* The tooltips of the member actions, group-member-list.component.ts: who *)
(* owns the one that is shown, focus or pointer, while the list scrolls    *)
(* under a pointer that stands still, animation frames are queued and      *)
(* cancelled, and members are removed. Material's own tooltip, which shows *)
(* and hides at the same events, is modelled by its effect.                *)
(***************************************************************************)
EXTENDS Naturals, Sequences, SequencesExt

CONSTANTS
    Tips,           \* the tooltips of the action buttons
    MaxEvents       \* events of the user

MemberTooltipsAssumption == MaxEvents \in Nat /\ "none" \notin Tips

VARIABLES
    c,          \* the component, see Component
    dom,        \* what the page has: buttons, the focus, the pointer
    shown,      \* tooltips on the screen
    spent       \* of MaxEvents

vars == <<c, dom, shown, spent>>

TipOrNone == Tips \cup {"none"}

\* A request to show, with the intent that has to be current when it is carried out.
Show == [do : {"show"}, tip : Tips, why : {"focus", "hover", "either"}]
Hide == [do : {"hide"}, tip : Tips]
NoShow == [do |-> "none"]

Component ==
    [suppress : BOOLEAN,        \* suppressHoverAfterScroll
     focused : TipOrNone, hovered : TipOrNone, active : TipOrNone,
     frames : Seq(Show \cup Hide),      \* queuedShowFrame and queuedHideFrames, in order
     pending : Show \cup {NoShow},      \* pendingTooltipShow
     awaiting : BOOLEAN,        \* awaitingScrollHideSettle, and its timer
     hiding : BOOLEAN,          \* tooltipHideInProgressUntil is in the future
     disabled : SUBSET Tips]

TypeOK ==
    /\ c \in Component /\ shown \subseteq dom.here /\ spent \in 0 .. MaxEvents
    /\ dom \in [here : SUBSET Tips, focus : TipOrNone, pointer : TipOrNone]

Event == spent < MaxEvents /\ spent' = spent + 1

(* Helpers of the component.                                               *)

\* Faulty: the tooltips work again as soon as the scroll has settled.
IsDisabledBriefly(h, t) == h.awaiting

\* isTooltipDisabled.
IsDisabled(h, t) == h.awaiting \/ (h.suppress /\ h.focused # t)

\* The view is checked: the buttons are bound to isTooltipDisabled again.
Checked(h) == [h EXCEPT !.disabled = {t \in Tips : IsDisabled(h, t)}]

IsCurrent(h, s) ==
    /\ h.active = s.tip
    /\ CASE s.why = "focus" -> h.focused = s.tip
         [] s.why = "hover" -> h.hovered = s.tip /\ ~h.suppress
         [] OTHER -> (h.focused = s.tip \/ h.hovered = s.tip) /\ ~h.suppress

Hides(frames) == SelectSeq(frames, LAMBDA f : f.do = "hide")

\* Faulty: a request is queued while the tooltips of a scroll are still closing.
ScheduledAtOnce(h, t, why) ==
    [h EXCEPT !.frames = Append(Hides(@), [do |-> "show", tip |-> t, why |-> why])]

\* scheduleTooltipShow.
Scheduled(h, t, why) ==
    LET s == [do |-> "show", tip |-> t, why |-> why]
    IN  IF h.awaiting THEN [h EXCEPT !.pending = s]
        ELSE [h EXCEPT !.frames = Append(Hides(@), s)]

\* cancelQueuedShow.
Unscheduled(h) == [h EXCEPT !.pending = NoShow, !.frames = Hides(@)]

\* scheduleTooltipHide.
HideScheduled(h, t) == [h EXCEPT !.frames = Append(@, [do |-> "hide", tip |-> t])]

\* Faulty: the tooltip that was active stays.
ActivatedAlone(h, t) == [h EXCEPT !.active = t]

\* activateTooltip.
Activated(h, t) ==
    [(IF h.active \notin {"none", t} THEN HideScheduled(h, h.active) ELSE h) EXCEPT !.active = t]

\* What is left to show when focus or pointer is gone.
Remaining(h) ==
    IF h.focused # "none" THEN h.focused ELSE IF h.suppress THEN "none" ELSE h.hovered

\* hideTooltips.
Hidden(h) ==
    LET settling == h.awaiting \/ h.active # "none" \/ h.pending # NoShow \/ h.frames # <<>>
                        \/ h.hiding
    IN  [h EXCEPT !.suppress = TRUE, !.focused = "none", !.hovered = "none", !.active = "none",
                  !.frames = <<>>, !.pending = NoShow, !.awaiting = settling]

\* pruneRemovedTooltipIntents.
Pruned(h, here) ==
    LET Kept(t) == IF t \in here THEN t ELSE "none"
        g == [h EXCEPT !.focused = Kept(@), !.hovered = Kept(@), !.active = Kept(@),
                       !.pending = IF @ # NoShow /\ @.tip \notin here THEN NoShow ELSE @]
    IN  IF g.active = "none" THEN Unscheduled(g) ELSE g

(* Handlers. Material hides what is disabled.                              *)

Init ==
    /\ c = [suppress |-> FALSE, focused |-> "none", hovered |-> "none", active |-> "none",
            frames |-> <<>>, pending |-> NoShow, awaiting |-> FALSE, hiding |-> FALSE,
            disabled |-> {}]
    /\ dom = [here |-> Tips, focus |-> "none", pointer |-> "none"]
    /\ shown = {} /\ spent = 0

\* The component's handler has run, and Material's with it.
Handled(h, visible) == c' = Checked(h) /\ shown' = visible \ c'.disabled

\* The focus comes to a button.
ShowTooltipOnFocus(t) ==
    /\ dom.focus = "none" /\ t \in dom.here /\ Event
    /\ dom' = [dom EXCEPT !.focus = t]
    /\ LET g == IF c.active \notin {"none", t, c.focused} THEN HideScheduled(c, c.active) ELSE c
       IN  Handled(Scheduled([g EXCEPT !.suppress = FALSE, !.focused = t, !.active = t], t, "focus"),
                   IF t \in c.disabled THEN shown ELSE shown \cup {t})

\* The pointer enters a button, or a scroll moves a button under it.
ShowTooltipOnHover(t) ==
    /\ dom.pointer = "none" /\ t \in dom.here /\ Event
    /\ dom' = [dom EXCEPT !.pointer = t]
    /\ Handled(IF c.suppress THEN c
               ELSE Scheduled(Activated([c EXCEPT !.hovered = t], t), t, "hover"),
               IF t \in c.disabled THEN shown ELSE shown \cup {t})

HideTooltipOnBlur(t) ==
    /\ dom.focus = t /\ t # "none" /\ Event
    /\ dom' = [dom EXCEPT !.focus = "none"]
    /\ LET g == [c EXCEPT !.focused = IF @ = t THEN "none" ELSE @]
           left == Remaining(g)
       IN  Handled(IF left # "none" THEN Scheduled([g EXCEPT !.active = left], left, "either")
                   ELSE [Unscheduled(g) EXCEPT !.active = IF @ = t THEN "none" ELSE @,
                                               !.hiding = TRUE],
                   shown \ {t})

\* Faulty: the tooltip that focus still owns is not shown again.
HideTooltipOnLeaveForGood(t) ==
    /\ dom.pointer = t /\ t # "none" /\ Event
    /\ dom' = [dom EXCEPT !.pointer = "none"]
    /\ LET g == [c EXCEPT !.hovered = IF @ = t THEN "none" ELSE @]
           left == Remaining(g)
       IN  Handled(HideScheduled(Unscheduled([g EXCEPT !.active = left]), t), shown \ {t})

HideTooltipOnLeave(t) ==
    /\ dom.pointer = t /\ t # "none" /\ Event
    /\ dom' = [dom EXCEPT !.pointer = "none"]
    /\ LET g == [c EXCEPT !.hovered = IF @ = t THEN "none" ELSE @]
           left == Remaining(g)
           s == Scheduled([g EXCEPT !.active = left], left, "either")
       IN  Handled(CASE left = t -> s
                     [] left # "none" -> HideScheduled(s, t)
                     [] OTHER -> HideScheduled(Unscheduled(
                                    [g EXCEPT !.active = IF @ = t THEN "none" ELSE @]), t),
                   shown \ {t})

\* restoreHoverOnPointerMove, and restoreHoverAfterPointerLeavesActions off the buttons.
PointerMoves ==
    /\ c.suppress /\ Event
    /\ LET g == [c EXCEPT !.suppress = FALSE]
           t == dom.pointer
       IN  Handled(IF t = "none" THEN g
                   ELSE Scheduled(Activated([g EXCEPT !.hovered = t], t), t, "hover"), shown)
    /\ UNCHANGED dom

\* onMemberListScroll, a scroll of the page or of the panel, or hideTooltipsWhenTargetsMove.
Scroll ==
    /\ Event
    /\ Handled(Hidden(c), {})
    /\ UNCHANGED dom

\* Faulty: the tooltip outlives its button.
MemberRemovedVisibly(t) ==
    /\ t \in dom.here /\ Event
    /\ dom' = [dom EXCEPT !.here = @ \ {t}]
    /\ Handled(c, shown)

\* The members change, and a button is gone without an event of its own.
MemberRemoved(t) ==
    /\ t \in dom.here /\ Event
    /\ dom' = [here |-> dom.here \ {t}, focus |-> IF dom.focus = t THEN "none" ELSE dom.focus,
               pointer |-> IF dom.pointer = t THEN "none" ELSE dom.pointer]
    /\ Handled(Pruned(c, dom'.here), shown \ {t})

(* Frames and timers.                                                      *)

\* One callback: what it shows or hides depends on what the component wants by then.
Painted(now, f) ==
    CASE f.do = "show" /\ IsCurrent(c, f) /\ f.tip \in dom.here \ c.disabled ->
            [now EXCEPT !.shown = @ \cup {f.tip}]
      [] f.do = "hide" /\ c.active # f.tip /\ f.tip \in dom.here ->
            [shown |-> now.shown \ {f.tip}, hiding |-> TRUE]
      [] OTHER -> now

\* An animation frame runs all callbacks that are queued.
AnimationFrame ==
    /\ c.frames # <<>>
    /\ LET now == FoldLeft(Painted, [shown |-> shown, hiding |-> c.hiding], c.frames)
       IN  /\ shown' = now.shown
           /\ c' = [c EXCEPT !.frames = <<>>, !.hiding = now.hiding]
    /\ UNCHANGED <<dom, spent>>

\* The time a tooltip takes to hide is over.
HideEnds ==
    /\ c.hiding
    /\ c' = [c EXCEPT !.hiding = FALSE]
    /\ UNCHANGED <<dom, shown, spent>>

\* finishScrollHideSettle: the view is checked only when an intent has waited for it.
FinishScrollHideSettle ==
    /\ c.awaiting
    /\ LET g == [c EXCEPT !.awaiting = FALSE, !.hiding = FALSE, !.pending = NoShow]
           s == c.pending
       IN  IF s # NoShow /\ IsCurrent(g, s) /\ s.tip \in dom.here
             THEN Handled(Scheduled(g, s.tip, s.why), shown)
             ELSE c' = g /\ UNCHANGED shown
    /\ UNCHANGED <<dom, spent>>

Next ==
    \/ \E t \in Tips : ShowTooltipOnFocus(t)
    \/ \E t \in Tips : ShowTooltipOnHover(t)
    \/ \E t \in Tips : HideTooltipOnBlur(t)
    \/ \E t \in Tips : HideTooltipOnLeave(t)
    \/ PointerMoves \/ Scroll
    \/ \E t \in Tips : MemberRemoved(t)
    \/ AnimationFrame \/ HideEnds \/ FinishScrollHideSettle

Spec == Init /\ [][Next]_vars
FairSpec == Spec /\ WF_vars(AnimationFrame) /\ WF_vars(FinishScrollHideSettle)

(* Properties.                                                             *)

\* No frame is queued and no scroll is being settled.
Settled == c.frames = <<>> /\ ~c.awaiting

\* At most one tooltip is on the screen then, that of a button which has the focus or the
\* pointer: none is left by an intent that is over.
OneOwned ==
    Settled => \A t \in shown : t = c.active /\ t \in {dom.focus, dom.pointer}

\* The tooltip that won is shown, whatever was hidden while it was waiting.
WinnerShown == Settled /\ c.active # "none" => c.active \in shown

\* Until a scroll has settled, and until the pointer moves or the focus comes back after it,
\* nothing is shown.
ScrollHides == c.awaiting \/ c.suppress => shown = {}

\* A button whose focus lasts gets its tooltip, unless another one takes over.
FocusIsServed ==
    \A t \in Tips : c.focused = t /\ c.active = t ~> t \in shown \/ c.active # t
=============================================================================
