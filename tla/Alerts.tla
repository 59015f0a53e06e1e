-------------------------------- MODULE Alerts --------------------------------
(***************************************************************************)
(* The alert mode of a browser and the ringtone of an incoming call:       *)
(* notification.service.ts, home-notification.service.ts and the choice on *)
(* the profile page. A choice asks the browser to unlock sounds and to     *)
(* permit notifications, and both answers take their time. The page of the *)
(* profile and Home are never shown together.                              *)
(***************************************************************************)
EXTENDS Naturals, FiniteSets

CONSTANTS
    MaxChoices,     \* choices on the profile page
    MaxPages        \* changes of the page, and reloads

AlertsAssumption == {MaxChoices, MaxPages} \subseteq Nat

VARIABLES
    alerts,     \* the service, see Alerts
    asks,       \* choices that wait for the browser
    browser,    \* the permission, and whether the page is open at the profile or at Home
    phase,      \* of the call, as Home knows it
    spent

vars == <<alerts, asks, browser, phase, spent>>

Mode == {"off", "sounds", "notifications"}
Permission == {"default", "granted", "denied"}
Phase == {"idle", "incoming", "busy"}

Alerts == [mode : Mode, stored : Mode, permission : Permission, ringing : BOOLEAN]

\* A choice: whether sounds are unlocked, and the permission it has seen.
Ask == [id : Nat, kind : {"enable", "enableSounds"}, unlocked : {"waiting", "yes", "no"},
        prompt : {"waiting"} \cup Permission]

TypeOK ==
    /\ alerts \in Alerts /\ phase \in Phase
    /\ IsFiniteSet(asks) /\ asks \subseteq Ask
    /\ browser \in [permission : Permission, page : {"profile", "home"}]
    /\ spent \in [choices : 0 .. MaxChoices, pages : 0 .. MaxPages]

(* The service.                                                            *)

\* setMode.
WithMode(a, m) == [a EXCEPT !.mode = m, !.stored = m]

\* startCallRingtone.
Rings(a) == [a EXCEPT !.ringing = @ \/ a.mode # "off"]

\* stopCallRingtone.
Silent(a) == [a EXCEPT !.ringing = FALSE]

\* Home's subscription to permissionChanges, while there is a Home.
PermissionSeen(a) == IF browser.page = "home" /\ phase = "incoming" THEN Rings(a) ELSE a

(* The page is loaded.                                                     *)

Started(stored) ==
    [mode |-> stored, stored |-> stored, permission |-> browser.permission, ringing |-> FALSE]

Init ==
    /\ browser \in [permission : Permission, page : {"profile"}]
    /\ alerts = Started("off") /\ asks = {} /\ phase = "idle"
    /\ spent = [choices |-> 0, pages |-> 0]

Reload ==
    /\ spent.pages < MaxPages /\ spent' = [spent EXCEPT !.pages = @ + 1]
    /\ alerts' = Started(alerts.stored) /\ asks' = {} /\ phase' = "idle"
    /\ UNCHANGED browser

(* The user chooses.                                                       *)

FreeId == CHOOSE i \in 0 .. Cardinality(asks) : \A r \in asks : r.id # i
Chooses ==
    /\ browser.page = "profile"
    /\ spent.choices < MaxChoices /\ spent' = [spent EXCEPT !.choices = @ + 1]

\* Unlocking and the prompt begin in the click; a settled permission is not asked for again.
Enable ==
    /\ Chooses
    /\ asks' = asks \cup {[id |-> FreeId, kind |-> "enable", unlocked |-> "waiting",
                           prompt |-> IF browser.permission = "default" THEN "waiting"
                                      ELSE browser.permission]}
    /\ UNCHANGED <<alerts, browser, phase>>

EnableSounds ==
    /\ Chooses
    /\ asks' = asks \cup {[id |-> FreeId, kind |-> "enableSounds", unlocked |-> "waiting",
                           prompt |-> "default"]}
    /\ UNCHANGED <<alerts, browser, phase>>

Disable ==
    /\ Chooses
    /\ alerts' = Silent(WithMode(alerts, "off"))
    /\ UNCHANGED <<asks, browser, phase>>

(* The browser answers.                                                    *)

Unlocks(r, answer) ==
    /\ r.unlocked = "waiting"
    /\ asks' = (asks \ {r}) \cup {[r EXCEPT !.unlocked = answer]}
    /\ UNCHANGED <<alerts, browser, phase, spent>>

\* The prompt is answered, or dismissed and the permission is still the default.
PromptAnswered(r, p) ==
    /\ r.prompt = "waiting"
    /\ browser' = [browser EXCEPT !.permission = IF @ = "default" THEN p ELSE @]
    /\ asks' = (asks \ {r}) \cup {[r EXCEPT !.prompt = browser'.permission]}
    /\ UNCHANGED <<alerts, phase, spent>>

\* The rest of enable.
Enabled(r) ==
    /\ r.kind = "enable" /\ r.unlocked # "waiting" /\ r.prompt # "waiting"
    /\ asks' = asks \ {r}
    /\ alerts' = PermissionSeen([WithMode(alerts, CASE r.unlocked = "no" -> "off"
                                                   [] r.prompt = "granted" -> "notifications"
                                                   [] OTHER -> "sounds")
                                 EXCEPT !.permission = r.prompt])
    /\ UNCHANGED <<browser, phase, spent>>

\* The rest of enableSounds.
SoundsEnabled(r) ==
    /\ r.kind = "enableSounds" /\ r.unlocked # "waiting"
    /\ asks' = asks \ {r}
    /\ alerts' = WithMode(alerts, IF r.unlocked = "yes" THEN "sounds" ELSE "off")
    /\ UNCHANGED <<browser, phase, spent>>

(* Home.                                                                   *)

\* Home is opened: its subscriptions see a call that is idle.
OpenHome ==
    /\ browser.page = "profile"
    /\ spent.pages < MaxPages /\ spent' = [spent EXCEPT !.pages = @ + 1]
    /\ browser' = [browser EXCEPT !.page = "home"]
    /\ alerts' = Silent(alerts)
    /\ UNCHANGED <<asks, phase>>

\* ngOnDestroy. The call ends with Home.
LeaveHome ==
    /\ browser.page = "home"
    /\ browser' = [browser EXCEPT !.page = "profile"] /\ phase' = "idle"
    /\ alerts' = Silent(alerts)
    /\ UNCHANGED <<asks, spent>>

CallChanges(p) ==
    /\ browser.page = "home" /\ p # phase
    /\ phase' = p
    /\ alerts' = IF p = "incoming" THEN Rings(alerts) ELSE Silent(alerts)
    /\ UNCHANGED <<asks, browser, spent>>

Next ==
    \/ Reload \/ Enable \/ EnableSounds \/ Disable
    \/ \E r \in asks, answer \in {"yes", "no"} : Unlocks(r, answer)
    \/ \E r \in asks, p \in Permission : PromptAnswered(r, p)
    \/ \E r \in asks : Enabled(r)
    \/ \E r \in asks : SoundsEnabled(r)
    \/ OpenHome \/ LeaveHome
    \/ \E p \in Phase : CallChanges(p)

Spec == Init /\ [][Next]_vars

(* Properties.                                                             *)

\* The ringtone is on only while a call is incoming in Home, whenever the browser answers
\* a choice that was made on the page before.
RingsForCall == alerts.ringing => browser.page = "home" /\ phase = "incoming"
=============================================================================
