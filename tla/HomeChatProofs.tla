--------------------------- MODULE HomeChatProofs ---------------------------
(***************************************************************************)
(* Proofs about the parts of Home, for any number of chats, messages,      *)
(* tokens and moves. Each part has an invariant of its own, which the      *)
(* steps of the others leave alone.                                        *)
(***************************************************************************)
EXTENDS HomeChat, FiniteSetTheorems, SequenceTheorems, WellFoundedInduction, TLAPS

\* Of what is under way there is always an id that is not taken.
LEMMA FreeIds ==
    ASSUME NEW S, IsFiniteSet(S)
    PROVE  \E i \in 0 .. Cardinality(S) : \A r \in S : r.id # i
<1>. DEFINE f == [r \in S |-> r.id]
            T == {r.id : r \in S}
<1>1. f \in Surjection(S, T)
  BY DEF Surjection
<1>2. IsFiniteSet(T) /\ Cardinality(T) <= Cardinality(S)
  BY <1>1, FS_Surjection
<1>3. Cardinality(S) \in Nat /\ Cardinality(T) \in Nat
  BY <1>2, FS_CardinalityType
<1>4. IsFiniteSet(0 .. Cardinality(S)) /\ Cardinality(0 .. Cardinality(S)) = Cardinality(S) + 1
  BY <1>3, FS_Interval
<1>5. ~ (0 .. Cardinality(S) \subseteq T)
  BY <1>2, <1>3, <1>4, FS_Subset
<1>. QED  BY <1>5

\* A request is added, or replaced by its answer.
LEMMA StillFinite ==
    ASSUME NEW S, IsFiniteSet(S), NEW x, NEW y
    PROVE  IsFiniteSet(S \cup {x}) /\ IsFiniteSet(S \ {x}) /\ IsFiniteSet((S \ {x}) \cup {y})
  BY FS_AddElement, FS_RemoveElement

\* The instances count their sets as this module does.
LEMMA OneCardinality ==
    /\ \A S : Alerting!IsFiniteSet(S) <=> IsFiniteSet(S)
    /\ \A S : Alerting!Cardinality(S) = Cardinality(S)
    /\ \A S : Session!IsFiniteSet(S) <=> IsFiniteSet(S)
    /\ \A S : Session!Cardinality(S) = Cardinality(S)
    /\ \A S : Messages!Cardinality(S) = Cardinality(S)
  BY DEF IsFiniteSet, Cardinality, Alerting!IsFiniteSet, Alerting!Cardinality,
         Session!IsFiniteSet, Session!Cardinality, Messages!Cardinality

-----------------------------------------------------------------------------
(* The alerts.                                                             *)

AlertInv ==
    /\ alerts \in Alerting!Alerts /\ phase \in Alerting!Phase
    /\ IsFiniteSet(asks) /\ asks \subseteq Alerting!Ask
    /\ browser \in [permission : Alerting!Permission, page : {"profile", "home"}]
    /\ choices \in [choices : 0 .. MaxChoices, pages : 0 .. MaxPages]
    /\ Alerting!RingsForCall

LEMMA AlertsStart == ASSUME HomeChatAssumption, Alerting!Init  PROVE AlertInv
<1>1. IsFiniteSet(asks)  BY FS_EmptySet DEF Alerting!Init
<1>. QED
  BY <1>1 DEF AlertInv, Alerting!Init, Alerting!RingsForCall, Alerting!Alerts,
     Alerting!Mode, Alerting!Permission, Alerting!Phase, Alerting!Started, HomeChatAssumption,
     Alerting!AlertsAssumption

LEMMA AlertsStep == ASSUME HomeChatAssumption, AlertInv, [Alerting!Next]_alertVars  PROVE AlertInv'
<1>. USE DEF AlertInv, Alerting!RingsForCall, Alerting!Alerts, Alerting!Mode,
             Alerting!Permission, Alerting!Phase
<1>0. MaxChoices \in Nat /\ MaxPages \in Nat
  BY DEF HomeChatAssumption, Alerting!AlertsAssumption
<1>1. \A a \in Alerting!Alerts, m \in Alerting!Mode :
         /\ Alerting!WithMode(a, m) \in Alerting!Alerts /\ Alerting!WithMode(a, m).ringing = a.ringing
         /\ Alerting!Silent(a) \in Alerting!Alerts /\ ~ Alerting!Silent(a).ringing
         /\ Alerting!Rings(a) \in Alerting!Alerts
  BY DEF Alerting!WithMode, Alerting!Silent, Alerting!Rings
<1>2. CASE UNCHANGED alertVars
  BY <1>2 DEF alertVars
<1>3. CASE Alerting!Reload
  BY <1>0, <1>3, FS_EmptySet DEF Alerting!Reload, Alerting!Started
<1>4. CASE Alerting!Enable \/ Alerting!EnableSounds
  <2>1. Alerting!FreeId \in Nat
    BY FreeIds, FS_CardinalityType, OneCardinality DEF Alerting!FreeId
  <2>2. PICK r \in Alerting!Ask : asks' = asks \cup {r}
    BY <1>4, <2>1 DEF Alerting!Enable, Alerting!EnableSounds, Alerting!Ask
  <2>3. UNCHANGED <<alerts, browser, phase>>
        /\ choices' \in [choices : 0 .. MaxChoices, pages : 0 .. MaxPages]
    BY <1>0, <1>4 DEF Alerting!Enable, Alerting!EnableSounds, Alerting!Chooses
  <2>. QED  BY <2>2, <2>3, StillFinite
<1>5. CASE Alerting!Disable
  <2>1. alerts' \in Alerting!Alerts /\ ~ alerts'.ringing
    BY <1>5, <1>1 DEF Alerting!Disable
  <2>2. choices' \in [choices : 0 .. MaxChoices, pages : 0 .. MaxPages]
    BY <1>0, <1>5 DEF Alerting!Disable, Alerting!Chooses
  <2>. QED  BY <1>5, <2>1, <2>2 DEF Alerting!Disable
<1>6. ASSUME NEW r \in asks, NEW answer \in {"yes", "no"}, Alerting!Unlocks(r, answer)
      PROVE  AlertInv'
  <2>1. [r EXCEPT !.unlocked = answer] \in Alerting!Ask
    BY DEF Alerting!Ask
  <2>. QED  BY <1>6, <2>1, StillFinite DEF Alerting!Unlocks
<1>7. ASSUME NEW r \in asks, NEW p \in Alerting!Permission, Alerting!PromptAnswered(r, p)
      PROVE  AlertInv'
  <2>1. browser' \in [permission : Alerting!Permission, page : {"profile", "home"}]
        /\ browser'.page = browser.page
    BY <1>7 DEF Alerting!PromptAnswered
  <2>2. [r EXCEPT !.prompt = browser'.permission] \in Alerting!Ask
    BY <2>1 DEF Alerting!Ask
  <2>. QED  BY <1>7, <2>1, <2>2, StillFinite DEF Alerting!PromptAnswered
<1>8. ASSUME NEW r \in asks, Alerting!Enabled(r) \/ Alerting!SoundsEnabled(r)
      PROVE  AlertInv'
  <2>1. r \in Alerting!Ask /\ UNCHANGED <<browser, phase, choices>> /\ asks' = asks \ {r}
    BY <1>8 DEF Alerting!Enabled, Alerting!SoundsEnabled
  <2>2. PICK m \in Alerting!Mode, p \in Alerting!Permission :
            \/ alerts' = Alerting!WithMode(alerts, m)
            \/ alerts' = Alerting!PermissionSeen([Alerting!WithMode(alerts, m) EXCEPT !.permission = p])
    BY <1>8, <2>1 DEF Alerting!Enabled, Alerting!SoundsEnabled, Alerting!Ask
  <2>. DEFINE a == Alerting!WithMode(alerts, m)
              b == [a EXCEPT !.permission = p]
  <2>3. a \in Alerting!Alerts /\ a.ringing = alerts.ringing
    BY <1>1
  <2>. HIDE DEF a
  <2>4. b \in Alerting!Alerts /\ b.ringing = alerts.ringing
    BY <2>3
  <2>. HIDE DEF b
  <2>5. alerts' \in Alerting!Alerts /\ Alerting!RingsForCall'
    BY <1>1, <2>1, <2>2, <2>3, <2>4 DEF a, b, Alerting!PermissionSeen
  <2>. QED  BY <2>1, <2>5, StillFinite
<1>9. CASE Alerting!OpenHome \/ Alerting!LeaveHome
  <2>1. alerts' \in Alerting!Alerts /\ ~ alerts'.ringing
    BY <1>9, <1>1 DEF Alerting!OpenHome, Alerting!LeaveHome
  <2>2. choices' \in [choices : 0 .. MaxChoices, pages : 0 .. MaxPages]
    BY <1>0, <1>9 DEF Alerting!OpenHome, Alerting!LeaveHome
  <2>. QED  BY <1>9, <2>1, <2>2 DEF Alerting!OpenHome, Alerting!LeaveHome
<1>10. ASSUME NEW p \in Alerting!Phase, Alerting!CallChanges(p)
      PROVE  AlertInv'
  BY <1>10 DEF Alerting!CallChanges, Alerting!Silent, Alerting!Rings
<1>. QED
  BY <1>2, <1>3, <1>4, <1>5, <1>6, <1>7, <1>8, <1>9, <1>10 DEF Alerting!Next

\* It rings only while a call is incoming in Home, whenever the browser answers a choice
\* that was made on the profile page before (home-notification.service.ts:24).
THEOREM RingsOnlyForCalls == HomeChatAssumption => (Spec => []RingsForCall)
<1>. SUFFICES ASSUME HomeChatAssumption  PROVE Spec => []RingsForCall  OBVIOUS
<1>1. Init => AlertInv
  BY AlertsStart DEF Init
<1>2. AlertInv /\ [Next]_homeVars => AlertInv'
  <2>1. [Next]_homeVars => [Alerting!Next]_alertVars
    BY DEF Next, homeVars
  <2>. QED  BY <2>1, AlertsStep
<1>3. AlertInv => RingsForCall
  BY DEF AlertInv, RingsForCall
<1>. QED  BY <1>1, <1>2, <1>3, PTL DEF Spec

-----------------------------------------------------------------------------
(* The session.                                                            *)

\* The records of the session, and what is known of a request that has brought a token.
SessionTypes ==
    /\ tab \in Session!Tab /\ IsFiniteSet(out) /\ out \subseteq Session!Request
    /\ cookie \in Session!Token
    /\ auth \in [access : SUBSET (1 .. MaxTokens), refresh : SUBSET Session!Token,
                 issued : Session!Token]
    /\ signedOut \in BOOLEAN /\ lost \in BOOLEAN /\ effort \in 0 .. MaxEffort
    /\ \A r \in out : r.grants # 0 => r.kind \in {"refresh", "login"}

\* The refresh of a page is the only request of a page that waits for it, and nobody
\* else waits or refreshes.
OneRestore ==
    /\ refreshes = 1
    /\ tab.restore = "asked" => /\ tab.token = 0 /\ tab.page = "none" /\ tab.going # "none"
                                /\ ~ tab.entering
                                /\ \E r \in out : r.kind = "refresh" /\ out = {r}
    /\ tab.restore # "asked" => tab.going = "none" /\ \A r \in out : r.kind # "refresh"
    /\ tab.restore \in {"undefined", "token"} => tab.token # 0

\* Who has a token is in Home or on the way there; who has signed out has none, and nothing
\* on its way brings one.
WhereTokensLead ==
    /\ tab.token # 0 => tab.entering \/ tab.page = "home"
    /\ signedOut => tab.token = 0 /\ tab.restore # "asked" /\ \A r \in out : r.kind # "login"

\* Home without a token is left by the answer of the logout, or of a request that bears
\* no token and is denied.
WayOut(r) ==
    \/ r.kind = "logout"
    \/ r.kind = "data" /\ r.bears = 0 /\ r.reply \in {"none", "denied"}
HomeIsLeft == ~ lost /\ tab.page = "home" /\ tab.token = 0 => \E r \in out : WayOut(r)

SessionInv == SessionTypes /\ OneRestore /\ WhereTokensLead /\ HomeIsLeft

\* What the helpers of the actions give.
LEMMA NavigatedFacts ==
    ASSUME NEW t \in Session!Tab, NEW to \in Session!Pages
    PROVE  LET n == Session!Navigated(t, to)
           IN  /\ n \in Session!Tab /\ n.token = t.token
               /\ t.token # 0 \/ t.restore = "token" =>
                    n.restore = t.restore /\ n.page = t.page /\ n.going = "none" /\ n.entering
               /\ t.token = 0 /\ t.restore = "null" =>
                    n.restore = "null" /\ n.page = "login" /\ n.going = "none" /\ ~ n.entering
               /\ t.token = 0 /\ t.restore \in {"undefined", "asked"} =>
                    n.restore = "asked" /\ n.page = t.page /\ n.going = to /\ ~ n.entering
<1>1. CASE t.token # 0 \/ t.restore = "token"
  <2>1. Session!Navigated(t, to) = [t EXCEPT !.going = "none", !.entering = TRUE]
    BY <1>1 DEF Session!Navigated
  <2>. QED  BY <1>1, <2>1 DEF Session!Tab, Session!Pages
<1>2. CASE t.token = 0 /\ t.restore = "null"
  BY <1>2 DEF Session!Navigated, Session!Tab, Session!Pages
<1>3. CASE t.token = 0 /\ t.restore \in {"undefined", "asked"}
  BY <1>3 DEF Session!Navigated, Session!Tab, Session!Pages
<1>. QED  BY <1>1, <1>2, <1>3 DEF Session!Tab

LEMMA ForgottenFacts ==
    ASSUME NEW t \in Session!Tab, 0 \in Session!Token
    PROVE  LET f == Session!Forgotten(t)
           IN  /\ f \in Session!Tab /\ f.token = 0 /\ f.restore = "null"
               /\ f.page = t.page /\ f.going = t.going /\ f.entering = t.entering
  BY DEF Session!Forgotten, Session!Tab

LEMMA DeniedFacts ==
    ASSUME NEW t \in Session!Tab, NEW r, 0 \in Session!Token
    PROVE  LET d == Session!Denied(t, r)
           IN  /\ d \in Session!Tab /\ d.token = 0 /\ d.restore = "null"
               /\ \/ d.page = t.page /\ d.going = t.going /\ d.entering = t.entering
                     /\ (r.kind \in {"refresh", "login"} \/ t.page = "login")
                  \/ d.page = "login" /\ d.going = "none" /\ ~ d.entering
  BY ForgottenFacts, NavigatedFacts DEF Session!Denied, Session!Pages

LEMMA SentFacts ==
    ASSUME SessionTypes, NEW kind \in Session!Kinds, NEW t \in Session!Token, 0 \in Session!Token
    PROVE  \E q \in Session!Request :
             /\ Session!Sent(kind, t) = out \cup {q}
             /\ q.kind = kind /\ q.bears = t /\ q.reply = "none" /\ q.grants = 0
<1>1. Session!FreeId \in Nat
  BY FreeIds, FS_CardinalityType, OneCardinality DEF Session!FreeId, SessionTypes
<1>. DEFINE q == [id |-> Session!FreeId, kind |-> kind, bears |-> t, reply |-> "none", grants |-> 0]
<1>2. q \in Session!Request /\ Session!Sent(kind, t) = out \cup {q}
  BY <1>1 DEF Session!Request, Session!Sent
<1>. QED  BY <1>2

\* The parts of the invariant that say nothing of tokens and requests.
LEMMA AnswerStep ==
    ASSUME SessionInv, NEW r \in out, NEW reply \in {"ok", "denied", "lost"},
           NEW n \in Session!Token, n # 0 => r.kind \in {"refresh", "login"},
           out' = Session!Replied(r, reply, n), UNCHANGED <<tab, cookie, signedOut, refreshes>>,
           auth' \in [access : SUBSET (1 .. MaxTokens), refresh : SUBSET Session!Token,
                      issued : Session!Token],
           lost' \in BOOLEAN, effort' \in 0 .. MaxEffort, lost => lost',
           lost' \/ reply = "denied" \/ r.kind # "data" \/ r.bears # 0
    PROVE  SessionInv'
<1>. DEFINE q == [r EXCEPT !.reply = reply, !.grants = n]
<1>1. q \in Session!Request /\ q.kind = r.kind /\ q.bears = r.bears /\ q.reply = reply
      /\ q.grants = n
  BY DEF SessionInv, SessionTypes, Session!Request
<1>2. out' = (out \ {r}) \cup {q}
  BY DEF Session!Replied
<1>. HIDE DEF q
<1>3. SessionTypes'
  <2>0. IsFiniteSet(out)
    BY DEF SessionInv, SessionTypes
  <2>1. IsFiniteSet(out')
    <3>1. IsFiniteSet((out \ {r}) \cup {q})
      BY <2>0, StillFinite
    <3>. QED  BY <3>1, <1>2
  <2>2. out' \subseteq Session!Request /\ \A s \in out' : s.grants # 0 => s.kind \in {"refresh", "login"}
    BY <1>1, <1>2 DEF SessionInv, SessionTypes
  <2>3. tab' \in Session!Tab /\ cookie' \in Session!Token /\ signedOut' \in BOOLEAN
    BY DEF SessionInv, SessionTypes
  <2>. QED  BY <2>1, <2>2, <2>3 DEF SessionTypes
<1>4. OneRestore'
  BY <1>1, <1>2 DEF SessionInv, OneRestore
<1>5. WhereTokensLead'
  BY <1>1, <1>2 DEF SessionInv, WhereTokensLead
<1>6. HomeIsLeft'
  BY <1>1, <1>2 DEF SessionInv, HomeIsLeft, WayOut
<1>. QED  BY <1>3, <1>4, <1>5, <1>6 DEF SessionInv

LEMMA ServiceStep ==
    ASSUME HomeChatAssumption, SessionInv, NEW r \in out,
           \/ Session!Issue(r) \/ Session!Revoke(r) \/ Session!Serve(r) \/ Session!Deny(r)
           \/ Session!Lose(r)
    PROVE  SessionInv'
<1>1. MaxTokens \in Nat /\ MaxEffort \in Nat /\ 0 \in Session!Token
  BY DEF HomeChatAssumption, Session!SessionAssumption, Session!Token
<1>2. SessionTypes  BY DEF SessionInv
<1>3. CASE Session!Issue(r)
  <2>. DEFINE n == auth.issued + 1
  <2>1. n \in Session!Token /\ n \in 1 .. MaxTokens
    BY <1>1, <1>2, <1>3 DEF Session!Issue, SessionTypes, Session!Token
  <2>2. auth' \in [access : SUBSET (1 .. MaxTokens), refresh : SUBSET Session!Token,
                   issued : Session!Token]
    BY <1>2, <1>3, <2>1 DEF Session!Issue, SessionTypes
  <2>3. out' = Session!Replied(r, "ok", n) /\ r.kind \in {"refresh", "login"}
        /\ UNCHANGED <<tab, cookie, signedOut, refreshes, lost, effort>>
    BY <1>3 DEF Session!Issue
  <2>. HIDE DEF n
  <2>. QED  BY <1>2, <2>1, <2>2, <2>3, AnswerStep DEF SessionTypes
<1>4. CASE Session!Revoke(r)
  <2>1. auth' \in [access : SUBSET (1 .. MaxTokens), refresh : SUBSET Session!Token,
                   issued : Session!Token]
    BY <1>2, <1>4 DEF Session!Revoke, SessionTypes
  <2>. QED  BY <1>1, <1>2, <1>4, <2>1, AnswerStep DEF Session!Revoke, SessionTypes
<1>5. CASE Session!Serve(r)
  <2>1. r.bears # 0
    BY <1>1, <1>2, <1>5 DEF Session!Serve, SessionTypes
  <2>. QED  BY <1>1, <1>2, <1>5, <2>1, AnswerStep DEF Session!Serve, SessionTypes
<1>6. CASE Session!Deny(r)
  BY <1>1, <1>2, <1>6, AnswerStep DEF Session!Deny, SessionTypes
<1>7. CASE Session!Lose(r)
  <2>1. effort' \in 0 .. MaxEffort
    BY <1>1, <1>2, <1>7 DEF Session!Lose, Session!Spend, SessionTypes
  <2>. QED  BY <1>1, <1>2, <1>7, <2>1, AnswerStep DEF Session!Lose, SessionTypes
<1>. QED  BY <1>3, <1>4, <1>5, <1>6, <1>7

LEMMA SessionStart == ASSUME HomeChatAssumption, Session!Init  PROVE SessionInv
<1>1. MaxTokens \in Nat /\ MaxEffort \in Nat
  BY DEF HomeChatAssumption, Session!SessionAssumption
<1>2. PICK to \in {"login", "home"} : tab = Session!Loaded(to)
  BY DEF Session!Init
<1>3. IsFiniteSet(out)
  BY FS_Singleton DEF Session!Init
<1>4. out = {Session!FirstRequest(0)} /\ Session!FirstRequest(0) \in Session!Request
      /\ Session!FirstRequest(0).kind = "refresh" /\ Session!FirstRequest(0).grants = 0
  BY <1>1 DEF Session!Init, Session!FirstRequest, Session!Request, Session!Token, Session!Kinds
<1>5. SessionTypes
  <2>1. tab \in Session!Tab
    BY <1>1, <1>2 DEF Session!Loaded, Session!Tab, Session!Token, Session!Pages
  <2>2. auth \in [access : SUBSET (1 .. MaxTokens), refresh : SUBSET Session!Token,
                  issued : Session!Token]
    BY <1>1 DEF Session!Init, Session!Token
  <2>3. cookie \in Session!Token /\ effort \in 0 .. MaxEffort
    BY <1>1 DEF Session!Init, Session!Token
  <2>4. signedOut \in BOOLEAN /\ lost \in BOOLEAN
    BY Zenon DEF Session!Init
  <2>. QED  BY <1>3, <1>4, <2>1, <2>2, <2>3, <2>4 DEF SessionTypes
<1>6. OneRestore /\ WhereTokensLead /\ HomeIsLeft
  BY <1>2, <1>4 DEF OneRestore, WhereTokensLead, HomeIsLeft, Session!Init, Session!Loaded
<1>. QED  BY <1>5, <1>6 DEF SessionInv

\* The user, and Home on its behalf.
LEMMA PageStep ==
    ASSUME HomeChatAssumption, SessionInv,
           \/ \E to \in {"login", "home"} : Session!Reload(to)
           \/ \E to \in {"login", "home"} : Session!Navigate(to)
           \/ Session!EnterHome \/ Session!Login \/ Session!Logout \/ Session!HomeAsks
           \/ \E n \in Session!Token : Session!Expire(n)
    PROVE  SessionInv'
<1>1. MaxTokens \in Nat /\ MaxEffort \in Nat /\ 0 \in Session!Token
  BY DEF HomeChatAssumption, Session!SessionAssumption, Session!Token
<1>2. SessionTypes /\ OneRestore /\ WhereTokensLead /\ HomeIsLeft  BY DEF SessionInv
<1>3. tab \in Session!Tab /\ IsFiniteSet(out) /\ tab.token \in Session!Token
  BY <1>2 DEF SessionTypes, Session!Tab
<1>4. Session!Spend => effort' \in 0 .. MaxEffort
  BY <1>1, <1>2 DEF SessionTypes, Session!Spend
<1>5. ASSUME NEW to \in {"login", "home"}, Session!Reload(to)  PROVE SessionInv'
  <2>. DEFINE q == Session!FirstRequest(cookie)
  <2>1. q \in Session!Request /\ q.kind = "refresh" /\ q.grants = 0
    BY <1>1, <1>2 DEF SessionTypes, Session!FirstRequest, Session!Request, Session!Kinds
  <2>2. out' = {q} /\ IsFiniteSet(out')
    BY <1>5, FS_Singleton DEF Session!Reload
  <2>. HIDE DEF q
  <2>3. SessionTypes'
    BY <1>1, <1>2, <1>4, <1>5, <2>1, <2>2
    DEF SessionTypes, Session!Reload, Session!Loaded, Session!Tab, Session!Pages
  <2>4. (OneRestore /\ WhereTokensLead /\ HomeIsLeft)'
    BY <1>5, <2>1, <2>2 DEF OneRestore, WhereTokensLead, HomeIsLeft, Session!Reload, Session!Loaded
  <2>. QED  BY <2>3, <2>4 DEF SessionInv
<1>6. ASSUME NEW to \in {"login", "home"}, Session!Navigate(to)  PROVE SessionInv'
  <2>1. ~ Session!Asks(tab)
    BY <1>2 DEF Session!Asks, OneRestore
  <2>2. UNCHANGED <<out, cookie, auth, signedOut, lost>> /\ refreshes' = refreshes
        /\ tab' = Session!Navigated(tab, to) /\ effort' \in 0 .. MaxEffort
    BY <1>2, <1>4, <1>6, <2>1 DEF Session!Navigate, OneRestore
  <2>3. to \in Session!Pages /\ to # "none"
    BY DEF Session!Pages
  <2>4. /\ tab' \in Session!Tab /\ tab'.token = tab.token
        /\ tab.token # 0 \/ tab.restore = "token" =>
              tab'.restore = tab.restore /\ tab'.page = tab.page /\ tab'.going = "none"
              /\ tab'.entering
        /\ tab.token = 0 /\ tab.restore = "null" =>
              tab'.restore = "null" /\ tab'.page = "login" /\ tab'.going = "none"
              /\ ~ tab'.entering
        /\ tab.token = 0 /\ tab.restore \in {"undefined", "asked"} =>
              tab'.restore = "asked" /\ tab'.page = tab.page /\ tab'.going = to
              /\ ~ tab'.entering
    BY <1>3, <2>2, <2>3, NavigatedFacts
  <2>5. tab.restore \in {"undefined", "asked", "null", "token"}
    BY <1>3 DEF Session!Tab
  <2>6. SessionTypes'
    BY <1>2, <2>2, <2>4 DEF SessionTypes
  <2>7. OneRestore'
    BY <1>2, <2>2, <2>3, <2>4, <2>5 DEF OneRestore
  <2>8. WhereTokensLead' /\ HomeIsLeft'
    BY <1>2, <2>2, <2>4, <2>5 DEF WhereTokensLead, HomeIsLeft, OneRestore
  <2>. QED  BY <2>6, <2>7, <2>8 DEF SessionInv
<1>7. CASE Session!EnterHome
  <2>1. PICK q \in Session!Request :
          out' = out \cup {q} /\ q.kind = "data" /\ q.bears = tab.token /\ q.reply = "none"
          /\ q.grants = 0
    BY <1>1, <1>2, <1>3, <1>7, SentFacts DEF Session!EnterHome, Session!Kinds
  <2>2. tab' \in Session!Tab /\ tab'.token = tab.token /\ tab'.restore = tab.restore
        /\ tab'.going = tab.going /\ tab'.page = "home" /\ ~ tab'.entering /\ tab.entering
        /\ UNCHANGED <<cookie, auth, signedOut, refreshes, lost, effort>>
    BY <1>3, <1>7 DEF Session!EnterHome, Session!Tab, Session!Pages
  <2>3. IsFiniteSet(out')
    BY <1>3, <2>1, StillFinite
  <2>4. SessionTypes'
    BY <1>2, <2>1, <2>2, <2>3 DEF SessionTypes
  <2>5. OneRestore' /\ WhereTokensLead' /\ HomeIsLeft'
    BY <1>2, <2>1, <2>2 DEF OneRestore, WhereTokensLead, HomeIsLeft, WayOut
  <2>. QED  BY <2>4, <2>5 DEF SessionInv
<1>8. CASE Session!Login
  <2>1. PICK q \in Session!Request :
          out' = out \cup {q} /\ q.kind = "login" /\ q.grants = 0
    BY <1>1, <1>2, <1>8, SentFacts DEF Session!Login, Session!Kinds
  <2>2. tab.page = "login" /\ ~ signedOut'
        /\ UNCHANGED <<tab, cookie, auth, refreshes, lost>> /\ effort' \in 0 .. MaxEffort
    BY <1>4, <1>8 DEF Session!Login
  <2>3. IsFiniteSet(out')
    BY <1>3, <2>1, StillFinite
  <2>4. SessionTypes'
    BY <1>2, <2>1, <2>2, <2>3, <1>8 DEF SessionTypes, Session!Login
  <2>5. OneRestore' /\ WhereTokensLead' /\ HomeIsLeft'
    BY <1>2, <2>1, <2>2 DEF OneRestore, WhereTokensLead, HomeIsLeft
  <2>. QED  BY <2>4, <2>5 DEF SessionInv
<1>9. CASE Session!Logout
  <2>1. PICK q \in Session!Request :
          out' = out \cup {q} /\ q.kind = "logout" /\ q.grants = 0
    BY <1>1, <1>2, <1>3, <1>9, SentFacts DEF Session!Logout, Session!Kinds
  <2>2. tab' \in Session!Tab /\ tab'.token = 0 /\ tab'.restore = "null"
        /\ tab'.page = tab.page /\ tab'.going = tab.going /\ tab'.entering = tab.entering
        /\ tab.token # 0 /\ effort' \in 0 .. MaxEffort
        /\ signedOut' = (\A s \in out : s.kind # "login")
        /\ UNCHANGED <<cookie, auth, refreshes, lost>>
    BY <1>1, <1>3, <1>4, <1>9, ForgottenFacts DEF Session!Logout
  <2>3. IsFiniteSet(out')
    BY <1>3, <2>1, StillFinite
  <2>4. SessionTypes'
    BY <1>2, <2>1, <2>2, <2>3, <1>9 DEF SessionTypes, Session!Logout
  <2>5. OneRestore' /\ WhereTokensLead' /\ HomeIsLeft'
    BY <1>2, <2>1, <2>2 DEF OneRestore, WhereTokensLead, HomeIsLeft, WayOut
  <2>. QED  BY <2>4, <2>5 DEF SessionInv
<1>10. CASE Session!HomeAsks
  <2>1. PICK q \in Session!Request :
          out' = out \cup {q} /\ q.kind = "data" /\ q.grants = 0
    BY <1>1, <1>2, <1>3, <1>10, SentFacts DEF Session!HomeAsks, Session!Kinds
  <2>2. tab.page = "home" /\ UNCHANGED <<tab, cookie, auth, signedOut, refreshes, lost>>
        /\ effort' \in 0 .. MaxEffort
    BY <1>4, <1>10 DEF Session!HomeAsks
  <2>3. IsFiniteSet(out')
    BY <1>3, <2>1, StillFinite
  <2>4. SessionTypes'
    BY <1>2, <2>1, <2>2, <2>3 DEF SessionTypes
  <2>5. OneRestore' /\ WhereTokensLead' /\ HomeIsLeft'
    BY <1>2, <2>1, <2>2 DEF OneRestore, WhereTokensLead, HomeIsLeft
  <2>. QED  BY <2>4, <2>5 DEF SessionInv
<1>11. ASSUME NEW n \in Session!Token, Session!Expire(n)  PROVE SessionInv'
  <2>1. SessionTypes'
    BY <1>2, <1>4, <1>11 DEF SessionTypes, Session!Expire
  <2>2. OneRestore' /\ WhereTokensLead' /\ HomeIsLeft'
    BY <1>2, <1>11 DEF OneRestore, WhereTokensLead, HomeIsLeft, Session!Expire
  <2>. QED  BY <2>1, <2>2 DEF SessionInv
<1>. QED  BY <1>5, <1>6, <1>7, <1>8, <1>9, <1>10, <1>11

\* What comes back.
LEMMA ReturnStep ==
    ASSUME HomeChatAssumption, SessionInv, NEW r \in out,
           \/ Session!Accepted(r) \/ Session!RefreshFails(r) \/ Session!LoginFails(r)
           \/ Session!LoggedOut(r) \/ Session!DataCame(r)
    PROVE  SessionInv'
<1>1. 0 \in Session!Token
  BY DEF HomeChatAssumption, Session!SessionAssumption, Session!Token
<1>2. SessionTypes /\ OneRestore /\ WhereTokensLead /\ HomeIsLeft  BY DEF SessionInv
<1>3. tab \in Session!Tab /\ IsFiniteSet(out) /\ r \in Session!Request
      /\ tab.restore \in {"undefined", "asked", "null", "token"}
  BY <1>2 DEF SessionTypes, Session!Tab
<1>4. {"none", "login", "home"} = Session!Pages /\ tab.going \in Session!Pages
  BY <1>3 DEF Session!Pages, Session!Tab
<1>5. CASE Session!Accepted(r)
  <2>. DEFINE q == [r EXCEPT !.kind = "data", !.bears = r.grants, !.reply = "none", !.grants = 0]
              t == [tab EXCEPT !.token = r.grants,
                               !.restore = IF r.kind = "login" THEN "undefined"
                                           ELSE IF @ = "asked" THEN "token" ELSE @]
  <2>1. r.grants \in Session!Token /\ r.grants # 0 /\ r.kind \in {"refresh", "login"}
        /\ cookie' = r.grants /\ UNCHANGED <<auth, signedOut, refreshes, lost, effort>>
        /\ out' = (out \ {r}) \cup {q}
        /\ tab' = IF t.page # "home" /\ (r.kind = "login" \/ t.going # "none")
                  THEN Session!Navigated(t, "home") ELSE t
    BY <1>2, <1>3, <1>5 DEF Session!Accepted, Session!Request, SessionTypes
  <2>2. q \in Session!Request /\ q.kind = "data" /\ q.bears = r.grants /\ q.grants = 0
    BY <1>1, <1>3, <2>1 DEF Session!Request, Session!Kinds
  <2>3. r.kind = "refresh" => tab.restore = "asked" /\ out = {r}
    BY <1>2 DEF OneRestore
  <2>4. r.kind = "login" => tab.restore # "asked" /\ ~ signedOut
    BY <1>2 DEF OneRestore, WhereTokensLead
  <2>5. t \in Session!Tab /\ t.token # 0 /\ t.going = tab.going /\ t.page = tab.page
        /\ t.restore \in {"undefined", "token"}
    BY <1>3, <2>1, <2>3 DEF Session!Tab
  <2>6. \/ tab' = Session!Navigated(t, "home")
        \/ tab' = t /\ t.page = "home" /\ t.going = "none"
    BY <1>2, <2>1, <2>3, <2>4, <2>5 DEF OneRestore
  <2>. HIDE DEF q, t
  <2>7. tab' \in Session!Tab /\ tab'.token # 0 /\ tab'.restore \in {"undefined", "token"}
        /\ tab'.going = "none" /\ (tab'.entering \/ tab'.page = "home")
    BY <1>4, <2>5, <2>6, NavigatedFacts
  <2>8. IsFiniteSet(out')
    BY <1>3, <2>1, StillFinite
  <2>9. SessionTypes'
    BY <1>2, <2>1, <2>2, <2>7, <2>8 DEF SessionTypes
  <2>10. OneRestore' /\ WhereTokensLead' /\ HomeIsLeft'
    BY <1>2, <2>1, <2>2, <2>3, <2>4, <2>7 DEF OneRestore, WhereTokensLead, HomeIsLeft
  <2>. QED  BY <2>9, <2>10 DEF SessionInv
<1>6. CASE Session!RefreshFails(r)
  <2>1. tab.restore = "asked" /\ out = {r} /\ tab.going # "none" /\ tab.token = 0
    BY <1>2, <1>6 DEF OneRestore, Session!RefreshFails
  <2>. DEFINE d == IF r.reply = "denied" THEN Session!Denied(tab, r) ELSE tab
              u == [d EXCEPT !.restore = "null"]
  <2>2. d \in Session!Tab /\ d.token = 0 /\ d.going = tab.going
    BY <1>1, <1>3, <1>6, <2>1, ForgottenFacts DEF Session!Denied, Session!RefreshFails
  <2>3. u \in Session!Tab /\ u.token = 0 /\ u.going = tab.going /\ u.restore = "null"
    BY <2>2 DEF Session!Tab
  <2>4. tab' = Session!Navigated(u, u.going) /\ out' = {}
        /\ UNCHANGED <<cookie, auth, signedOut, refreshes, lost, effort>>
    BY <1>6, <2>1, <2>3 DEF Session!RefreshFails, Session!Unrestored
  <2>. HIDE DEF d, u
  <2>5. tab' \in Session!Tab /\ tab'.token = 0 /\ tab'.restore = "null"
        /\ tab'.going = "none" /\ tab'.page = "login" /\ ~ tab'.entering
    BY <1>4, <2>3, <2>4, NavigatedFacts
  <2>6. IsFiniteSet(out')
    BY <2>4, FS_EmptySet
  <2>7. SessionTypes'
    BY <1>2, <2>4, <2>5, <2>6 DEF SessionTypes
  <2>8. OneRestore' /\ WhereTokensLead' /\ HomeIsLeft'
    BY <1>2, <2>4, <2>5 DEF OneRestore, WhereTokensLead, HomeIsLeft
  <2>. QED  BY <2>7, <2>8 DEF SessionInv
<1>7. ASSUME r.kind # "refresh", out' = out \ {r}, cookie' \in Session!Token,
             UNCHANGED <<auth, signedOut, refreshes, effort>>, tab' \in Session!Tab,
             lost' \in BOOLEAN, lost => lost',
             \/ tab' = tab /\ ~ WayOut(r)
             \/ tab'.token = 0 /\ tab'.restore = "null" /\ tab'.page = tab.page
                /\ tab'.going = tab.going /\ r.kind = "login"
                /\ (tab.page = "home" => lost' \/ tab.token = 0)
             \/ tab'.token = 0 /\ tab'.restore = "null" /\ tab'.page = "login"
                /\ tab'.going = "none" /\ (tab'.entering => tab.page = "login" /\ tab.entering)
             \/ tab.token # 0 /\ tab'.token = tab.token /\ tab'.restore = tab.restore
                /\ tab'.going = "none" /\ tab'.entering
      PROVE  SessionInv'
  <2>1. IsFiniteSet(out')
    BY <1>3, <1>7, StillFinite
  <2>2. SessionTypes'
    BY <1>2, <1>7, <2>1 DEF SessionTypes
  <2>3. tab.restore # "asked"
    BY <1>2, <1>7 DEF OneRestore
  <2>4. OneRestore'
    BY <1>2, <1>7, <2>3 DEF OneRestore
  <2>5. WhereTokensLead'
    BY <1>2, <1>7, <2>3 DEF WhereTokensLead
  <2>6. HomeIsLeft'
    BY <1>2, <1>7 DEF HomeIsLeft, WayOut
  <2>. QED  BY <2>2, <2>4, <2>5, <2>6 DEF SessionInv
<1>8. CASE r.kind # "refresh" /\ (Session!LoginFails(r) \/ Session!DataCame(r))
  <2>1. out' = out \ {r} /\ UNCHANGED <<cookie, auth, signedOut, refreshes, effort>>
        /\ tab' = (IF r.reply = "denied" THEN Session!Denied(tab, r) ELSE tab)
        /\ r.kind \in {"login", "data"} /\ r.reply # "none"
    BY <1>8 DEF Session!LoginFails, Session!DataCame
  <2>2. lost' \in BOOLEAN /\ (lost => lost')
        /\ (r.reply = "denied" /\ r.kind = "login" /\ tab.page = "home" => lost' \/ tab.token = 0)
    <3>1. CASE Session!LoginFails(r)
      <4>1. lost' = (lost \/ (r.reply = "denied" /\ tab.page = "home" /\ tab.token # 0))
        BY <3>1 DEF Session!LoginFails
      <4>. QED  BY Zenon, <4>1
    <3>2. CASE Session!DataCame(r)
      BY <1>2, <3>2 DEF SessionTypes, Session!DataCame
    <3>. QED  BY <1>8, <3>1, <3>2
  <2>3. tab.going = "none"
    BY <1>2, <1>8 DEF OneRestore
  <2>4. CASE r.reply = "denied"
    <3>1. tab' \in Session!Tab /\ tab'.token = 0 /\ tab'.restore = "null"
          /\ \/ tab'.page = tab.page /\ tab'.going = tab.going /\ tab'.entering = tab.entering
                /\ (r.kind = "login" \/ tab.page = "login")
             \/ tab'.page = "login" /\ tab'.going = "none" /\ ~ tab'.entering
      BY <1>1, <1>3, <2>1, <2>4, DeniedFacts
    <3>2. cookie' \in Session!Token
      BY <1>2, <2>1 DEF SessionTypes
    <3>. QED  BY <1>7, <1>8, <2>1, <2>2, <2>3, <2>4, <3>1, <3>2
  <2>5. CASE r.reply # "denied"
    BY <1>2, <1>3, <1>7, <1>8, <2>1, <2>2, <2>5 DEF SessionTypes, WayOut
  <2>. QED  BY <2>4, <2>5
<1>9. CASE Session!LoggedOut(r)
  <2>1. ~ Session!Asks(tab) /\ r.kind # "refresh"
    BY <1>2, <1>9 DEF OneRestore, Session!Asks, Session!LoggedOut
  <2>. DEFINE d == IF r.reply = "denied" THEN Session!Denied(tab, r) ELSE tab
  <2>2. out' = out \ {r} /\ cookie' \in Session!Token /\ tab' = Session!Navigated(d, "login")
        /\ UNCHANGED <<auth, signedOut, refreshes, lost, effort>>
    BY <1>1, <1>2, <1>9, <2>1 DEF Session!LoggedOut, SessionTypes, OneRestore
  <2>3. tab.restore # "asked" /\ (tab.token = 0 => tab.restore = "null")
    BY <1>2, <1>3, <2>1 DEF OneRestore
  <2>4. d \in Session!Tab /\ (d = tab \/ (d.token = 0 /\ d.restore = "null"))
    BY <1>1, <1>3, DeniedFacts
  <2>. HIDE DEF d
  <2>5. tab' \in Session!Tab
        /\ \/ tab'.token = 0 /\ tab'.restore = "null" /\ tab'.page = "login"
              /\ tab'.going = "none" /\ ~ tab'.entering
           \/ tab.token # 0 /\ tab'.token = tab.token /\ tab'.restore = tab.restore
              /\ tab'.going = "none" /\ tab'.entering
    BY <1>4, <2>2, <2>3, <2>4, NavigatedFacts
  <2>. QED  BY <1>2, <1>7, <2>1, <2>2, <2>5 DEF SessionTypes
<1>. QED  BY <1>5, <1>6, <1>8, <1>9 DEF Session!LoginFails, Session!DataCame

LEMMA SessionStep ==
    ASSUME HomeChatAssumption, SessionInv, [Session!Next]_sessionVars  PROVE SessionInv'
<1>1. CASE UNCHANGED sessionVars
  BY <1>1 DEF sessionVars, SessionInv, SessionTypes, OneRestore, WhereTokensLead, HomeIsLeft
<1>. QED
  BY <1>1, PageStep, ServiceStep, ReturnStep DEF Session!Next

\* A page refreshes its token once, whoever has signed out is signed in by no answer of
\* before but that of a login, nobody waits for a refresh that is over, and unless an answer
\* is lost or an older login is refused there, nobody is left in Home without a session
\* (auth.service.ts:52, auth-interceptor.service.ts:48); and the ringtone is for incoming
\* calls.
THEOREM SessionHolds == HomeChatAssumption => (Spec => []SessionAgrees)
<1>. SUFFICES ASSUME HomeChatAssumption  PROVE Spec => []SessionAgrees  OBVIOUS
<1>1. Init => SessionInv
  BY SessionStart DEF Init
<1>2. SessionInv /\ [Next]_homeVars => SessionInv'
  <2>1. [Next]_homeVars => [Session!Next]_sessionVars
    BY DEF Next, homeVars
  <2>. QED  BY <2>1, SessionStep
<1>3. SessionInv /\ RingsForCall => SessionAgrees
  BY DEF SessionInv, SessionTypes, OneRestore, WhereTokensLead, HomeIsLeft, SessionAgrees,
     Session!RefreshedOnce, Session!SignedOutStays, Session!NobodyWaits,
     Session!HomeNeedsSession, Session!Quiet
<1>. QED  BY <1>1, <1>2, <1>3, RingsOnlyForCalls, PTL DEF Spec

-----------------------------------------------------------------------------
(* Read state.                                                             *)

Cursors == [sent : [Chats -> Reads!Seqs], own : [Chats -> Reads!Seqs],
            peer : [Chats -> Reads!Seqs], awaited : [Chats -> SUBSET Reads!Seqs]]

\* Nothing is read, shown, loaded or announced that was not sent before, and answers are
\* for the chat that is selected.
InBounds(h, s) ==
    /\ \A c \in Chats : s.own[c] <= s.sent[c] /\ \A i \in s.awaited[c] : 1 <= i /\ i <= s.sent[c]
    /\ \A r \in h.net : r[2] <= s.sent[r[1]]
    /\ \A e \in h.inbox : /\ e.kind = "ownRead" => e.seq <= s.own[e.chat]
                          /\ e.kind = "created" => e.seq <= s.sent[e.chat]
    /\ h.selected # "none" => h.shown <= s.sent[h.selected]
    /\ h.load.at # "none" \/ h.ask.at # "none" => h.selected # "none"
    /\ h.load.at = "answered" => h.load.last <= s.sent[h.selected]
    /\ h.ask.at = "answered" => h.ask.last <= s.sent[h.selected]

\* What goes on in which state of the connection.
Staged(h) ==
    /\ h.state # "ready" => h.net = {}
    /\ h.state = "ready" => h.established
    /\ h.state = "offline" => h.inbox = {}
    /\ h.ask.at # "none" => h.state = "recovering"

\* Of a user without another device or a call: what the server takes for read Home does
\* too, and a badge without a cause is about to go.
Lonely(h, s) ==
    /\ h.call = "none"
    /\ \A c \in Chats : s.own[c] <= h.ownRead[c]
    /\ \A r \in h.net : r[2] <= h.ownRead[r[1]]
    /\ h.ask.at = "answered" => h.ask.own = s.own[h.selected]
    /\ ~ h.established => \A c \in Chats : s.own[c] = 0
    /\ \A c \in Chats : h.unread[c] > 0 =>
          \/ s.own[c] < s.sent[c] \/ h.state = "offline" \/ c \in h.late
          \/ h.lists["recovery"].at # "none"
          \/ \E e \in h.inbox : e.kind = "ownRead" /\ e.chat = c

\* A chat with a badge has messages, one that a list may bring too.
Badged(h, s) == \A c \in Chats :
    /\ h.unread[c] > 0 => s.sent[c] > 0
    /\ \A k \in Reads!Lists : h.lists[k].unread[c] > 0 => s.sent[c] > 0

\* What is shown is read, or about to be, and a badge of it is about to go, unless there is
\* more than is shown.
MarkedRead(h, s) ==
    h.state = "ready" /\ h.selected # "none" /\ h.shown > 0 =>
        \/ h.shown <= s.own[h.selected]
        \/ \E r \in h.net : r[1] = h.selected /\ h.shown <= r[2]
BadgeGoes(h, s) ==
    h.state = "ready" /\ h.selected # "none" /\ h.shown > 0 /\ h.load.at = "none"
        /\ h.unread[h.selected] > 0 =>
            \/ h.selected \in h.late \/ h.shown < s.sent[h.selected]
            \/ \E r \in h.net : r[1] = h.selected
            \/ \E e \in h.inbox : e.kind = "ownRead" /\ e.chat = h.selected

ReadsInv ==
    /\ Reads!TypeOK
    /\ InBounds(reads, cursors) /\ Staged(reads) /\ Badged(reads, cursors)
    /\ alone => Lonely(reads, cursors)
    /\ ~ Reads!Covers(reads) => MarkedRead(reads, cursors) /\ BadgeGoes(reads, cursors)

\* What the invariant says of h holds of g too, whose cursors may have moved on: the
\* fields that only the selection and the surface of calls change are the same.
LEMMA MarkedFacts ==
    ASSUME HomeChatAssumption, NEW h \in Reads!World, NEW s \in Cursors,
           InBounds(h, s), Staged(h), Badged(h, s)
    PROVE  LET m == Reads!Marked(h)
           IN  /\ m \in Reads!World /\ InBounds(m, s) /\ Staged(m) /\ Badged(m, s)
               /\ MarkedRead(m, s) /\ BadgeGoes(m, s) /\ (Lonely(h, s) => Lonely(m, s))
               /\ m.call = h.call /\ m.minimized = h.minimized /\ m.unread = h.unread
               /\ m.selected = h.selected /\ m.state = h.state /\ m.load = h.load
               /\ m.shown = h.shown
<1>. DEFINE m == Reads!Marked(h)
            r == <<h.selected, h.shown>>
<1>1. MaxSeq \in Nat /\ "none" \notin Chats
  BY DEF HomeChatAssumption, Reads!HomeReadsAssumption
<1>2. CASE ~ Reads!CanMark(h)
  <2>1. m = h
    BY <1>2 DEF Reads!Marked
  <2>2. MarkedRead(h, s) /\ BadgeGoes(h, s)
    BY <1>2 DEF Reads!CanMark, MarkedRead, BadgeGoes
  <2>. QED  BY <2>1, <2>2
<1>3. CASE Reads!CanMark(h)
  <2>1. h.state = "ready" /\ h.selected \in Chats /\ h.shown \in 1 .. MaxSeq
    BY <1>1, <1>3 DEF Reads!CanMark, Reads!World, Reads!ChatOrNone, Reads!Seqs
  <2>2. m = [h EXCEPT !.net = @ \cup {r},
                      !.ownRead[h.selected] = Reads!Larger(@, h.shown)]
    BY <1>3 DEF Reads!Marked
  <2>3. Reads!Larger(h.ownRead[h.selected], h.shown) \in Reads!Seqs
        /\ h.shown <= Reads!Larger(h.ownRead[h.selected], h.shown)
        /\ h.ownRead[h.selected] <= Reads!Larger(h.ownRead[h.selected], h.shown)
    BY <1>1, <2>1 DEF Reads!Larger, Reads!World, Reads!Seqs
  <2>4. m \in Reads!World
    <3>1. h.net \cup {r} \in SUBSET (Chats \X (1 .. MaxSeq))
      BY <2>1 DEF Reads!World
    <3>2. [h.ownRead EXCEPT ![h.selected] = Reads!Larger(@, h.shown)] \in [Chats -> Reads!Seqs]
      BY <2>1, <2>3 DEF Reads!World
    <3>3. m = [h EXCEPT !.net = h.net \cup {r},
                        !.ownRead = [h.ownRead EXCEPT ![h.selected] = Reads!Larger(@, h.shown)]]
      BY <2>1, <2>2 DEF Reads!World
    <3>. QED  BY <3>1, <3>2, <3>3 DEF Reads!World
  <2>5. /\ m.net = h.net \cup {r}
        /\ m.ownRead = [h.ownRead EXCEPT ![h.selected] = Reads!Larger(@, h.shown)]
        /\ m.state = h.state /\ m.established = h.established /\ m.lists = h.lists /\ m.late = h.late
        /\ m.selected = h.selected /\ m.shown = h.shown /\ m.load = h.load /\ m.ask = h.ask
        /\ m.call = h.call /\ m.minimized = h.minimized /\ m.unread = h.unread
        /\ m.inbox = h.inbox
    BY <2>2 DEF Reads!World
  <2>6. h.ownRead \in [Chats -> Reads!Seqs] /\ h.net \subseteq Chats \X (1 .. MaxSeq)
    BY DEF Reads!World
  <2>7. \A c \in Chats : h.ownRead[c] <= m.ownRead[c] /\ m.ownRead[c] \in Nat /\ h.ownRead[c] \in Nat
    BY <1>1, <2>3, <2>5, <2>6 DEF Reads!Seqs
  <2>8. m.ownRead[h.selected] = Reads!Larger(h.ownRead[h.selected], h.shown)
    BY <2>1, <2>5, <2>6
  <2>. HIDE DEF m
  <2>9. InBounds(m, s)
    <3>1. \A q \in m.net : q[2] <= s.sent[q[1]]
      <4>1. h.shown <= s.sent[h.selected] /\ \A q \in h.net : q[2] <= s.sent[q[1]]
        BY <1>1, <2>1 DEF InBounds
      <4>. QED  BY <2>5, <4>1
    <3>. QED  BY <3>1, <2>5 DEF InBounds
  <2>12. Staged(m) /\ Badged(m, s)
    BY <2>1, <2>5 DEF Staged, Badged
  <2>10. MarkedRead(m, s) /\ BadgeGoes(m, s)
    <3>1. r \in m.net /\ r[1] = m.selected /\ m.shown <= r[2]
      BY <2>1, <2>5
    <3>. QED  BY <3>1 DEF MarkedRead, BadgeGoes
  <2>11. ASSUME Lonely(h, s)  PROVE Lonely(m, s)
    <3>1. \A c \in Chats : s.own[c] <= m.ownRead[c]
      <4>. SUFFICES ASSUME NEW c \in Chats  PROVE s.own[c] <= m.ownRead[c]  OBVIOUS
      <4>1. s.own[c] <= h.ownRead[c] /\ s.own[c] \in Nat
        <5>1. s.own \in [Chats -> Reads!Seqs]
          BY DEF Cursors
        <5>2. s.own[c] \in Nat
          BY <1>1, <5>1 DEF Reads!Seqs
        <5>. QED  BY <2>11, <5>2 DEF Lonely
      <4>. QED  BY <2>7, <4>1
    <3>2. \A q \in m.net : q[2] <= m.ownRead[q[1]]
      <4>. SUFFICES ASSUME NEW q \in m.net  PROVE q[2] <= m.ownRead[q[1]]  OBVIOUS
      <4>1. CASE q = r
        BY <2>3, <2>8, <4>1
      <4>2. CASE q # r
        <5>1. q \in h.net /\ q[2] \in Nat /\ q[1] \in Chats
          BY <1>1, <2>5, <2>6, <4>2
        <5>2. q[2] <= h.ownRead[q[1]]
          BY <2>11, <5>1 DEF Lonely
        <5>. QED  BY <2>7, <5>1, <5>2
      <4>. QED  BY <4>1, <4>2
    <3>. QED  BY <2>5, <2>11, <3>1, <3>2 DEF Lonely
  <2>. QED  BY <2>4, <2>5, <2>9, <2>12, <2>10, <2>11 DEF m
<1>. QED  BY <1>2, <1>3

LEMMA MarkedAndClearedFacts ==
    ASSUME HomeChatAssumption, NEW h \in Reads!World, NEW s \in Cursors,
           InBounds(h, s), Staged(h), Badged(h, s)
    PROVE  LET m == Reads!MarkedAndCleared(h)
           IN  /\ m \in Reads!World /\ InBounds(m, s) /\ Staged(m) /\ Badged(m, s)
               /\ MarkedRead(m, s) /\ BadgeGoes(m, s)
               /\ (Lonely(h, s) => Lonely(m, s)) /\ m.call = h.call
<1>. DEFINE k == Reads!Marked(h)
            m == [k EXCEPT !.unread = [k.unread EXCEPT ![h.selected] = 0],
                           !.late = k.late \ {h.selected}]
<1>1. MaxSeq \in Nat /\ "none" \notin Chats
  BY DEF HomeChatAssumption, Reads!HomeReadsAssumption
<1>2. /\ k \in Reads!World /\ InBounds(k, s) /\ Staged(k) /\ Badged(k, s)
      /\ MarkedRead(k, s) /\ (Lonely(h, s) => Lonely(k, s))
      /\ k.call = h.call /\ k.selected = h.selected /\ k.state = h.state /\ k.load = h.load
      /\ k.shown = h.shown /\ k.unread = h.unread
  BY MarkedFacts
<1>. HIDE DEF k
<1>3. CASE Reads!CanMark(h)
  <2>1. h.selected \in Chats /\ k.unread \in [Chats -> Nat]
    BY <1>2, <1>3 DEF Reads!CanMark, Reads!World, Reads!ChatOrNone
  <2>2. Reads!MarkedAndCleared(h) = m
    BY <1>2, <1>3 DEF Reads!MarkedAndCleared, Reads!Cleared, Reads!World, k
  <2>3. m \in Reads!World
    BY <1>2, <2>1 DEF Reads!World
  <2>4. /\ m.unread = [k.unread EXCEPT ![h.selected] = 0] /\ m.net = k.net /\ m.ownRead = k.ownRead
        /\ m.state = k.state /\ m.established = k.established /\ m.lists = k.lists
        /\ m.late = k.late \ {h.selected}
        /\ m.selected = k.selected /\ m.shown = k.shown /\ m.load = k.load /\ m.ask = k.ask
        /\ m.call = k.call /\ m.inbox = k.inbox
    BY <1>2 DEF Reads!World
  <2>5. /\ m.unread[h.selected] = 0 /\ k.unread \in [Chats -> Nat]
        /\ \A c \in Chats : m.unread[c] > 0 =>
              k.unread[c] > 0 /\ (c \in k.late => c \in m.late)
    BY <2>1, <2>4
  <2>. HIDE DEF m
  <2>6. InBounds(m, s) /\ Staged(m)
    BY <1>2, <2>4 DEF InBounds, Staged
  <2>7. Badged(m, s) /\ MarkedRead(m, s) /\ BadgeGoes(m, s)
    BY <1>2, <2>4, <2>5 DEF Badged, MarkedRead, BadgeGoes
  <2>8. Lonely(k, s) => Lonely(m, s)
    BY <2>4, <2>5 DEF Lonely
  <2>. QED  BY <1>2, <2>2, <2>3, <2>4, <2>6, <2>7, <2>8
<1>4. CASE ~ Reads!CanMark(h)
  <2>1. Reads!MarkedAndCleared(h) = h /\ k = h
    BY <1>4 DEF Reads!MarkedAndCleared, Reads!Marked, k
  <2>2. h.state = "ready" /\ h.selected # "none" => h.shown = 0
    BY <1>1, <1>4 DEF Reads!CanMark, Reads!World, Reads!Seqs
  <2>3. BadgeGoes(h, s)
    BY <2>2 DEF BadgeGoes
  <2>. QED  BY <1>2, <2>1, <2>3
<1>. QED  BY <1>3, <1>4

LEMMA ReadsStart == ASSUME HomeChatAssumption, Reads!Init  PROVE ReadsInv
<1>1. MaxSeq \in Nat /\ MaxEffort \in Nat
  BY DEF HomeChatAssumption, Reads!HomeReadsAssumption
<1>2. cursors \in Cursors /\ cursors.sent = [c \in Chats |-> 0] /\ cursors.own = [c \in Chats |-> 0]
      /\ cursors.awaited = [c \in Chats |-> {}]
  BY <1>1 DEF Reads!Init, Cursors, Reads!Seqs
<1>3. /\ Reads!NoPage \in Reads!PageState
      /\ [k \in Reads!Lists |-> Reads!NoList] \in [Reads!Lists -> Reads!ListState]
  <2>1. [c \in Chats |-> 0] \in [Chats -> Nat]
    OBVIOUS
  <2>. QED  BY <1>1, <2>1 DEF Reads!NoPage, Reads!PageState, Reads!Seqs, Reads!NoList, Reads!ListState
<1>4. reads \in Reads!World
  <2>1. {} \in SUBSET (Chats \X (1 .. MaxSeq)) /\ {} \in SUBSET Reads!Event
        /\ {} \in SUBSET Reads!Seqs
    OBVIOUS
  <2>2. [c \in Chats |-> 0] \in [Chats -> Nat] /\ [c \in Chats |-> 0] \in [Chats -> Reads!Seqs]
        /\ 0 \in Reads!Seqs /\ {} \in SUBSET Chats
    BY <1>1 DEF Reads!Seqs
  <2>. QED  BY <1>3, <2>1, <2>2 DEF Reads!Init, Reads!World, Reads!ChatOrNone
<1>5. /\ reads.net = {} /\ reads.inbox = {} /\ reads.selected = "none" /\ reads.load = Reads!NoPage
      /\ reads.ask = Reads!NoPage /\ reads.state = "offline"
      /\ reads.lists = [k \in Reads!Lists |-> Reads!NoList] /\ reads.call = "none" /\ reads.unread = [c \in Chats |-> 0]
      /\ reads.ownRead = [c \in Chats |-> 0] /\ alone = TRUE /\ readMoves = 0
  BY DEF Reads!Init
<1>6. Reads!TypeOK
  BY <1>1, <1>2, <1>4, <1>5 DEF Reads!TypeOK, Cursors
<1>7. InBounds(reads, cursors) /\ Staged(reads) /\ Badged(reads, cursors)
  BY <1>2, <1>5 DEF InBounds, Staged, Badged, Reads!NoPage, Reads!NoList
<1>8. Lonely(reads, cursors)
  BY <1>2, <1>5 DEF Lonely, Reads!NoPage
<1>9. MarkedRead(reads, cursors) /\ BadgeGoes(reads, cursors)
  BY <1>5 DEF MarkedRead, BadgeGoes
<1>. QED  BY <1>6, <1>7, <1>8, <1>9 DEF ReadsInv

\* What a step shows to keep the invariant.
LEMMA ReadsKept ==
    ASSUME ReadsInv, reads' \in Reads!World, cursors' \in Cursors, alone' \in BOOLEAN,
           readMoves' \in 0 .. MaxEffort, alone' => alone,
           InBounds(reads', cursors'), Staged(reads'), Badged(reads', cursors'),
           alone' => Lonely(reads', cursors'),
           ~ Reads!Covers(reads') => MarkedRead(reads', cursors') /\ BadgeGoes(reads', cursors')
    PROVE  ReadsInv'
<1>1. Reads!TypeOK'
  BY DEF Reads!TypeOK, Cursors
<1>2. (InBounds(reads, cursors) /\ Staged(reads) /\ Badged(reads, cursors))'
  BY DEF InBounds, Staged, Badged
<1>3. (alone => Lonely(reads, cursors))'
  BY DEF Lonely
<1>4. (~ Reads!Covers(reads) => MarkedRead(reads, cursors) /\ BadgeGoes(reads, cursors))'
  BY DEF MarkedRead, BadgeGoes, Reads!Covers
<1>. QED  BY <1>1, <1>2, <1>3, <1>4 DEF ReadsInv

\* The user selects, what is shown is marked read, a call covers it.
LEMMA SurfaceStep ==
    ASSUME HomeChatAssumption, ReadsInv,
           \/ Reads!MinimizeCall \/ Reads!CallEnds \/ Reads!CallBegins
           \/ Reads!Ready \/ Reads!ReadyAgain \/ Reads!HistoryCame
    PROVE  ReadsInv'
<1>1. MaxSeq \in Nat /\ MaxEffort \in Nat /\ "none" \notin Chats
  BY DEF HomeChatAssumption, Reads!HomeReadsAssumption
<1>2. /\ reads \in Reads!World /\ cursors \in Cursors /\ alone \in BOOLEAN
      /\ readMoves \in 0 .. MaxEffort
      /\ InBounds(reads, cursors) /\ Staged(reads) /\ Badged(reads, cursors)
      /\ alone => Lonely(reads, cursors)
  BY DEF ReadsInv, Reads!TypeOK, Cursors
<1>3. CASE Reads!MinimizeCall \/ Reads!CallEnds
  <2>. DEFINE m == Reads!MarkedAndCleared(reads)
  <2>1. /\ m \in Reads!World /\ InBounds(m, cursors) /\ Staged(m) /\ Badged(m, cursors)
        /\ MarkedRead(m, cursors) /\ BadgeGoes(m, cursors)
        /\ (Lonely(reads, cursors) => Lonely(m, cursors)) /\ m.call = reads.call
    BY <1>2, MarkedAndClearedFacts
  <2>2. PICK call \in {m.call, "none"}, b \in BOOLEAN :
            reads' = [m EXCEPT !.call = call, !.minimized = b, !.covered = {}]
    <3>1. CASE Reads!MinimizeCall
      <4>1. reads' = [m EXCEPT !.minimized = TRUE, !.covered = {}]
        BY <3>1 DEF Reads!MinimizeCall
      <4>2. reads' = [m EXCEPT !.call = m.call, !.minimized = TRUE, !.covered = {}]
        BY <2>1, <4>1 DEF Reads!World
      <4>. QED  BY <4>2
    <3>2. CASE Reads!CallEnds
      BY <3>2 DEF Reads!CallEnds
    <3>. QED  BY <1>3, <3>1, <3>2
  <2>3. UNCHANGED <<cursors, alone, readMoves>>
    BY <1>3 DEF Reads!MinimizeCall, Reads!CallEnds
  <2>. HIDE DEF m
  <2>4. reads' \in Reads!World
    BY <2>1, <2>2 DEF Reads!World, Reads!ChatOrNone
  <2>5. /\ reads'.state = m.state /\ reads'.established = m.established /\ reads'.lists = m.lists /\ reads'.late = m.late
        /\ reads'.selected = m.selected /\ reads'.shown = m.shown /\ reads'.load = m.load
        /\ reads'.ask = m.ask /\ reads'.call = call /\ reads'.unread = m.unread
        /\ reads'.ownRead = m.ownRead /\ reads'.net = m.net /\ reads'.inbox = m.inbox
    BY <2>1, <2>2 DEF Reads!World
  <2>6. InBounds(reads', cursors) /\ Staged(reads') /\ Badged(reads', cursors)
    BY <2>1, <2>5 DEF InBounds, Staged, Badged
  <2>7. alone => Lonely(reads', cursors)
    BY <1>2, <2>1, <2>2, <2>5 DEF Lonely
  <2>8. MarkedRead(reads', cursors) /\ BadgeGoes(reads', cursors)
    BY <2>1, <2>5 DEF MarkedRead, BadgeGoes
  <2>. QED  BY <1>2, <2>3, <2>4, <2>6, <2>7, <2>8, ReadsKept
<1>4. CASE Reads!CallBegins
  <2>1. reads' = [reads EXCEPT !.call = reads.selected, !.minimized = FALSE]
        /\ reads.selected # "none" /\ cursors' = cursors /\ alone' = FALSE
    BY <1>4 DEF Reads!CallBegins
  <2>2. readMoves' \in 0 .. MaxEffort
    BY <1>1, <1>2, <1>4 DEF Reads!CallBegins, Reads!Spend
  <2>3. reads' \in Reads!World /\ Reads!Covers(reads')
    BY <1>2, <2>1 DEF Reads!World, Reads!Covers
  <2>4. /\ reads'.state = reads.state /\ reads'.established = reads.established
        /\ reads'.lists = reads.lists /\ reads'.late = reads.late
        /\ reads'.selected = reads.selected /\ reads'.shown = reads.shown /\ reads'.load = reads.load
        /\ reads'.ask = reads.ask /\ reads'.unread = reads.unread
        /\ reads'.ownRead = reads.ownRead /\ reads'.net = reads.net /\ reads'.inbox = reads.inbox
    BY <1>2, <2>1 DEF Reads!World
  <2>5. InBounds(reads', cursors') /\ Staged(reads') /\ Badged(reads', cursors')
    BY <1>2, <2>1, <2>4 DEF InBounds, Staged, Badged
  <2>. QED  BY <1>2, <2>1, <2>2, <2>3, <2>5, ReadsKept
<1>5. ASSUME NEW h \in Reads!World, reads' = Reads!MarkedAndCleared(h),
             InBounds(h, cursors), Staged(h), Badged(h, cursors),
             Lonely(reads, cursors) => Lonely(h, cursors), UNCHANGED <<cursors, alone, readMoves>>
      PROVE  ReadsInv'
  BY <1>2, <1>5, MarkedAndClearedFacts, ReadsKept
<1>6. CASE Reads!ReadyAgain
  BY <1>2, <1>5, <1>6 DEF Reads!ReadyAgain
<1>7. CASE Reads!Ready
  <2>. DEFINE h == [reads EXCEPT !.state = "ready", !.established = TRUE]
  <2>1. reads' = Reads!MarkedAndCleared(h) /\ UNCHANGED <<cursors, alone, readMoves>>
        /\ reads.state = "recovering" /\ reads.ask.at = "none"
    BY <1>7 DEF Reads!Ready
  <2>2. h \in Reads!World
    BY <1>2 DEF Reads!World
  <2>3. /\ h.state = "ready" /\ h.established = TRUE
        /\ h.lists = reads.lists /\ h.late = reads.late /\ h.call = reads.call
        /\ h.selected = reads.selected /\ h.shown = reads.shown /\ h.load = reads.load
        /\ h.ask = reads.ask /\ h.unread = reads.unread
        /\ h.ownRead = reads.ownRead /\ h.net = reads.net /\ h.inbox = reads.inbox
    BY <1>2 DEF Reads!World
  <2>. HIDE DEF h
  <2>4. InBounds(h, cursors) /\ Staged(h) /\ Badged(h, cursors)
    BY <1>2, <2>1, <2>3 DEF InBounds, Staged, Badged
  <2>5. Lonely(reads, cursors) => Lonely(h, cursors)
    BY <2>1, <2>3 DEF Lonely
  <2>. QED  BY <1>5, <2>1, <2>2, <2>4, <2>5
<1>8. CASE Reads!HistoryCame
  <2>. DEFINE last == Reads!Larger(reads.shown, reads.load.last)
              h == [reads EXCEPT !.load = Reads!NoPage, !.shown = last]
  <2>1. reads' = Reads!MarkedAndCleared(h) /\ UNCHANGED <<cursors, alone, readMoves>>
        /\ reads.load.at = "answered"
    BY <1>2, <1>8 DEF Reads!HistoryCame, Reads!World
  <2>2. Reads!NoPage \in Reads!PageState /\ Reads!NoPage.at = "none"
    BY <1>1 DEF Reads!NoPage, Reads!PageState, Reads!Seqs
  <2>3. reads.load.last \in Reads!Seqs /\ reads.shown \in Reads!Seqs
    BY <1>2 DEF Reads!World, Reads!PageState
  <2>4. last \in Reads!Seqs /\ (last = 0 => reads.shown = 0 /\ reads.load.last = 0)
        /\ last \in {reads.shown, reads.load.last}
    BY <1>1, <2>3 DEF Reads!Larger, Reads!Seqs
  <2>. HIDE DEF last
  <2>5. h \in Reads!World
    BY <1>2, <2>2, <2>4 DEF Reads!World
  <2>6. /\ h.state = reads.state /\ h.established = reads.established
        /\ h.lists = reads.lists /\ h.late = reads.late /\ h.call = reads.call
        /\ h.selected = reads.selected /\ h.shown = last /\ h.load = Reads!NoPage
        /\ h.ask = reads.ask /\ h.unread = reads.unread
        /\ h.ownRead = reads.ownRead /\ h.net = reads.net /\ h.inbox = reads.inbox
    BY <1>2 DEF Reads!World
  <2>. HIDE DEF h
  <2>7. InBounds(h, cursors) /\ Staged(h) /\ Badged(h, cursors)
    BY <1>2, <2>1, <2>2, <2>4, <2>6 DEF InBounds, Staged, Badged
  <2>8. Lonely(reads, cursors) => Lonely(h, cursors)
    BY <2>6 DEF Lonely
  <2>. QED  BY <1>5, <2>1, <2>5, <2>7, <2>8
<1>. QED  BY <1>3, <1>4, <1>6, <1>7, <1>8

\* The user chooses another chat; the connection opens, drops and is recovered.
LEMMA RecoveryStep ==
    ASSUME HomeChatAssumption, ReadsInv,
           \/ \E c \in Chats : Reads!SelectConversation(c)
           \/ Reads!Opens \/ Reads!Drop \/ Reads!Reconciled
           \/ Reads!ListCame \/ Reads!RefreshChats \/ Reads!RefreshCame
           \/ \E k \in Reads!Lists : Reads!ListFails(k)
    PROVE  ReadsInv'
<1>1. MaxSeq \in Nat /\ MaxEffort \in Nat /\ "none" \notin Chats
  BY DEF HomeChatAssumption, Reads!HomeReadsAssumption
<1>2. /\ reads \in Reads!World /\ cursors \in Cursors /\ alone \in BOOLEAN
      /\ readMoves \in 0 .. MaxEffort
      /\ InBounds(reads, cursors) /\ Staged(reads) /\ Badged(reads, cursors)
      /\ alone => Lonely(reads, cursors)
      /\ ~ Reads!Covers(reads) => MarkedRead(reads, cursors) /\ BadgeGoes(reads, cursors)
  BY DEF ReadsInv, Reads!TypeOK, Cursors
<1>3. /\ Reads!NoPage \in Reads!PageState /\ Reads!NoPage.at = "none"
      /\ Reads!Asked \in Reads!PageState /\ Reads!Asked.at = "sent" /\ 0 \in Reads!Seqs
      /\ \A l \in {Reads!NoList, Reads!ListAsked} :
            l \in Reads!ListState /\ \A c \in Chats : l.unread[c] = 0
      /\ Reads!ListAsked.at = "sent" /\ reads.lists \in [Reads!Lists -> Reads!ListState]
      /\ reads.late \subseteq Chats
  <2>1. [c \in Chats |-> 0] \in [Chats -> Nat]
    OBVIOUS
  <2>2. Reads!NoList \in Reads!ListState /\ Reads!NoList.unread = [c \in Chats |-> 0]
    BY <2>1 DEF Reads!NoList, Reads!ListState
  <2>3. /\ Reads!ListAsked \in Reads!ListState /\ Reads!ListAsked.at = "sent"
        /\ Reads!ListAsked.unread = [c \in Chats |-> 0]
    BY <2>2 DEF Reads!ListAsked, Reads!ListState
  <2>4. reads.lists \in [Reads!Lists -> Reads!ListState] /\ reads.late \subseteq Chats
    BY <1>2 DEF Reads!World
  <2>. QED  BY <1>1, <2>2, <2>3, <2>4 DEF Reads!NoPage, Reads!Asked, Reads!PageState, Reads!Seqs
<1>4. \A c \in Chats : cursors.sent[c] \in Nat /\ cursors.own[c] \in Nat
                      /\ cursors.own[c] <= cursors.sent[c] /\ cursors.own[c] \in Reads!Seqs
  <2>1. cursors.sent \in [Chats -> Reads!Seqs] /\ cursors.own \in [Chats -> Reads!Seqs]
    BY <1>2 DEF Cursors
  <2>2. \A c \in Chats : cursors.own[c] <= cursors.sent[c]
    BY <1>2 DEF InBounds
  <2>. QED  BY <1>1, <2>1, <2>2 DEF Reads!Seqs
<1>5. ASSUME NEW h \in Reads!World, NEW c \in Chats, InBounds(h, cursors), Staged(h),
             Badged(h, cursors)
      PROVE  LET g == Reads!Selected(h, c)
             IN  /\ g \in Reads!World /\ InBounds(g, cursors) /\ Staged(g) /\ Badged(g, cursors)
                 /\ MarkedRead(g, cursors) /\ BadgeGoes(g, cursors)
                 /\ (Lonely(h, cursors) => Lonely(g, cursors)) /\ g.call = h.call
  <2>. DEFINE g == Reads!Selected(h, c)
              ask == IF h.state = "recovering" THEN Reads!Asked ELSE h.ask
  <2>1. g = [h EXCEPT !.selected = c, !.shown = 0, !.load = Reads!Asked, !.ask = ask,
                      !.covered = {}]
    BY DEF Reads!Selected, Reads!World
  <2>2. ask \in Reads!PageState /\ (ask.at # "none" => h.state = "recovering") /\ ask.at # "answered"
    <3>1. h.ask \in Reads!PageState /\ h.ask.at \in {"none", "sent", "answered"}
      BY DEF Reads!World, Reads!PageState
    <3>. QED  BY <1>3, <1>5, <3>1 DEF Staged
  <2>. HIDE DEF ask
  <2>3. g \in Reads!World
    <3>1. /\ c \in Reads!ChatOrNone /\ {} \in SUBSET Reads!Seqs /\ 0 \in Reads!Seqs
          /\ Reads!Asked \in Reads!PageState /\ ask \in Reads!PageState
      BY <1>3, <2>2 DEF Reads!ChatOrNone
    <3>. DEFINE k == [h EXCEPT !.selected = c, !.shown = 0, !.covered = {}]
                l == [k EXCEPT !.load = Reads!Asked]
    <3>2. k \in Reads!World
      BY <3>1 DEF Reads!World
    <3>3. g = [l EXCEPT !.ask = ask]
      BY <2>1 DEF Reads!World
    <3>. HIDE DEF g, k
    <3>4. l \in Reads!World
      BY <3>1, <3>2 DEF Reads!World
    <3>. HIDE DEF l
    <3>. QED  BY <3>1, <3>3, <3>4 DEF Reads!World
  <2>4. /\ g.state = h.state /\ g.established = h.established /\ g.lists = h.lists /\ g.late = h.late
        /\ g.call = h.call /\ g.selected = c /\ g.shown = 0 /\ g.load = Reads!Asked /\ g.ask = ask
        /\ g.unread = h.unread /\ g.ownRead = h.ownRead /\ g.net = h.net /\ g.inbox = h.inbox
    BY <2>1 DEF Reads!World
  <2>. HIDE DEF g
  <2>5. InBounds(g, cursors)
    <3>1. g.selected \in Chats /\ g.selected # "none" /\ g.shown <= cursors.sent[g.selected]
      BY <1>1, <1>4, <2>4
    <3>2. g.load.at # "answered" /\ g.ask.at # "answered"
      BY <1>3, <2>2, <2>4
    <3>. QED  BY <1>5, <2>4, <3>1, <3>2 DEF InBounds
  <2>6. Staged(g) /\ Badged(g, cursors) /\ MarkedRead(g, cursors)
        /\ BadgeGoes(g, cursors)
    BY <1>3, <1>5, <2>2, <2>4 DEF Staged, Badged, MarkedRead, BadgeGoes
  <2>7. Lonely(h, cursors) => Lonely(g, cursors)
    BY <2>2, <2>4 DEF Lonely
  <2>. QED  BY <2>3, <2>4, <2>5, <2>6, <2>7 DEF g
\* The surface of calls alone is different.
<1>6. ASSUME NEW g \in Reads!World, NEW b \in BOOLEAN, NEW S \in SUBSET Reads!Seqs,
             reads' = [g EXCEPT !.minimized = b, !.covered = S], UNCHANGED <<cursors, alone>>,
             readMoves' \in 0 .. MaxEffort,
             InBounds(g, cursors), Staged(g), Badged(g, cursors),
             MarkedRead(g, cursors), BadgeGoes(g, cursors), alone => Lonely(g, cursors)
      PROVE  ReadsInv'
  <2>1. reads' \in Reads!World
    BY <1>6 DEF Reads!World
  <2>2. /\ reads'.state = g.state /\ reads'.established = g.established
        /\ reads'.lists = g.lists /\ reads'.late = g.late /\ reads'.call = g.call
        /\ reads'.selected = g.selected /\ reads'.shown = g.shown /\ reads'.load = g.load
        /\ reads'.ask = g.ask /\ reads'.unread = g.unread
        /\ reads'.ownRead = g.ownRead /\ reads'.net = g.net /\ reads'.inbox = g.inbox
    BY <1>6 DEF Reads!World
  <2>3. InBounds(reads', cursors) /\ Staged(reads') /\ Badged(reads', cursors)
    BY <1>6, <2>2 DEF InBounds, Staged, Badged
  <2>4. (alone => Lonely(reads', cursors)) /\ MarkedRead(reads', cursors) /\ BadgeGoes(reads', cursors)
    BY <1>6, <2>2 DEF Lonely, MarkedRead, BadgeGoes
  <2>. QED  BY <1>2, <1>6, <2>1, <2>3, <2>4, ReadsKept
<1>7. ASSUME NEW c \in Chats, Reads!SelectConversation(c)  PROVE ReadsInv'
  <2>. DEFINE g == Reads!Selected(reads, c)
  <2>1. /\ g \in Reads!World /\ InBounds(g, cursors) /\ Staged(g) /\ Badged(g, cursors)
        /\ MarkedRead(g, cursors) /\ BadgeGoes(g, cursors)
        /\ (Lonely(reads, cursors) => Lonely(g, cursors))
    BY <1>2, <1>5
  <2>2. reads' = [g EXCEPT !.minimized = (reads.call # "none")] /\ UNCHANGED <<cursors, alone>>
    BY <1>7 DEF Reads!SelectConversation
  <2>3. readMoves' \in 0 .. MaxEffort
    BY <1>1, <1>2, <1>7 DEF Reads!SelectConversation, Reads!Spend
  <2>. HIDE DEF g
  <2>4. g.covered \in SUBSET Reads!Seqs /\ reads' =
            [g EXCEPT !.minimized = (reads.call # "none"), !.covered = g.covered]
    BY <2>1, <2>2 DEF Reads!World
  <2>5. (reads.call # "none") \in BOOLEAN
    OBVIOUS
  <2>. QED  BY <1>2, <1>6, <2>1, <2>2, <2>3, <2>4, <2>5
<1>8. CASE Reads!Opens
  <2>. DEFINE ask == IF ~ reads.established /\ reads.selected # "none" THEN Reads!Asked
                     ELSE Reads!NoPage
              asked == [k \in Reads!Lists |-> IF k = "recovery" THEN Reads!ListAsked
                                              ELSE Reads!NoList]
              lists == IF reads.established THEN asked ELSE reads.lists
  <2>1. reads' = [reads EXCEPT !.state = "recovering", !.lists = lists, !.ask = ask]
        /\ reads.state = "offline" /\ UNCHANGED <<cursors, alone, readMoves>>
    BY <1>2, <1>8 DEF Reads!Opens, Reads!World
  <2>2. ask \in Reads!PageState /\ ask.at # "answered" /\ (ask.at # "none" => reads.selected # "none")
    BY <1>3
  <2>3. /\ lists \in [Reads!Lists -> Reads!ListState]
        /\ reads.established => lists["recovery"].at # "none"
        /\ \A k \in Reads!Lists, c \in Chats :
              lists[k].unread[c] > 0 => reads.lists[k].unread[c] > 0
    <3>1. /\ asked \in [Reads!Lists -> Reads!ListState] /\ asked["recovery"].at # "none"
          /\ \A k \in Reads!Lists, c \in Chats : asked[k].unread[c] = 0
      BY <1>3 DEF Reads!Lists
    <3>. QED  BY <1>3, <3>1
  <2>. HIDE DEF ask, lists
  <2>4. reads' \in Reads!World
    BY <1>2, <2>1, <2>2, <2>3 DEF Reads!World
  <2>5. /\ reads'.state = "recovering" /\ reads'.established = reads.established
        /\ reads'.lists = lists /\ reads'.late = reads.late
        /\ reads'.call = reads.call /\ reads'.ask = ask
        /\ reads'.selected = reads.selected /\ reads'.shown = reads.shown /\ reads'.load = reads.load
        /\ reads'.unread = reads.unread
        /\ reads'.ownRead = reads.ownRead /\ reads'.net = reads.net /\ reads'.inbox = reads.inbox
    BY <1>2, <2>1 DEF Reads!World
  <2>6. InBounds(reads', cursors) /\ Staged(reads') /\ Badged(reads', cursors)
    BY <1>2, <2>1, <2>2, <2>5, <2>3 DEF InBounds, Staged, Badged
  <2>7. ASSUME alone  PROVE Lonely(reads', cursors)
    <3>1. Lonely(reads, cursors)
      BY <1>2, <2>7
    <3>2. \A c \in Chats : reads.unread[c] > 0 =>
             cursors.own[c] < cursors.sent[c] \/ reads.established
      BY <1>2, <1>4, <3>1 DEF Lonely, Badged
    <3>. QED  BY <2>2, <2>5, <2>3, <3>1, <3>2 DEF Lonely
  <2>8. MarkedRead(reads', cursors) /\ BadgeGoes(reads', cursors)
    BY <2>5 DEF MarkedRead, BadgeGoes
  <2>. QED  BY <1>2, <2>1, <2>4, <2>6, <2>7, <2>8, ReadsKept
\* A list that has come: of its badges those without a cause are late.
<1>9. ASSUME NEW k \in Reads!Lists
      PROVE  LET h == Reads!Listed(reads, k)
             IN  /\ h \in Reads!World /\ InBounds(h, cursors) /\ Staged(h) /\ Badged(h, cursors)
                 /\ MarkedRead(reads, cursors) => MarkedRead(h, cursors) /\ BadgeGoes(h, cursors)
                 /\ Lonely(reads, cursors) => Lonely(h, cursors)
                 /\ h.selected = reads.selected /\ h.call = reads.call
                 /\ h.minimized = reads.minimized
  <2>. DEFINE counts == reads.lists[k].unread
              lists == [reads.lists EXCEPT ![k] = Reads!NoList]
              late == Reads!Causeless(counts)
              h == Reads!Listed(reads, k)
  <2>1. h = [reads EXCEPT !.lists = lists, !.unread = counts, !.late = late]
    BY <1>2 DEF Reads!Listed, Reads!World
  <2>2. counts \in [Chats -> Nat] /\ \A c \in Chats : counts[c] > 0 => cursors.sent[c] > 0
    BY <1>2, <1>3 DEF Badged, Reads!ListState
  <2>3. /\ lists \in [Reads!Lists -> Reads!ListState]
        /\ \A j \in Reads!Lists : lists[j] = Reads!NoList \/ lists[j] = reads.lists[j]
    BY <1>3
  <2>4. late \subseteq Chats
        /\ \A c \in Chats : counts[c] > 0 => c \in late \/ cursors.own[c] < cursors.sent[c]
    <3>1. \A c \in Chats : Reads!Unread(c) = 0 \/ cursors.own[c] < cursors.sent[c]
      BY <1>4 DEF Reads!Unread
    <3>. QED  BY <3>1 DEF Reads!Causeless
  <2>. HIDE DEF counts, lists, late, h
  <2>5. h \in Reads!World
    BY <1>2, <2>1, <2>2, <2>3, <2>4 DEF Reads!World
  <2>6. /\ h.state = reads.state /\ h.established = reads.established
        /\ h.lists = lists /\ h.late = late /\ h.call = reads.call /\ h.ask = reads.ask
        /\ h.selected = reads.selected /\ h.shown = reads.shown /\ h.load = reads.load
        /\ h.unread = counts /\ h.minimized = reads.minimized
        /\ h.ownRead = reads.ownRead /\ h.net = reads.net /\ h.inbox = reads.inbox
    BY <1>2, <2>1 DEF Reads!World
  <2>7. InBounds(h, cursors) /\ Staged(h)
    BY <1>2, <2>6 DEF InBounds, Staged
  <2>8. Badged(h, cursors)
    <3>1. ASSUME NEW j \in Reads!Lists, NEW c \in Chats, lists[j].unread[c] > 0
          PROVE  cursors.sent[c] > 0
      <4>1. Reads!NoList.unread[c] = 0
        BY <1>3
      <4>2. lists[j] = reads.lists[j]
        BY <2>3, <3>1, <4>1
      <4>. QED  BY <1>2, <3>1, <4>2 DEF Badged
    <3>. QED  BY <2>2, <2>6, <3>1 DEF Badged
  <2>9. Lonely(reads, cursors) => Lonely(h, cursors)
    BY <2>4, <2>6 DEF Lonely
  <2>10. MarkedRead(reads, cursors) => MarkedRead(h, cursors) /\ BadgeGoes(h, cursors)
    <3>. SUFFICES ASSUME MarkedRead(reads, cursors)
                  PROVE  MarkedRead(h, cursors) /\ BadgeGoes(h, cursors)
      OBVIOUS
    <3>1. MarkedRead(h, cursors)
      BY <2>6 DEF MarkedRead
    <3>2. ASSUME reads.state = "ready", reads.selected # "none", reads.shown > 0,
                 counts[reads.selected] > 0
          PROVE  \/ reads.selected \in late \/ reads.shown < cursors.sent[reads.selected]
                 \/ \E r \in reads.net : r[1] = reads.selected
      <4>1. reads.selected \in Chats /\ reads.shown \in 0 .. MaxSeq
        BY <1>2, <3>2 DEF Reads!World, Reads!ChatOrNone, Reads!Seqs
      <4>2. CASE reads.shown <= cursors.own[reads.selected]
        BY <1>4, <2>4, <3>2, <4>1, <4>2
      <4>. QED  BY <3>2, <4>2 DEF MarkedRead
    <3>. QED  BY <2>6, <3>1, <3>2 DEF BadgeGoes
  <2>. QED  BY <2>5, <2>6, <2>7, <2>8, <2>9, <2>10 DEF h
\* Lists are asked for and given up.
<1>10. CASE Reads!RefreshChats \/ \E k \in Reads!Lists : Reads!ListFails(k)
  <2>1. readMoves' \in 0 .. MaxEffort
    <3>1. Reads!Spend
      BY <1>10 DEF Reads!RefreshChats, Reads!ListFails
    <3>. QED  BY <1>1, <1>2, <3>1 DEF Reads!Spend
  <2>2. UNCHANGED <<cursors, alone>>
    BY <1>10 DEF Reads!RefreshChats, Reads!ListFails
  <2>3. PICK L \in [Reads!Lists -> Reads!ListState], T \in SUBSET Chats :
            /\ reads' = [reads EXCEPT !.lists = L, !.late = T] /\ reads.late \subseteq T
            /\ \A k \in Reads!Lists, c \in Chats :
                  L[k].unread[c] > 0 => reads.lists[k].unread[c] > 0
            /\ reads.lists["recovery"].at # "none" =>
                  L["recovery"].at # "none" \/ Reads!Causeless(reads.unread) \subseteq T
    <3>1. CASE Reads!RefreshChats
      <4>. DEFINE L == [reads.lists EXCEPT !["refresh"] = Reads!ListAsked]
      <4>1. reads' = [reads EXCEPT !.lists = L, !.late = reads.late]
        BY <1>2, <3>1 DEF Reads!RefreshChats, Reads!World
      <4>2. /\ L \in [Reads!Lists -> Reads!ListState] /\ L["recovery"] = reads.lists["recovery"]
            /\ \A k \in Reads!Lists, c \in Chats :
                  L[k].unread[c] > 0 => reads.lists[k].unread[c] > 0
        BY <1>3 DEF Reads!Lists
      <4>3. reads.late \in SUBSET Chats /\ reads.late \subseteq reads.late
        BY <1>3
      <4>. HIDE DEF L
      <4>. QED  BY <4>1, <4>2, <4>3
    <3>2. ASSUME NEW k \in Reads!Lists, Reads!ListFails(k)
          PROVE  \E L \in [Reads!Lists -> Reads!ListState], T \in SUBSET Chats :
                    /\ reads' = [reads EXCEPT !.lists = L, !.late = T] /\ reads.late \subseteq T
                    /\ \A j \in Reads!Lists, c \in Chats :
                          L[j].unread[c] > 0 => reads.lists[j].unread[c] > 0
                    /\ reads.lists["recovery"].at # "none" =>
                          L["recovery"].at # "none" \/ Reads!Causeless(reads.unread) \subseteq T
      <4>. DEFINE L == [reads.lists EXCEPT ![k] = Reads!NoList]
                  T == reads.late \cup (IF k = "recovery" THEN Reads!Causeless(reads.unread)
                                        ELSE {})
      <4>1. reads' = [reads EXCEPT !.lists = L, !.late = T]
        BY <1>2, <3>2 DEF Reads!ListFails, Reads!World
      <4>2. /\ L \in [Reads!Lists -> Reads!ListState]
            /\ k = "recovery" \/ L["recovery"] = reads.lists["recovery"]
            /\ \A j \in Reads!Lists, c \in Chats :
                  L[j].unread[c] > 0 => reads.lists[j].unread[c] > 0
        BY <1>3 DEF Reads!Lists
      <4>3. T \in SUBSET Chats /\ reads.late \subseteq T
            /\ (k = "recovery" => Reads!Causeless(reads.unread) \subseteq T)
        BY <1>3 DEF Reads!Causeless
      <4>. HIDE DEF L, T
      <4>4. reads.lists["recovery"].at # "none" =>
               L["recovery"].at # "none" \/ Reads!Causeless(reads.unread) \subseteq T
        BY <4>2, <4>3
      <4>. QED  BY <4>1, <4>2, <4>3, <4>4
    <3>. QED  BY <1>10, <3>1, <3>2
  <2>4. reads' \in Reads!World
    BY <1>2, <2>3 DEF Reads!World
  <2>5. /\ reads'.state = reads.state /\ reads'.established = reads.established
        /\ reads'.lists = L /\ reads'.late = T /\ reads'.call = reads.call
        /\ reads'.minimized = reads.minimized /\ reads'.ask = reads.ask
        /\ reads'.selected = reads.selected /\ reads'.shown = reads.shown /\ reads'.load = reads.load
        /\ reads'.unread = reads.unread
        /\ reads'.ownRead = reads.ownRead /\ reads'.net = reads.net /\ reads'.inbox = reads.inbox
    BY <1>2, <2>3 DEF Reads!World
  <2>6. InBounds(reads', cursors) /\ Staged(reads') /\ Badged(reads', cursors)
    BY <1>2, <2>3, <2>5 DEF InBounds, Staged, Badged
  <2>7. ASSUME alone  PROVE Lonely(reads', cursors)
    <3>1. Lonely(reads, cursors)
      BY <1>2, <2>7
    <3>2. \A c \in Chats : reads.unread[c] > 0 =>
             cursors.own[c] < cursors.sent[c] \/ c \in Reads!Causeless(reads.unread)
      BY <1>4 DEF Reads!Causeless, Reads!Unread
    <3>. QED  BY <2>3, <2>5, <3>1, <3>2 DEF Lonely
  <2>8. ~ Reads!Covers(reads') => MarkedRead(reads', cursors) /\ BadgeGoes(reads', cursors)
    BY <1>2, <2>3, <2>5 DEF MarkedRead, BadgeGoes, Reads!Covers
  <2>. QED  BY <1>2, <2>1, <2>2, <2>4, <2>6, <2>7, <2>8, ReadsKept
<1>11. CASE Reads!RefreshCame
  <2>1. reads' = Reads!Listed(reads, "refresh") /\ UNCHANGED <<cursors, alone, readMoves>>
    BY <1>11 DEF Reads!RefreshCame
  <2>2. "refresh" \in Reads!Lists
    BY DEF Reads!Lists
  <2>3. /\ reads' \in Reads!World /\ InBounds(reads', cursors) /\ Staged(reads')
        /\ Badged(reads', cursors)
        /\ MarkedRead(reads, cursors) => MarkedRead(reads', cursors) /\ BadgeGoes(reads', cursors)
        /\ Lonely(reads, cursors) => Lonely(reads', cursors)
        /\ reads'.call = reads.call /\ reads'.minimized = reads.minimized
    BY <1>9, <2>1, <2>2
  <2>4. ~ Reads!Covers(reads') => MarkedRead(reads', cursors) /\ BadgeGoes(reads', cursors)
    BY <1>2, <2>3 DEF Reads!Covers
  <2>. QED  BY <1>2, <2>1, <2>3, <2>4, ReadsKept
<1>12. CASE Reads!ListCame
  <2>. DEFINE h == Reads!Listed(reads, "recovery")
  <2>1. /\ UNCHANGED <<cursors, alone, readMoves>>
        /\ reads' = IF h.selected = "none" THEN h
                    ELSE [Reads!Selected(h, h.selected) EXCEPT !.covered = reads.covered]
    BY <1>12 DEF Reads!ListCame
  <2>2. "recovery" \in Reads!Lists
    BY DEF Reads!Lists
  <2>3. /\ h \in Reads!World /\ InBounds(h, cursors) /\ Staged(h) /\ Badged(h, cursors)
        /\ Lonely(reads, cursors) => Lonely(h, cursors)
        /\ h.selected = reads.selected /\ h.call = reads.call
    BY <1>9, <2>2
  <2>. HIDE DEF h
  <2>4. reads.covered \in SUBSET Reads!Seqs /\ reads.selected \in Chats \cup {"none"}
    BY <1>2 DEF Reads!World, Reads!ChatOrNone
  <2>5. CASE reads.selected = "none"
    <3>1. MarkedRead(h, cursors) /\ BadgeGoes(h, cursors)
      BY <2>3, <2>5 DEF MarkedRead, BadgeGoes
    <3>2. reads' = h
      BY <2>1, <2>3, <2>5
    <3>. QED  BY <1>2, <2>1, <2>3, <3>1, <3>2, ReadsKept
  <2>6. CASE reads.selected # "none"
    <3>. DEFINE g == Reads!Selected(h, h.selected)
    <3>1. h.selected \in Chats
      BY <2>3, <2>4, <2>6
    <3>2. /\ g \in Reads!World /\ InBounds(g, cursors) /\ Staged(g) /\ Badged(g, cursors)
          /\ MarkedRead(g, cursors) /\ BadgeGoes(g, cursors)
          /\ (Lonely(h, cursors) => Lonely(g, cursors))
      BY <1>5, <2>3, <3>1
    <3>3. reads' = [g EXCEPT !.covered = reads.covered]
      BY <2>1, <2>3, <2>6
    <3>. HIDE DEF g
    <3>4. g.minimized \in BOOLEAN
          /\ reads' = [g EXCEPT !.minimized = g.minimized, !.covered = reads.covered]
      BY <3>2, <3>3 DEF Reads!World
    <3>. QED  BY <1>2, <1>6, <2>1, <2>3, <2>4, <3>2, <3>4
  <2>. QED  BY <2>5, <2>6
<1>13. CASE Reads!Drop
  <2>. DEFINE L == [reads.lists EXCEPT !["recovery"] = Reads!NoList]
  <2>1. reads' = [reads EXCEPT !.state = "offline", !.lists = L, !.ask = Reads!NoPage,
                               !.net = {}, !.inbox = {}]
        /\ UNCHANGED <<cursors, alone>>
    BY <1>2, <1>13 DEF Reads!Drop, Reads!World
  <2>2. readMoves' \in 0 .. MaxEffort
    BY <1>1, <1>2, <1>13 DEF Reads!Drop, Reads!Spend
  <2>3. L \in [Reads!Lists -> Reads!ListState] /\ \A k \in Reads!Lists, c \in Chats :
              L[k].unread[c] > 0 => reads.lists[k].unread[c] > 0
    BY <1>3 DEF Reads!Lists
  <2>. HIDE DEF L
  <2>4. reads' \in Reads!World
    BY <1>2, <1>3, <2>1, <2>3 DEF Reads!World
  <2>5. /\ reads'.state = "offline" /\ reads'.established = reads.established
        /\ reads'.lists = L /\ reads'.late = reads.late
        /\ reads'.call = reads.call /\ reads'.ask = Reads!NoPage
        /\ reads'.selected = reads.selected /\ reads'.shown = reads.shown /\ reads'.load = reads.load
        /\ reads'.unread = reads.unread
        /\ reads'.ownRead = reads.ownRead /\ reads'.net = {} /\ reads'.inbox = {}
    BY <1>2, <2>1 DEF Reads!World
  <2>6. InBounds(reads', cursors) /\ Staged(reads') /\ Badged(reads', cursors)
    BY <1>2, <1>3, <2>5, <2>3 DEF InBounds, Staged, Badged
  <2>7. alone => Lonely(reads', cursors)
    BY <1>2, <1>3, <2>5 DEF Lonely
  <2>8. MarkedRead(reads', cursors) /\ BadgeGoes(reads', cursors)
    BY <2>5 DEF MarkedRead, BadgeGoes
  <2>. QED  BY <1>2, <2>1, <2>2, <2>4, <2>6, <2>7, <2>8, ReadsKept
<1>14. CASE Reads!Reconciled
  <2>. DEFINE c == reads.selected
              last == Reads!Larger(reads.shown, reads.ask.last)
  <2>1. reads.ask.at = "answered" /\ UNCHANGED <<cursors, alone, readMoves>>
        /\ reads.state = "recovering"
    BY <1>2, <1>14 DEF Reads!Reconciled, Staged
  <2>2. c \in Chats /\ reads.ask.last \in Reads!Seqs /\ reads.ask.own \in Reads!Seqs
        /\ reads.ask.peer \in Reads!Seqs /\ reads.shown \in Reads!Seqs
        /\ reads.unread \in [Chats -> Nat] /\ reads.ownRead \in [Chats -> Reads!Seqs]
        /\ reads.peerRead \in [Chats -> Reads!Seqs]
    BY <1>2, <2>1 DEF InBounds, Reads!World, Reads!PageState, Reads!ChatOrNone
  <2>3. last \in Reads!Seqs /\ last \in {reads.shown, reads.ask.last}
    BY <2>2 DEF Reads!Larger
  <2>4. reads' = [reads EXCEPT !.ask = Reads!NoPage, !.shown = last,
                               !.ownRead = [reads.ownRead EXCEPT ![c] = reads.ask.own],
                               !.peerRead = [reads.peerRead EXCEPT ![c] = reads.ask.peer],
                               !.unread = [reads.unread EXCEPT ![c] = 0],
                               !.late = reads.late \ {c}]
    BY <1>2, <1>14 DEF Reads!Reconciled, Reads!Cleared, Reads!World
  <2>. HIDE DEF last
  <2>5. reads' \in Reads!World
    <3>1. /\ [reads.ownRead EXCEPT ![c] = reads.ask.own] \in [Chats -> Reads!Seqs]
          /\ [reads.peerRead EXCEPT ![c] = reads.ask.peer] \in [Chats -> Reads!Seqs]
          /\ [reads.unread EXCEPT ![c] = 0] \in [Chats -> Nat]
          /\ reads.late \ {c} \subseteq Chats
      BY <1>3, <2>2
    <3>. QED  BY <1>2, <1>3, <2>3, <2>4, <3>1 DEF Reads!World
  <2>6. /\ reads'.state = reads.state /\ reads'.established = reads.established
        /\ reads'.lists = reads.lists /\ reads'.late = reads.late \ {c}
        /\ reads'.call = reads.call /\ reads'.ask = Reads!NoPage
        /\ reads'.selected = reads.selected /\ reads'.shown = last /\ reads'.load = reads.load
        /\ reads'.unread = [reads.unread EXCEPT ![c] = 0]
        /\ reads'.ownRead = [reads.ownRead EXCEPT ![c] = reads.ask.own]
        /\ reads'.net = reads.net /\ reads'.inbox = reads.inbox
    BY <1>2, <2>4 DEF Reads!World
  <2>7. reads'.unread[c] = 0 /\ \A d \in Chats : reads'.unread[d] > 0 =>
              reads.unread[d] > 0 /\ (d \in reads.late => d \in reads'.late)
    BY <2>2, <2>6
  <2>8. reads.net = {}
    BY <1>2, <2>1 DEF Staged
  <2>9. InBounds(reads', cursors) /\ Staged(reads')
    BY <1>2, <1>3, <2>1, <2>3, <2>6 DEF InBounds, Staged
  <2>10. Badged(reads', cursors)
    BY <1>2, <2>6, <2>7 DEF Badged
  <2>11. ASSUME alone  PROVE Lonely(reads', cursors)
    <3>1. Lonely(reads, cursors)
      BY <1>2, <2>11
    <3>2. \A d \in Chats : cursors.own[d] <= reads'.ownRead[d]
      <4>. SUFFICES ASSUME NEW d \in Chats  PROVE cursors.own[d] <= reads'.ownRead[d]  OBVIOUS
      <4>1. cursors.own[d] <= reads.ownRead[d] /\ reads.ask.own = cursors.own[c]
        BY <2>1, <3>1 DEF Lonely
      <4>2. reads'.ownRead[d] = IF d = c THEN reads.ask.own ELSE reads.ownRead[d]
        BY <2>2, <2>6
      <4>. QED  BY <1>4, <4>1, <4>2
    <3>. QED  BY <1>3, <2>6, <2>7, <2>8, <3>1, <3>2 DEF Lonely
  <2>12. MarkedRead(reads', cursors) /\ BadgeGoes(reads', cursors)
    BY <2>1, <2>6 DEF MarkedRead, BadgeGoes
  <2>. QED  BY <1>2, <2>1, <2>5, <2>9, <2>10, <2>11, <2>12, ReadsKept
<1>. QED  BY <1>7, <1>8, <1>10, <1>14, <1>11, <1>12, <1>13

\* The services and the other devices.
LEMMA ServicesStep ==
    ASSUME HomeChatAssumption, ReadsInv,
           \/ \E c \in Chats : Reads!PeerSends(c)
           \/ \E c \in Chats, i \in Reads!Seqs : Reads!Deliver(c, i)
           \/ \E r \in reads.net : Reads!ServerReads(r)
           \/ \E c \in Chats : Reads!OtherDeviceReads(c)
           \/ \E c \in Chats : Reads!PeerReads(c)
           \/ \E k \in Reads!Lists : Reads!ServerLists(k)
           \/ Reads!ServerLoads \/ Reads!ServerReconciles
    PROVE  ReadsInv'
<1>1. MaxSeq \in Nat /\ MaxEffort \in Nat /\ "none" \notin Chats
  BY DEF HomeChatAssumption, Reads!HomeReadsAssumption
<1>2. /\ reads \in Reads!World /\ cursors \in Cursors /\ alone \in BOOLEAN
      /\ readMoves \in 0 .. MaxEffort
      /\ InBounds(reads, cursors) /\ Staged(reads) /\ Badged(reads, cursors)
      /\ alone => Lonely(reads, cursors)
      /\ ~ Reads!Covers(reads) => MarkedRead(reads, cursors) /\ BadgeGoes(reads, cursors)
  BY DEF ReadsInv, Reads!TypeOK, Cursors
<1>3. /\ cursors.sent \in [Chats -> Reads!Seqs] /\ cursors.own \in [Chats -> Reads!Seqs]
      /\ cursors.peer \in [Chats -> Reads!Seqs] /\ cursors.awaited \in [Chats -> SUBSET Reads!Seqs]
  BY <1>2 DEF Cursors
<1>4. \A c \in Chats : /\ cursors.sent[c] \in 0 .. MaxSeq /\ cursors.own[c] \in 0 .. MaxSeq
                       /\ cursors.peer[c] \in 0 .. MaxSeq
                       /\ cursors.own[c] <= cursors.sent[c]
                       /\ \A i \in cursors.awaited[c] : 1 <= i /\ i <= cursors.sent[c] /\ i \in Nat
  <2>1. \A c \in Chats : cursors.own[c] <= cursors.sent[c]
           /\ \A i \in cursors.awaited[c] : 1 <= i /\ i <= cursors.sent[c]
    BY <1>2 DEF InBounds
  <2>. QED  BY <1>1, <1>3, <2>1 DEF Reads!Seqs
<1>5. reads.net \subseteq Chats \X (1 .. MaxSeq) /\ reads.inbox \subseteq Reads!Event
      /\ reads.ownRead \in [Chats -> Reads!Seqs] /\ reads.shown \in Reads!Seqs
      /\ reads.selected \in Chats \cup {"none"}
  BY <1>2 DEF Reads!World, Reads!ChatOrNone
<1>6. \A k \in {"created", "ownRead", "peerRead"}, c \in Chats, i \in 1 .. MaxSeq :
         [kind |-> k, chat |-> c, seq |-> i] \in Reads!Event
  BY DEF Reads!Event
<1>7. \A e \in reads.inbox : e.chat \in Chats /\ e.seq \in Nat
  <2>1. \A e \in Reads!Event : e.chat \in Chats /\ e.seq \in 1 .. MaxSeq
    BY DEF Reads!Event
  <2>. QED  BY <1>1, <1>5, <2>1
\* A message is sent.
<1>8. ASSUME NEW c \in Chats, Reads!PeerSends(c)  PROVE ReadsInv'
  <2>. DEFINE n == cursors.sent[c] + 1
  <2>1. UNCHANGED <<reads, alone, readMoves>> /\ n \in 1 .. MaxSeq
        /\ cursors' = [cursors EXCEPT !.sent = [cursors.sent EXCEPT ![c] = n],
                                      !.awaited = [cursors.awaited EXCEPT ![c] = @ \cup {n}]]
    <3>1. UNCHANGED <<reads, alone, readMoves>> /\ cursors.sent[c] < MaxSeq
          /\ cursors' = [cursors EXCEPT !.sent = [cursors.sent EXCEPT ![c] = n],
                                        !.awaited = [cursors.awaited EXCEPT ![c] = @ \cup {n}]]
      BY <1>2, <1>8 DEF Reads!PeerSends, Cursors
    <3>. QED  BY <1>1, <1>4, <3>1
  <2>. HIDE DEF n
  <2>2. [cursors.sent EXCEPT ![c] = n] \in [Chats -> Reads!Seqs]
        /\ [cursors.awaited EXCEPT ![c] = @ \cup {n}] \in [Chats -> SUBSET Reads!Seqs]
    BY <1>1, <1>3, <2>1 DEF Reads!Seqs
  <2>3. cursors' \in Cursors
    BY <1>2, <2>1, <2>2 DEF Cursors
  <2>4. /\ cursors'.sent = [cursors.sent EXCEPT ![c] = n] /\ cursors'.own = cursors.own
        /\ cursors'.awaited = [cursors.awaited EXCEPT ![c] = @ \cup {n}]
    BY <1>2, <2>1 DEF Cursors
  <2>5. \A d \in Chats : cursors'.sent[d] \in Nat /\ cursors.sent[d] <= cursors'.sent[d]
                         /\ cursors'.sent[d] = IF d = c THEN n ELSE cursors.sent[d]
    BY <1>1, <1>3, <1>4, <2>1, <2>4 DEF n
  <2>6. InBounds(reads, cursors')
    <3>1. \A d \in Chats : cursors'.own[d] <= cursors'.sent[d]
             /\ \A i \in cursors'.awaited[d] : 1 <= i /\ i <= cursors'.sent[d]
      <4>. SUFFICES ASSUME NEW d \in Chats
                    PROVE  cursors'.own[d] <= cursors'.sent[d]
                           /\ \A i \in cursors'.awaited[d] : 1 <= i /\ i <= cursors'.sent[d]
        OBVIOUS
      <4>1. cursors'.own[d] <= cursors'.sent[d]
        BY <1>4, <2>4, <2>5
      <4>2. cursors'.awaited[d] = IF d = c THEN cursors.awaited[c] \cup {n} ELSE cursors.awaited[d]
        BY <1>3, <2>4
      <4>3. \A i \in cursors'.awaited[d] : 1 <= i /\ i <= cursors'.sent[d]
        BY <1>4, <2>1, <2>5, <4>2
      <4>. QED  BY <4>1, <4>3
    <3>2. \A r \in reads.net : r[2] <= cursors'.sent[r[1]]
      <4>. SUFFICES ASSUME NEW r \in reads.net  PROVE r[2] <= cursors'.sent[r[1]]  OBVIOUS
      <4>1. r[1] \in Chats /\ r[2] \in Nat /\ r[2] <= cursors.sent[r[1]]
        <5>1. r[1] \in Chats /\ r[2] \in Nat
          BY <1>1, <1>5
        <5>. QED  BY <1>2, <5>1 DEF InBounds
      <4>. QED  BY <1>4, <2>5, <4>1
    <3>3. \A e \in reads.inbox : /\ e.kind = "ownRead" => e.seq <= cursors'.own[e.chat]
                                 /\ e.kind = "created" => e.seq <= cursors'.sent[e.chat]
      <4>. SUFFICES ASSUME NEW e \in reads.inbox, e.kind = "created"
                    PROVE  e.seq <= cursors'.sent[e.chat]
        BY <1>2, <2>4 DEF InBounds
      <4>1. e.chat \in Chats /\ e.seq \in Nat /\ e.seq <= cursors.sent[e.chat]
        <5>1. e.chat \in Chats /\ e.seq \in Nat
          BY <1>7
        <5>. QED  BY <1>2, <5>1 DEF InBounds
      <4>. QED  BY <1>4, <2>5, <4>1
    <3>4. reads.selected # "none" => reads.selected \in Chats
      BY <1>5
    <3>5. reads.load.last \in 0 .. MaxSeq /\ reads.ask.last \in 0 .. MaxSeq
          /\ reads.shown \in 0 .. MaxSeq
      BY <1>2 DEF Reads!World, Reads!PageState, Reads!Seqs
    <3>6. /\ reads.selected # "none" => reads.shown <= cursors'.sent[reads.selected]
          /\ reads.load.at = "answered" => reads.load.last <= cursors'.sent[reads.selected]
          /\ reads.ask.at = "answered" => reads.ask.last <= cursors'.sent[reads.selected]
      <4>1. /\ reads.selected # "none" => reads.shown <= cursors.sent[reads.selected]
            /\ reads.load.at = "answered" => reads.selected # "none"
                 /\ reads.load.last <= cursors.sent[reads.selected]
            /\ reads.ask.at = "answered" => reads.selected # "none"
                 /\ reads.ask.last <= cursors.sent[reads.selected]
        BY <1>2 DEF InBounds
      <4>2. reads.selected # "none" => cursors.sent[reads.selected] \in Nat
               /\ cursors'.sent[reads.selected] \in Nat
               /\ cursors.sent[reads.selected] <= cursors'.sent[reads.selected]
        BY <1>1, <1>4, <2>5, <3>4
      <4>. QED  BY <1>1, <3>5, <4>1, <4>2
    <3>. QED  BY <1>2, <3>1, <3>2, <3>3, <3>6 DEF InBounds
  <2>7. Badged(reads, cursors')
    BY <1>2, <1>4, <2>5 DEF Badged
  <2>8. alone => Lonely(reads, cursors')
    <3>1. \A d \in Chats : cursors.own[d] < cursors.sent[d] => cursors.own[d] < cursors'.sent[d]
      BY <1>4, <2>5
    <3>. QED  BY <1>2, <2>4, <3>1 DEF Lonely
  <2>9. ~ Reads!Covers(reads) => MarkedRead(reads, cursors')
    BY <1>2, <2>4 DEF MarkedRead
  <2>10. ~ Reads!Covers(reads) => BadgeGoes(reads, cursors')
    <3>1. reads.shown \in 0 .. MaxSeq
      BY <1>5 DEF Reads!Seqs
    <3>2. \A d \in Chats : reads.shown < cursors.sent[d] => reads.shown < cursors'.sent[d]
      BY <1>1, <1>4, <2>5, <3>1
    <3>. QED  BY <1>2, <1>5, <3>2 DEF BadgeGoes
  <2>. QED  BY <1>2, <2>1, <2>3, <2>6, <2>7, <2>8, <2>9, <2>10, ReadsKept
\* An event is put in the inbox, which no cursor depends on.
<1>9. ASSUME NEW e \in Reads!Event, reads.state # "offline",
             reads' = [reads EXCEPT !.inbox = @ \cup {e}], cursors' \in Cursors,
             cursors'.sent = cursors.sent, cursors'.own = cursors.own,
             \A d \in Chats : cursors'.awaited[d] \subseteq cursors.awaited[d],
             alone' = alone, readMoves' \in 0 .. MaxEffort, e.kind # "ownRead",
             e.kind = "created" => e.seq <= cursors.sent[e.chat]
      PROVE  ReadsInv'
  <2>1. reads' \in Reads!World
    BY <1>2, <1>9 DEF Reads!World
  <2>2. /\ reads'.state = reads.state /\ reads'.established = reads.established
        /\ reads'.lists = reads.lists /\ reads'.late = reads.late /\ reads'.call = reads.call
        /\ reads'.minimized = reads.minimized /\ reads'.ask = reads.ask
        /\ reads'.selected = reads.selected /\ reads'.shown = reads.shown
        /\ reads'.load = reads.load /\ reads'.unread = reads.unread
        /\ reads'.ownRead = reads.ownRead /\ reads'.net = reads.net
        /\ reads'.inbox = reads.inbox \cup {e}
    BY <1>2, <1>9 DEF Reads!World
  <2>3. InBounds(reads', cursors')
    BY <1>2, <1>9, <2>2 DEF InBounds
  <2>4. Staged(reads') /\ Badged(reads', cursors')
    BY <1>2, <1>9, <2>2 DEF Staged, Badged
  <2>5. alone => Lonely(reads', cursors')
    BY <1>2, <1>9, <2>2 DEF Lonely
  <2>6. ~ Reads!Covers(reads') => MarkedRead(reads', cursors') /\ BadgeGoes(reads', cursors')
    BY <1>2, <1>9, <2>2 DEF MarkedRead, BadgeGoes, Reads!Covers
  <2>. QED  BY <1>2, <1>9, <2>1, <2>3, <2>4, <2>5, <2>6, ReadsKept
<1>10. ASSUME NEW c \in Chats, NEW i \in Reads!Seqs, Reads!Deliver(c, i)  PROVE ReadsInv'
  <2>. DEFINE e == [kind |-> "created", chat |-> c, seq |-> i]
  <2>1. reads.state # "offline" /\ i \in cursors.awaited[c]
        /\ reads' = [reads EXCEPT !.inbox = @ \cup {e}] /\ UNCHANGED <<alone, readMoves>>
        /\ cursors' = [cursors EXCEPT !.awaited = [cursors.awaited EXCEPT ![c] = @ \ {i}]]
    BY <1>2, <1>10 DEF Reads!Deliver, Cursors
  <2>2. i \in 1 .. MaxSeq /\ i <= cursors.sent[c]
    BY <1>1, <1>4, <2>1 DEF Reads!Seqs
  <2>3. e \in Reads!Event /\ e.kind = "created" /\ e.chat = c /\ e.seq = i
    BY <1>6, <2>2
  <2>4. [cursors.awaited EXCEPT ![c] = @ \ {i}] \in [Chats -> SUBSET Reads!Seqs]
    BY <1>3
  <2>5. cursors' \in Cursors /\ cursors'.sent = cursors.sent /\ cursors'.own = cursors.own
        /\ cursors'.awaited = [cursors.awaited EXCEPT ![c] = @ \ {i}]
    BY <1>2, <2>1, <2>4 DEF Cursors
  <2>6. \A d \in Chats : cursors'.awaited[d] \subseteq cursors.awaited[d]
    BY <1>3, <2>5
  <2>. HIDE DEF e
  <2>. QED  BY <1>2, <1>9, <2>1, <2>2, <2>3, <2>5, <2>6
<1>11. ASSUME NEW c \in Chats, Reads!PeerReads(c)  PROVE ReadsInv'
  <2>. DEFINE n == cursors.peer[c] + 1
              e == [kind |-> "peerRead", chat |-> c, seq |-> n]
  <2>1. reads' = (IF reads.state = "offline" THEN reads
                  ELSE [reads EXCEPT !.inbox = @ \cup {e}]) /\ alone' = alone
        /\ cursors' = [cursors EXCEPT !.peer = [cursors.peer EXCEPT ![c] = n]]
        /\ n \in 1 .. MaxSeq
    <3>1. reads' = (IF reads.state = "offline" THEN reads
                    ELSE [reads EXCEPT !.inbox = @ \cup {e}]) /\ alone' = alone
          /\ cursors' = [cursors EXCEPT !.peer = [cursors.peer EXCEPT ![c] = n]]
          /\ cursors.peer[c] < cursors.sent[c]
      BY <1>2, <1>11 DEF Reads!PeerReads, Cursors
    <3>2. cursors.peer[c] \in 0 .. MaxSeq /\ cursors.sent[c] \in 0 .. MaxSeq
      BY <1>4
    <3>3. cursors.peer[c] < cursors.sent[c]
      BY <3>1
    <3>4. n \in 1 .. MaxSeq
      BY <1>1, <3>2, <3>3
    <3>. QED  BY <3>1, <3>4
  <2>2. readMoves' \in 0 .. MaxEffort
    <3>1. Reads!Spend
      BY <1>11 DEF Reads!PeerReads
    <3>. QED  BY <1>1, <1>2, <3>1 DEF Reads!Spend
  <2>3. e \in Reads!Event /\ e.kind = "peerRead"
    BY <1>6, <2>1
  <2>. HIDE DEF n, e
  <2>4. [cursors.peer EXCEPT ![c] = n] \in [Chats -> Reads!Seqs]
    BY <1>1, <1>3, <2>1 DEF Reads!Seqs
  <2>5. cursors' \in Cursors /\ cursors'.sent = cursors.sent /\ cursors'.own = cursors.own
        /\ cursors'.awaited = cursors.awaited
    BY <1>2, <2>1, <2>4 DEF Cursors
  <2>6. CASE reads.state # "offline"
    BY <1>2, <1>9, <2>1, <2>2, <2>3, <2>5, <2>6
  <2>7. CASE reads.state = "offline"
    <3>1. reads' = reads
      BY <2>1, <2>7
    <3>2. InBounds(reads, cursors') /\ Badged(reads, cursors') /\ (alone => Lonely(reads, cursors'))
          /\ (~ Reads!Covers(reads) => MarkedRead(reads, cursors') /\ BadgeGoes(reads, cursors'))
      BY <1>2, <2>5 DEF InBounds, Badged, Lonely, MarkedRead, BadgeGoes
    <3>. QED  BY <1>2, <2>1, <2>2, <2>5, <3>1, <3>2, ReadsKept
  <2>. QED  BY <2>6, <2>7
\* A device of the user reads up to n.
<1>12. ASSUME NEW c \in Chats, NEW n \in 1 .. MaxSeq, n <= cursors.sent[c], cursors.own[c] <= n,
              cursors' = [cursors EXCEPT !.own = [cursors.own EXCEPT ![c] = n]],
              NEW N \in SUBSET reads.net, \A r \in reads.net \ N : r[1] = c /\ r[2] <= n,
              reads' = Reads!Advanced([reads EXCEPT !.net = N], c, n),
              alone' => alone /\ reads.state = "ready" /\ n <= reads.ownRead[c],
              alone' \in BOOLEAN, readMoves' \in 0 .. MaxEffort
       PROVE  ReadsInv'
  <2>. DEFINE e == [kind |-> "ownRead", chat |-> c, seq |-> n]
              inbox == IF reads.state = "offline" THEN reads.inbox ELSE reads.inbox \cup {e}
  <2>1. reads' = [reads EXCEPT !.net = N, !.inbox = inbox]
    BY <1>2, <1>12 DEF Reads!Advanced, Reads!World
  <2>2. e \in Reads!Event /\ e.kind = "ownRead" /\ e.chat = c /\ e.seq = n
    BY <1>6
  <2>. HIDE DEF e
  <2>3. inbox \subseteq Reads!Event /\ inbox \subseteq reads.inbox \cup {e}
        /\ (reads.state = "offline" => inbox = reads.inbox)
        /\ (reads.state # "offline" => e \in inbox) /\ reads.inbox \subseteq inbox
    BY <1>5, <2>2
  <2>. HIDE DEF inbox
  <2>4. reads' \in Reads!World
    BY <1>2, <1>5, <2>1, <2>3 DEF Reads!World
  <2>5. /\ reads'.state = reads.state /\ reads'.established = reads.established
        /\ reads'.lists = reads.lists /\ reads'.late = reads.late /\ reads'.call = reads.call
        /\ reads'.minimized = reads.minimized /\ reads'.ask = reads.ask
        /\ reads'.selected = reads.selected /\ reads'.shown = reads.shown
        /\ reads'.load = reads.load /\ reads'.unread = reads.unread
        /\ reads'.ownRead = reads.ownRead /\ reads'.net = N /\ reads'.inbox = inbox
    BY <1>2, <2>1 DEF Reads!World
  <2>6. [cursors.own EXCEPT ![c] = n] \in [Chats -> Reads!Seqs]
    BY <1>1, <1>3 DEF Reads!Seqs
  <2>7. cursors' \in Cursors /\ cursors'.sent = cursors.sent
        /\ cursors'.own = [cursors.own EXCEPT ![c] = n] /\ cursors'.awaited = cursors.awaited
    BY <1>2, <1>12, <2>6 DEF Cursors
  <2>8. \A d \in Chats : cursors'.own[d] = IF d = c THEN n ELSE cursors.own[d]
    BY <1>3, <2>7
  <2>9. \A d \in Chats : cursors.own[d] <= cursors'.own[d] /\ cursors'.own[d] <= cursors.sent[d]
                         /\ cursors'.own[d] \in Nat
    BY <1>1, <1>4, <1>12, <2>8
  <2>10. InBounds(reads', cursors')
    <3>1. \A f \in inbox : /\ f.kind = "ownRead" => f.seq <= cursors'.own[f.chat]
                           /\ f.kind = "created" => f.seq <= cursors'.sent[f.chat]
      <4>. SUFFICES ASSUME NEW f \in inbox
                    PROVE /\ f.kind = "ownRead" => f.seq <= cursors'.own[f.chat]
                          /\ f.kind = "created" => f.seq <= cursors'.sent[f.chat]
        OBVIOUS
      <4>1. CASE f = e
        <5>1. cursors'.own[c] = n /\ n <= n
          BY <1>1, <2>8
        <5>. QED  BY <2>2, <4>1, <5>1
      <4>2. CASE f # e
        <5>1. f \in reads.inbox /\ f.chat \in Chats /\ f.seq \in Nat
          BY <1>7, <2>3, <4>2
        <5>2. /\ f.kind = "ownRead" => f.seq <= cursors.own[f.chat]
              /\ f.kind = "created" => f.seq <= cursors.sent[f.chat]
          BY <1>2, <5>1 DEF InBounds
        <5>3. f.kind = "ownRead" => f.seq <= cursors'.own[f.chat]
          BY <1>1, <1>4, <2>9, <5>1, <5>2
        <5>. QED  BY <2>7, <5>2, <5>3
      <4>. QED  BY <4>1, <4>2
    <3>2. \A d \in Chats : cursors'.own[d] <= cursors'.sent[d]
             /\ \A i \in cursors'.awaited[d] : 1 <= i /\ i <= cursors'.sent[d]
      BY <1>4, <2>7, <2>9
    <3>. QED  BY <1>2, <2>5, <2>7, <3>1, <3>2 DEF InBounds
  <2>11. Staged(reads') /\ Badged(reads', cursors')
    BY <1>2, <2>3, <2>5, <2>7 DEF Staged, Badged
  <2>12. ASSUME alone'  PROVE Lonely(reads', cursors')
    <3>1. Lonely(reads, cursors) /\ reads.state = "ready" /\ n <= reads.ownRead[c]
      BY <1>2, <1>12, <2>12
    <3>2. reads.ask.at = "none" /\ reads.established /\ reads.call = "none"
      <4>1. reads.ask.at # "none" => reads.state = "recovering"
        BY <1>2 DEF Staged
      <4>. QED  BY <1>2, <3>1, <4>1 DEF Staged, Lonely
    <3>3. \A d \in Chats : cursors'.own[d] <= reads.ownRead[d]
      BY <2>8, <3>1 DEF Lonely
    <3>4. \A d \in Chats : reads.unread[d] > 0 =>
            \/ cursors'.own[d] < cursors'.sent[d]
            \/ d \in reads.late \/ reads.lists["recovery"].at # "none"
            \/ \E f \in inbox : f.kind = "ownRead" /\ f.chat = d
      <4>. SUFFICES ASSUME NEW d \in Chats, reads.unread[d] > 0
                    PROVE \/ cursors'.own[d] < cursors'.sent[d]
                          \/ d \in reads.late \/ reads.lists["recovery"].at # "none"
                          \/ \E f \in inbox : f.kind = "ownRead" /\ f.chat = d
        OBVIOUS
      <4>1. CASE d = c
        BY <2>2, <2>3, <3>1, <4>1
      <4>2. CASE d # c
        BY <2>3, <2>7, <2>8, <3>1, <3>2, <4>2 DEF Lonely
      <4>. QED  BY <4>1, <4>2
    <3>. QED  BY <2>5, <3>1, <3>2, <3>3, <3>4 DEF Lonely
  <2>13. ~ Reads!Covers(reads') => MarkedRead(reads', cursors') /\ BadgeGoes(reads', cursors')
    <3>. SUFFICES ASSUME ~ Reads!Covers(reads')
                  PROVE  MarkedRead(reads', cursors') /\ BadgeGoes(reads', cursors')
      OBVIOUS
    <3>1. MarkedRead(reads, cursors) /\ BadgeGoes(reads, cursors)
      BY <1>2, <2>5 DEF Reads!Covers
    <3>2. BadgeGoes(reads', cursors')
      <4>. SUFFICES ASSUME reads.state = "ready", reads.selected # "none", reads.shown > 0,
                           reads.load.at = "none", reads.unread[reads.selected] > 0
                    PROVE  \/ reads.selected \in reads.late
                           \/ reads.shown < cursors.sent[reads.selected]
                           \/ \E r \in N : r[1] = reads.selected
                           \/ \E f \in inbox : f.kind = "ownRead" /\ f.chat = reads.selected
        BY <2>5, <2>7 DEF BadgeGoes
      <4>1. ASSUME NEW r \in reads.net, r[1] = reads.selected, r \notin N
            PROVE  e.kind = "ownRead" /\ e.chat = reads.selected /\ e \in inbox
        BY <1>12, <2>2, <2>3, <4>1
      <4>. QED  BY <2>3, <3>1, <4>1 DEF BadgeGoes
    <3>3. MarkedRead(reads', cursors')
      <4>. SUFFICES ASSUME reads.state = "ready", reads.selected # "none", reads.shown > 0
                    PROVE  \/ reads.shown <= cursors'.own[reads.selected]
                           \/ \E r \in N : r[1] = reads.selected /\ reads.shown <= r[2]
        BY <2>5 DEF MarkedRead
      <4>1. reads.selected \in Chats /\ reads.shown \in 0 .. MaxSeq
        BY <1>5 DEF Reads!Seqs
      <4>2. CASE reads.shown <= cursors.own[reads.selected]
        BY <1>1, <1>4, <2>9, <4>1, <4>2
      <4>3. ASSUME NEW r \in reads.net, r[1] = reads.selected, reads.shown <= r[2], r \notin N
            PROVE  reads.shown <= cursors'.own[reads.selected]
        <5>1. r[1] = c /\ r[2] <= n /\ r[2] \in Nat
          BY <1>1, <1>5, <1>12, <4>3
        <5>. QED  BY <1>1, <2>8, <4>1, <4>3, <5>1
      <4>. QED  BY <3>1, <4>2, <4>3 DEF MarkedRead
    <3>. QED  BY <3>2, <3>3
  <2>. QED  BY <1>2, <1>12, <2>4, <2>7, <2>10, <2>11, <2>12, <2>13, ReadsKept
<1>13. ASSUME NEW r \in reads.net, Reads!ServerReads(r)  PROVE ReadsInv'
  <2>. DEFINE n == Reads!Larger(cursors.own[r[1]], r[2])
  <2>1. r[1] \in Chats /\ r[2] \in 1 .. MaxSeq /\ r[2] <= cursors.sent[r[1]]
    BY <1>2, <1>5 DEF InBounds
  <2>2. n \in 1 .. MaxSeq /\ n <= cursors.sent[r[1]] /\ cursors.own[r[1]] <= n /\ r[2] <= n
        /\ n \in {cursors.own[r[1]], r[2]}
    BY <1>1, <1>4, <2>1 DEF Reads!Larger
  <2>3. cursors' = [cursors EXCEPT !.own = [cursors.own EXCEPT ![r[1]] = n]]
        /\ UNCHANGED <<alone, readMoves>>
    BY <1>2, <1>13 DEF Reads!ServerReads, Cursors
  <2>4. cursors'.own[r[1]] = n
    BY <1>2, <1>3, <2>1, <2>3 DEF Cursors
  <2>5. reads' = Reads!Advanced([reads EXCEPT !.net = reads.net \ {r}], r[1], n)
    BY <1>2, <1>13, <2>4 DEF Reads!ServerReads, Reads!World
  <2>. HIDE DEF n
  <2>6. reads.state = "ready"
    BY <1>2 DEF Staged
  <2>7. alone => n <= reads.ownRead[r[1]]
    BY <1>2, <2>1, <2>2 DEF Lonely
  <2>8. reads.net \ {r} \in SUBSET reads.net
        /\ \A q \in reads.net \ (reads.net \ {r}) : q[1] = r[1] /\ q[2] <= n
    BY <2>2
  <2>. QED  BY <1>2, <1>12, <2>1, <2>2, <2>3, <2>5, <2>6, <2>7, <2>8
<1>14. ASSUME NEW c \in Chats, Reads!OtherDeviceReads(c)  PROVE ReadsInv'
  <2>. DEFINE n == cursors.sent[c]
  <2>1. cursors.own[c] < n /\ n \in 1 .. MaxSeq /\ alone' = FALSE
    BY <1>1, <1>4, <1>14 DEF Reads!OtherDeviceReads
  <2>2. cursors' = [cursors EXCEPT !.own = [cursors.own EXCEPT ![c] = n]]
        /\ reads' = Reads!Advanced(reads, c, n)
    BY <1>2, <1>14 DEF Reads!OtherDeviceReads, Cursors
  <2>3. readMoves' \in 0 .. MaxEffort
    BY <1>1, <1>2, <1>14 DEF Reads!OtherDeviceReads, Reads!Spend
  <2>4. [reads EXCEPT !.net = reads.net] = reads
    BY <1>2 DEF Reads!World
  <2>. HIDE DEF n
  <2>5. n <= cursors.sent[c] /\ cursors.own[c] <= n
    BY <1>1, <1>4, <2>1 DEF n
  <2>. QED  BY <1>2, <1>12, <2>1, <2>2, <2>3, <2>4, <2>5
<1>15. \A c \in Chats : /\ Reads!Answer(c) \in Reads!PageState /\ Reads!Answer(c).at = "answered"
                        /\ Reads!Answer(c).last = cursors.sent[c]
                        /\ Reads!Answer(c).own = cursors.own[c]
  BY <1>3 DEF Reads!Answer, Reads!PageState
<1>16. CASE Reads!ServerLoads \/ Reads!ServerReconciles
  <2>. DEFINE c == reads.selected
  <2>1. c \in Chats
    BY <1>2, <1>5, <1>16 DEF InBounds, Reads!ServerLoads, Reads!ServerReconciles
  <2>2. PICK load \in Reads!PageState, ask \in Reads!PageState :
          /\ reads' = [reads EXCEPT !.load = load, !.ask = ask]
          /\ \/ load = Reads!Answer(c) /\ reads.load.at = "sent" /\ ask = reads.ask
             \/ ask = Reads!Answer(c) /\ reads.ask.at = "sent" /\ load = reads.load
    <3>1. reads.load \in Reads!PageState /\ reads.ask \in Reads!PageState
      BY <1>2 DEF Reads!World
    <3>2. CASE Reads!ServerLoads
      <4>1. reads' = [reads EXCEPT !.load = Reads!Answer(c), !.ask = reads.ask]
            /\ reads.load.at = "sent"
        BY <1>2, <3>2 DEF Reads!ServerLoads, Reads!World
      <4>. QED  BY <1>15, <2>1, <3>1, <4>1
    <3>3. CASE Reads!ServerReconciles
      <4>1. reads' = [reads EXCEPT !.load = reads.load, !.ask = Reads!Answer(c)]
            /\ reads.ask.at = "sent"
        BY <1>2, <3>3 DEF Reads!ServerReconciles, Reads!World
      <4>. QED  BY <1>15, <2>1, <3>1, <4>1
    <3>. QED  BY <1>16, <3>2, <3>3
  <2>3. UNCHANGED <<cursors, alone, readMoves>>
    BY <1>16 DEF Reads!ServerLoads, Reads!ServerReconciles
  <2>4. reads' \in Reads!World
    BY <1>2, <2>2 DEF Reads!World
  <2>5. /\ reads'.state = reads.state /\ reads'.established = reads.established
        /\ reads'.lists = reads.lists /\ reads'.late = reads.late /\ reads'.call = reads.call
        /\ reads'.minimized = reads.minimized /\ reads'.ask = ask
        /\ reads'.selected = reads.selected /\ reads'.shown = reads.shown
        /\ reads'.load = load /\ reads'.unread = reads.unread
        /\ reads'.ownRead = reads.ownRead /\ reads'.net = reads.net /\ reads'.inbox = reads.inbox
    BY <1>2, <2>2 DEF Reads!World
  <2>6. c # "none" /\ cursors.sent[c] <= cursors.sent[c] /\ cursors.own[c] = cursors.own[c]
    BY <1>1, <1>4, <2>1
  <2>7. InBounds(reads', cursors) /\ Staged(reads') /\ Badged(reads', cursors)
    <3>1. /\ load.at = "answered" => load.last <= cursors.sent[c]
          /\ ask.at = "answered" => ask.last <= cursors.sent[c]
          /\ ask.at # "none" => reads.state = "recovering"
      BY <1>2, <1>15, <2>1, <2>2, <2>6 DEF InBounds, Staged
    <3>2. InBounds(reads', cursors)
      BY <1>2, <2>5, <2>6, <3>1 DEF InBounds
    <3>. QED  BY <1>2, <2>5, <3>1, <3>2 DEF Staged, Badged
  <2>8. alone => Lonely(reads', cursors)
    <3>1. alone /\ ask.at = "answered" => ask.own = cursors.own[c]
      BY <1>2, <1>15, <2>1, <2>2 DEF Lonely
    <3>. QED  BY <1>2, <2>5, <3>1 DEF Lonely
  <2>9. ~ Reads!Covers(reads') => MarkedRead(reads', cursors) /\ BadgeGoes(reads', cursors)
    BY <1>2, <1>15, <2>1, <2>2, <2>5 DEF MarkedRead, BadgeGoes, Reads!Covers
  <2>. QED  BY <1>2, <2>3, <2>4, <2>7, <2>8, <2>9, ReadsKept
<1>17. ASSUME NEW k \in Reads!Lists, Reads!ServerLists(k)  PROVE ReadsInv'
  <2>. DEFINE found == [at |-> "answered", unread |-> [c \in Chats |-> Reads!Unread(c)]]
              L == [reads.lists EXCEPT ![k] = found]
  <2>1. reads' = [reads EXCEPT !.lists = L] /\ UNCHANGED <<cursors, alone, readMoves>>
        /\ reads.lists \in [Reads!Lists -> Reads!ListState]
    BY <1>2, <1>17 DEF Reads!ServerLists, Reads!World
  <2>2. found \in Reads!ListState /\ found.at # "none"
        /\ \A c \in Chats : found.unread[c] > 0 => cursors.sent[c] > 0
    BY <1>1, <1>4 DEF Reads!Unread, Reads!ListState
  <2>. HIDE DEF found
  <2>3. L \in [Reads!Lists -> Reads!ListState]
        /\ \A j \in Reads!Lists : L[j] = IF j = k THEN found ELSE reads.lists[j]
    BY <2>1, <2>2
  <2>. HIDE DEF L
  <2>4. reads' \in Reads!World
    BY <1>2, <2>1, <2>3 DEF Reads!World
  <2>5. /\ reads'.state = reads.state /\ reads'.established = reads.established
        /\ reads'.lists = L /\ reads'.late = reads.late /\ reads'.call = reads.call
        /\ reads'.minimized = reads.minimized /\ reads'.ask = reads.ask
        /\ reads'.selected = reads.selected /\ reads'.shown = reads.shown
        /\ reads'.load = reads.load /\ reads'.unread = reads.unread
        /\ reads'.ownRead = reads.ownRead /\ reads'.net = reads.net /\ reads'.inbox = reads.inbox
    BY <1>2, <2>1 DEF Reads!World
  <2>6. InBounds(reads', cursors) /\ Staged(reads')
    BY <1>2, <2>5 DEF InBounds, Staged
  <2>7. Badged(reads', cursors)
    BY <1>2, <2>2, <2>3, <2>5 DEF Badged
  <2>8. alone => Lonely(reads', cursors)
    <3>1. reads.lists["recovery"].at # "none" => L["recovery"].at # "none"
      BY <2>2, <2>3 DEF Reads!Lists
    <3>. QED  BY <1>2, <2>5, <3>1 DEF Lonely
  <2>9. ~ Reads!Covers(reads') => MarkedRead(reads', cursors) /\ BadgeGoes(reads', cursors)
    BY <1>2, <2>5 DEF MarkedRead, BadgeGoes, Reads!Covers
  <2>. QED  BY <1>2, <2>1, <2>4, <2>6, <2>7, <2>8, <2>9, ReadsKept
<1>. QED  BY <1>8, <1>10, <1>11, <1>13, <1>14, <1>16, <1>17

\* A message or a cursor comes.
LEMMA EventStep ==
    ASSUME HomeChatAssumption, ReadsInv, NEW e \in reads.inbox,
           Reads!MessageCame(e) \/ Reads!ReadCame(e)
    PROVE  ReadsInv'
<1>1. MaxSeq \in Nat /\ MaxEffort \in Nat /\ "none" \notin Chats
  BY DEF HomeChatAssumption, Reads!HomeReadsAssumption
<1>2. /\ reads \in Reads!World /\ cursors \in Cursors /\ alone \in BOOLEAN
      /\ readMoves \in 0 .. MaxEffort
      /\ InBounds(reads, cursors) /\ Staged(reads) /\ Badged(reads, cursors)
      /\ alone => Lonely(reads, cursors)
      /\ ~ Reads!Covers(reads) => MarkedRead(reads, cursors) /\ BadgeGoes(reads, cursors)
  BY DEF ReadsInv, Reads!TypeOK, Cursors
<1>3. /\ e.chat \in Chats /\ e.seq \in 1 .. MaxSeq
      /\ e.kind \in {"created", "ownRead", "peerRead"}
  BY <1>2 DEF Reads!World, Reads!Event
<1>4. /\ e.kind = "ownRead" => e.seq <= cursors.own[e.chat]
      /\ e.kind = "created" => e.seq <= cursors.sent[e.chat]
  BY <1>2 DEF InBounds
<1>5. \A c \in Chats : cursors.sent[c] \in Nat /\ cursors.own[c] \in Nat
  <2>1. cursors.sent \in [Chats -> Reads!Seqs] /\ cursors.own \in [Chats -> Reads!Seqs]
    BY <1>2 DEF Cursors
  <2>. QED  BY <1>1, <2>1 DEF Reads!Seqs
<1>6. /\ reads.shown \in Reads!Seqs /\ reads.selected \in Chats \cup {"none"}
      /\ reads.unread \in [Chats -> Nat] /\ reads.ownRead \in [Chats -> Reads!Seqs]
      /\ reads.peerRead \in [Chats -> Reads!Seqs] /\ reads.covered \in SUBSET Reads!Seqs
      /\ reads.inbox \ {e} \in SUBSET Reads!Event /\ reads.late \in SUBSET Chats
  BY <1>2 DEF Reads!World, Reads!ChatOrNone
<1>7. e.seq \in Reads!Seqs
  BY <1>1, <1>3 DEF Reads!Seqs
<1>. DEFINE h == [reads EXCEPT !.inbox = @ \ {e}]
<1>8. h \in Reads!World
  BY <1>2, <1>6 DEF Reads!World
<1>9. /\ h.state = reads.state /\ h.established = reads.established
      /\ h.lists = reads.lists /\ h.late = reads.late /\ h.call = reads.call
      /\ h.minimized = reads.minimized /\ h.ask = reads.ask
      /\ h.selected = reads.selected /\ h.shown = reads.shown
      /\ h.load = reads.load /\ h.unread = reads.unread /\ h.covered = reads.covered
      /\ h.ownRead = reads.ownRead /\ h.peerRead = reads.peerRead
      /\ h.net = reads.net /\ h.inbox = reads.inbox \ {e}
  BY <1>2 DEF Reads!World
<1>. HIDE DEF h
<1>10. UNCHANGED <<cursors, alone, readMoves>>
  BY DEF Reads!MessageCame, Reads!ReadCame
\* A message of a chat that is not selected.
<1>11. CASE Reads!MessageCame(e) /\ e.chat # reads.selected
  <2>. DEFINE n == reads.unread[e.chat] + (IF e.seq > reads.ownRead[e.chat] THEN 1 ELSE 0)
              counts == [reads.unread EXCEPT ![e.chat] = n]
  <2>1. reads' = [h EXCEPT !.unread = counts] /\ e.kind = "created"
    BY <1>8, <1>9, <1>11 DEF Reads!MessageCame, Reads!Backgrounded, Reads!World, h
  <2>2. /\ n \in Nat /\ reads.unread[e.chat] \in Nat /\ reads.ownRead[e.chat] \in Nat
        /\ n = reads.unread[e.chat] \/ e.seq > reads.ownRead[e.chat]
    BY <1>1, <1>3, <1>6 DEF Reads!Seqs
  <2>. HIDE DEF n
  <2>3. counts \in [Chats -> Nat]
        /\ \A c \in Chats : counts[c] = IF c = e.chat THEN n ELSE reads.unread[c]
    BY <1>3, <1>6, <2>2
  <2>. HIDE DEF counts
  <2>4. reads' \in Reads!World
    BY <1>8, <2>1, <2>3 DEF Reads!World
  <2>5. /\ reads'.state = reads.state /\ reads'.established = reads.established
        /\ reads'.lists = reads.lists /\ reads'.late = reads.late /\ reads'.call = reads.call
        /\ reads'.minimized = reads.minimized /\ reads'.ask = reads.ask
        /\ reads'.selected = reads.selected /\ reads'.shown = reads.shown
        /\ reads'.load = reads.load /\ reads'.unread = counts
        /\ reads'.ownRead = reads.ownRead
        /\ reads'.net = reads.net /\ reads'.inbox = reads.inbox \ {e}
    BY <1>8, <1>9, <2>1 DEF Reads!World
  <2>6. InBounds(reads', cursors) /\ Staged(reads')
    BY <1>2, <2>5 DEF InBounds, Staged
  <2>7. Badged(reads', cursors)
    <3>1. cursors.sent[e.chat] > 0
      BY <1>1, <1>3, <1>4, <1>5, <2>1
    <3>. QED  BY <1>2, <2>3, <2>5, <3>1 DEF Badged
  <2>8. ASSUME alone  PROVE Lonely(reads', cursors)
    <3>1. Lonely(reads, cursors)
      BY <1>2, <2>8
    <3>2. ASSUME NEW c \in Chats, counts[c] > 0
          PROVE  \/ cursors.own[c] < cursors.sent[c] \/ reads.state = "offline"
                 \/ c \in reads.late \/ reads.lists["recovery"].at # "none"
                 \/ \E f \in reads.inbox \ {e} : f.kind = "ownRead" /\ f.chat = c
      <4>1. CASE counts[c] = reads.unread[c]
        BY <2>1, <3>1, <3>2, <4>1 DEF Lonely
      <4>2. CASE counts[c] # reads.unread[c]
        <5>1. c = e.chat /\ e.seq > reads.ownRead[c]
          BY <2>2, <2>3, <4>2
        <5>2. cursors.own[c] <= reads.ownRead[c]
          BY <3>1 DEF Lonely
        <5>. QED  BY <1>1, <1>3, <1>4, <1>5, <2>1, <2>2, <5>1, <5>2
      <4>. QED  BY <4>1, <4>2
    <3>. QED  BY <2>5, <3>1, <3>2 DEF Lonely
  <2>9. ~ Reads!Covers(reads') => MarkedRead(reads', cursors) /\ BadgeGoes(reads', cursors)
    BY <1>2, <1>6, <1>11, <2>3, <2>5 DEF MarkedRead, BadgeGoes, Reads!Covers
  <2>. QED  BY <1>2, <1>10, <2>4, <2>6, <2>7, <2>8, <2>9, ReadsKept
\* A message of the chat that is selected.
<1>12. CASE Reads!MessageCame(e) /\ e.chat = reads.selected
  <2>. DEFINE last == Reads!Larger(reads.shown, e.seq)
              g == [h EXCEPT !.shown = last]
  <2>1. /\ reads' = IF Reads!Covers(h) /\ h.call = e.chat
                      THEN [g EXCEPT !.unread[e.chat] = @ + 1, !.covered = @ \cup {e.seq}]
                      ELSE Reads!Marked(g)
        /\ e.kind = "created"
    BY <1>8, <1>9, <1>12 DEF Reads!MessageCame, Reads!Arrived, Reads!World, h
  <2>2. last \in Reads!Seqs /\ last \in {reads.shown, e.seq} /\ last # 0 /\ e.seq <= last
    BY <1>1, <1>3, <1>6 DEF Reads!Larger, Reads!Seqs
  <2>. HIDE DEF last
  <2>3. g \in Reads!World
    BY <1>8, <2>2 DEF Reads!World
  <2>4. /\ g.state = reads.state /\ g.established = reads.established
        /\ g.lists = reads.lists /\ g.late = reads.late /\ g.call = reads.call
        /\ g.minimized = reads.minimized /\ g.ask = reads.ask
        /\ g.selected = reads.selected /\ g.shown = last
        /\ g.load = reads.load /\ g.unread = reads.unread /\ g.covered = reads.covered
        /\ g.ownRead = reads.ownRead
        /\ g.net = reads.net /\ g.inbox = reads.inbox \ {e}
    BY <1>8, <1>9 DEF Reads!World
  <2>. HIDE DEF g
  <2>5. InBounds(g, cursors) /\ Staged(g) /\ Badged(g, cursors)
    <3>1. last <= cursors.sent[e.chat] /\ e.chat # "none"
      BY <1>1, <1>2, <1>3, <1>4, <1>12, <2>1, <2>2 DEF InBounds
    <3>2. InBounds(g, cursors)
      BY <1>2, <1>12, <2>4, <3>1 DEF InBounds
    <3>. QED  BY <1>2, <2>2, <2>4, <3>2 DEF Staged, Badged
  <2>6. alone => Lonely(g, cursors)
    BY <1>2, <2>1, <2>4 DEF Lonely
  <2>7. CASE Reads!Covers(h) /\ h.call = e.chat
    <3>. DEFINE counts == [reads.unread EXCEPT ![e.chat] = @ + 1]
                covered == reads.covered \cup {e.seq}
    <3>1. reads' = [g EXCEPT !.unread = counts, !.covered = covered]
      BY <2>1, <2>3, <2>4, <2>7 DEF Reads!World
    <3>2. counts \in [Chats -> Nat] /\ covered \in SUBSET Reads!Seqs
          /\ \A c \in Chats : c # e.chat => counts[c] = reads.unread[c]
      BY <1>3, <1>6, <1>7
    <3>. HIDE DEF counts, covered
    <3>3. reads' \in Reads!World
      BY <2>3, <3>1, <3>2 DEF Reads!World
    <3>4. /\ reads'.state = g.state /\ reads'.established = g.established
          /\ reads'.lists = g.lists /\ reads'.late = g.late /\ reads'.call = g.call
          /\ reads'.minimized = g.minimized /\ reads'.ask = g.ask
          /\ reads'.selected = g.selected /\ reads'.shown = g.shown
          /\ reads'.load = g.load /\ reads'.unread = counts
          /\ reads'.ownRead = g.ownRead
          /\ reads'.net = g.net /\ reads'.inbox = g.inbox
      BY <2>3, <3>1 DEF Reads!World
    <3>5. Reads!Covers(reads') /\ ~ alone
      BY <1>2, <1>9, <2>4, <2>7, <3>4 DEF Reads!Covers, Lonely
    <3>6. cursors.sent[e.chat] > 0
      BY <1>1, <1>3, <1>4, <1>5, <2>1
    <3>7. InBounds(reads', cursors) /\ Staged(reads') /\ Badged(reads', cursors)
      BY <2>4, <2>5, <3>2, <3>4, <3>6 DEF InBounds, Staged, Badged
    <3>. QED  BY <1>2, <1>10, <3>3, <3>5, <3>7, ReadsKept
  <2>8. CASE ~ (Reads!Covers(h) /\ h.call = e.chat)
    <3>1. reads' = Reads!Marked(g)
      BY <2>1, <2>8
    <3>2. /\ reads' \in Reads!World /\ InBounds(reads', cursors) /\ Staged(reads')
          /\ Badged(reads', cursors) /\ MarkedRead(reads', cursors) /\ BadgeGoes(reads', cursors)
          /\ (Lonely(g, cursors) => Lonely(reads', cursors))
      BY <1>2, <2>3, <2>5, <3>1, MarkedFacts
    <3>. QED  BY <1>2, <1>10, <2>6, <3>2, ReadsKept
  <2>. QED  BY <2>7, <2>8
\* A cursor.
<1>13. CASE Reads!ReadCame(e)
  <2>. DEFINE n == Reads!Larger(reads.ownRead[e.chat], e.seq)
  <2>1. reads.ownRead[e.chat] \in Reads!Seqs /\ reads.peerRead[e.chat] \in Reads!Seqs
    BY <1>3, <1>6
  <2>2. n \in Reads!Seqs /\ reads.ownRead[e.chat] <= n
        /\ Reads!Larger(reads.peerRead[e.chat], e.seq) \in Reads!Seqs
    BY <1>1, <1>7, <2>1 DEF Reads!Larger, Reads!Seqs
  <2>3. PICK own \in [Chats -> Reads!Seqs], peer \in [Chats -> Reads!Seqs],
             counts \in [Chats -> Nat], late \in SUBSET Chats :
          /\ reads' = [h EXCEPT !.ownRead = own, !.peerRead = peer, !.unread = counts,
                                !.late = late]
          /\ \A c \in Chats : reads.ownRead[c] <= own[c]
          /\ \A c \in Chats : counts[c] > 0 => counts[c] = reads.unread[c]
                                /\ (e.kind = "ownRead" => c # e.chat)
                                /\ (c \in reads.late => c \in late)
    <3>1. \A c \in Chats : reads.ownRead[c] \in Nat
      BY <1>1, <1>6 DEF Reads!Seqs
    <3>2. CASE e.kind = "ownRead"
      <4>. DEFINE own == [reads.ownRead EXCEPT ![e.chat] = n]
                  counts == [reads.unread EXCEPT ![e.chat] = 0]
                  late == reads.late \ {e.chat}
      <4>1. reads' = [h EXCEPT !.ownRead = own, !.peerRead = reads.peerRead, !.unread = counts,
                               !.late = late]
        BY <1>8, <1>9, <1>13, <3>2 DEF Reads!ReadCame, Reads!Cleared, Reads!World, h
      <4>2. own \in [Chats -> Reads!Seqs] /\ counts \in [Chats -> Nat]
            /\ (\A c \in Chats : own[c] = IF c = e.chat THEN n ELSE reads.ownRead[c])
            /\ \A c \in Chats : counts[c] = IF c = e.chat THEN 0 ELSE reads.unread[c]
        BY <1>3, <1>6, <2>2
      <4>3. \A c \in Chats : reads.ownRead[c] <= own[c]
        BY <2>2, <3>1, <4>2
      <4>4. late \in SUBSET Chats /\ \A c \in Chats : counts[c] > 0 =>
               counts[c] = reads.unread[c] /\ c # e.chat /\ (c \in reads.late => c \in late)
        BY <1>6, <4>2
      <4>. HIDE DEF own, counts, late
      <4>5. own \in [Chats -> Reads!Seqs] /\ counts \in [Chats -> Nat] /\ late \in SUBSET Chats
        BY <4>2, <4>4
      <4>6. \A c \in Chats : counts[c] > 0 => counts[c] = reads.unread[c]
                                 /\ (e.kind = "ownRead" => c # e.chat)
                                 /\ (c \in reads.late => c \in late)
        BY <4>4
      <4>. reads.peerRead \in [Chats -> Reads!Seqs] /\ own \in [Chats -> Reads!Seqs]
           /\ counts \in [Chats -> Nat] /\ late \in SUBSET Chats
        BY <1>6, <4>5
      <4>. WITNESS own \in [Chats -> Reads!Seqs], reads.peerRead \in [Chats -> Reads!Seqs],
                   counts \in [Chats -> Nat], late \in SUBSET Chats
      <4>. QED  BY <4>1, <4>3, <4>6
    <3>3. CASE e.kind # "ownRead"
      <4>. DEFINE peer == [reads.peerRead EXCEPT ![e.chat] = Reads!Larger(@, e.seq)]
      <4>1. reads' = [h EXCEPT !.ownRead = reads.ownRead, !.peerRead = peer,
                               !.unread = reads.unread, !.late = reads.late]
        BY <1>8, <1>9, <1>13, <3>3 DEF Reads!ReadCame, Reads!World, h
      <4>2. peer \in [Chats -> Reads!Seqs]
        BY <1>3, <1>6, <2>2
      <4>. HIDE DEF peer
      <4>3. \A c \in Chats : reads.ownRead[c] <= reads.ownRead[c]
        BY <3>1
      <4>4. \A c \in Chats : reads.unread[c] > 0 => reads.unread[c] = reads.unread[c]
                                 /\ (e.kind = "ownRead" => c # e.chat)
        BY <3>3
      <4>. QED  BY <1>6, <4>1, <4>2, <4>3, <4>4
    <3>. QED  BY <3>2, <3>3
  <2>4. reads' \in Reads!World
    BY <1>8, <2>3 DEF Reads!World
  <2>5. /\ reads'.state = reads.state /\ reads'.established = reads.established
        /\ reads'.lists = reads.lists /\ reads'.late = late /\ reads'.call = reads.call
        /\ reads'.minimized = reads.minimized /\ reads'.ask = reads.ask
        /\ reads'.selected = reads.selected /\ reads'.shown = reads.shown
        /\ reads'.load = reads.load /\ reads'.unread = counts
        /\ reads'.ownRead = own
        /\ reads'.net = reads.net /\ reads'.inbox = reads.inbox \ {e}
    BY <1>8, <1>9, <2>3 DEF Reads!World
  <2>6. InBounds(reads', cursors) /\ Staged(reads') /\ Badged(reads', cursors)
    BY <1>2, <2>3, <2>5 DEF InBounds, Staged, Badged
  <2>7. \A c \in Chats : counts[c] \in Nat /\ (reads.unread[c] = 0 => counts[c] = 0)
    BY <2>3
  <2>8. BadgeGoes(reads, cursors) => BadgeGoes(reads', cursors)
    BY <1>2, <1>6, <2>3, <2>5, <2>7 DEF BadgeGoes
  <2>9. ASSUME alone  PROVE Lonely(reads', cursors)
    <3>1. Lonely(reads, cursors)
      BY <1>2, <2>9
    <3>2. \A c \in Chats : cursors.own[c] <= own[c]
      <4>. SUFFICES ASSUME NEW c \in Chats  PROVE cursors.own[c] <= own[c]  OBVIOUS
      <4>1. cursors.own[c] <= reads.ownRead[c] /\ reads.ownRead[c] <= own[c]
        BY <2>3, <3>1 DEF Lonely
      <4>2. cursors.own[c] \in Nat /\ reads.ownRead[c] \in Nat /\ own[c] \in Nat
        BY <1>1, <1>5, <1>6 DEF Reads!Seqs
      <4>. QED  BY <4>1, <4>2
    <3>3. \A r \in reads.net : r[2] <= own[r[1]]
      <4>. SUFFICES ASSUME NEW r \in reads.net  PROVE r[2] <= own[r[1]]  OBVIOUS
      <4>1. r[1] \in Chats /\ r[2] \in Nat
        BY <1>1, <1>2 DEF Reads!World
      <4>2. r[2] <= reads.ownRead[r[1]] /\ reads.ownRead[r[1]] <= own[r[1]]
        BY <2>3, <3>1, <4>1 DEF Lonely
      <4>3. reads.ownRead[r[1]] \in Nat /\ own[r[1]] \in Nat
        BY <1>1, <1>6, <4>1 DEF Reads!Seqs
      <4>. QED  BY <4>1, <4>2, <4>3
    <3>4. ASSUME NEW c \in Chats, counts[c] > 0
          PROVE  \/ cursors.own[c] < cursors.sent[c] \/ reads.state = "offline"
                 \/ c \in late \/ reads.lists["recovery"].at # "none"
                 \/ \E f \in reads.inbox \ {e} : f.kind = "ownRead" /\ f.chat = c
      BY <2>3, <3>1, <3>4 DEF Lonely
    <3>. QED  BY <2>5, <3>1, <3>2, <3>3, <3>4 DEF Lonely
  <2>10. ~ Reads!Covers(reads') => MarkedRead(reads', cursors) /\ BadgeGoes(reads', cursors)
    BY <1>2, <2>5, <2>8 DEF MarkedRead, Reads!Covers
  <2>. QED  BY <1>2, <1>10, <2>4, <2>6, <2>9, <2>10, ReadsKept
<1>. QED  BY <1>11, <1>12, <1>13

LEMMA ReadsStep ==
    ASSUME HomeChatAssumption, ReadsInv, [Reads!Next]_readVars  PROVE ReadsInv'
<1>1. CASE UNCHANGED readVars
  <2>1. UNCHANGED <<reads, cursors, alone, readMoves>>
    BY <1>1 DEF readVars
  <2>. QED  BY <2>1 DEF ReadsInv, Reads!TypeOK, InBounds, Staged, Badged, Lonely,
                        MarkedRead, BadgeGoes, Reads!Covers
<1>2. CASE Reads!Next
  BY <1>2, SurfaceStep, RecoveryStep, ServicesStep, EventStep DEF Reads!Next
<1>. QED  BY <1>1, <1>2

\* Once nothing is on its way, a badge of a user with one device and no call has a message
\* that was not read, unless it is one of a late list, and a chat that is seen is read at
\* the server and, shown as a whole, has no other badge, whatever was lost with the
\* connection (home.component.ts:1139, :2020).
THEOREM ReadsStayTrue == HomeChatAssumption => (Spec => []ReadsAgree)
<1>. SUFFICES ASSUME HomeChatAssumption  PROVE Spec => []ReadsAgree  OBVIOUS
<1>1. Init => ReadsInv
  BY ReadsStart DEF Init
<1>2. ReadsInv /\ [Next]_homeVars => ReadsInv'
  <2>1. [Next]_homeVars => [Reads!Next]_readVars
    BY DEF Next, homeVars
  <2>. QED  BY <2>1, ReadsStep
<1>3. ReadsInv => ReadsAgree
  <2>. SUFFICES ASSUME ReadsInv  PROVE ReadsAgree  OBVIOUS
  <2>1. Reads!Quiet => reads.state = "ready" /\ reads.net = {} /\ reads.inbox = {}
                         /\ reads.load.at = "none" /\ reads.lists["recovery"].at = "none"
    BY DEF Reads!Quiet, Reads!Lists
  <2>2. MaxSeq \in Nat
    BY DEF HomeChatAssumption, Reads!HomeReadsAssumption
  <2>3. \A c \in Chats : cursors.sent[c] \in Nat /\ cursors.own[c] \in Nat
    <3>1. cursors.sent \in [Chats -> Reads!Seqs] /\ cursors.own \in [Chats -> Reads!Seqs]
      BY DEF ReadsInv, Reads!TypeOK
    <3>. QED  BY <2>2, <3>1 DEF Reads!Seqs
  <2>4. ASSUME alone, Reads!Quiet, NEW c \in Chats \ reads.late, reads.unread[c] > 0
        PROVE  Reads!Unread(c) > 0
    <3>1. Lonely(reads, cursors) /\ Staged(reads)
      BY <2>4 DEF ReadsInv
    <3>2. cursors.own[c] < cursors.sent[c]
      BY <2>1, <2>4, <3>1 DEF Lonely, Staged
    <3>. QED  BY <2>3, <3>2 DEF Reads!Unread
  <2>5. ASSUME Reads!Quiet, reads.selected # "none", ~ Reads!Covers(reads), reads.shown > 0
        PROVE  /\ cursors.own[reads.selected] >= reads.shown
               /\ reads.shown = cursors.sent[reads.selected] /\ reads.selected \notin reads.late =>
                     reads.unread[reads.selected] = 0
    <3>1. MarkedRead(reads, cursors) /\ BadgeGoes(reads, cursors)
      BY <2>5 DEF ReadsInv
    <3>2. reads.selected \in Chats /\ reads.unread[reads.selected] \in Nat /\ reads.shown \in Nat
      <4>1. reads \in Reads!World
        BY DEF ReadsInv, Reads!TypeOK
      <4>. QED  BY <2>2, <2>5, <4>1 DEF Reads!World, Reads!ChatOrNone, Reads!Seqs
    <3>3. reads.shown <= cursors.own[reads.selected]
      BY <2>1, <2>5, <3>1 DEF MarkedRead
    <3>4. ASSUME reads.shown = cursors.sent[reads.selected], reads.selected \notin reads.late
          PROVE  reads.unread[reads.selected] = 0
      <4>1. ~ (reads.shown < cursors.sent[reads.selected])
        BY <3>2, <3>4
      <4>. QED  BY <2>1, <2>5, <3>1, <3>2, <3>4, <4>1 DEF BadgeGoes
    <3>. QED  BY <2>3, <3>2, <3>3, <3>4
  <2>. QED  BY <2>4, <2>5 DEF ReadsAgree, Reads!BadgeHasCause, Reads!SelectedIsRead
<1>. QED  BY <1>1, <1>2, <1>3, PTL DEF Spec

-----------------------------------------------------------------------------
(* Groups: what is shown of them.                                          *)

\* The lookups under way, and the facade with Home.
Lookups == {S \in SUBSET Groups!Lookup : IsFiniteSet(S)}
Facade ==
    [revision : Nat, removed : Nat, quarantined : BOOLEAN, failed : BOOLEAN,
     context : Groups!Context, requested : Nat, inFlight : BOOLEAN, current : Nat,
     lookups : Lookups, fence : Nat, reconcile : BOOLEAN,
     departure : [set : BOOLEAN, revision : Nat, context : Groups!Context, observed : BOOLEAN],
     list : [set : BOOLEAN, fresh : BOOLEAN, since : Nat],
     page : [set : BOOLEAN, fresh : BOOLEAN, since : Nat],
     listed : Groups!Shown, chat : Groups!Shown,
     cleared : BOOLEAN, stale : BOOLEAN, loading : BOOLEAN]

\* Who thinks that a lookup is under way is right.
Waits(w) == w.inFlight => w.lookups # {}

\* Nothing shown is newer than the newest revision that was seen, nor is the open chat
\* newer than the list.
Ordered(w) ==
    /\ w.listed.rev <= w.revision /\ w.chat.rev <= w.revision
    /\ w.listed.kind = "real" /\ w.chat.kind = "real" => w.chat.rev <= w.listed.rev

\* A departure is only begun, and Home only becomes busy, by the user.
Ends(w, v) ==
    /\ v.departure.set => w.departure.set
    /\ v.loading => w.loading /\ (w.departure.set => v.departure.set)

\* From w to v no projection appears.
Faded(e, v) == e.kind # "real" /\ e.rev <= v.revision
Dims(w, v) ==
    /\ v \in Facade
    /\ w.revision <= v.revision
    /\ v.listed = w.listed \/ Faded(v.listed, v)
    /\ v.chat = w.chat \/ Faded(v.chat, v)
    /\ Waits(w) => Waits(v)
Fades(w, v) == Dims(w, v) /\ Ends(w, v)

\* From w to v no projection appears but that of revision r, in a group that is not
\* quarantined.
Shows(w, v, r) ==
    /\ v \in Facade
    /\ w.revision <= r /\ r <= v.revision
    /\ v.listed = Groups!Real(r) \/ Faded(v.listed, v)
    /\ v.chat = Groups!Real(r) \/ Faded(v.chat, v)
    /\ ~ v.quarantined
    /\ Ends(w, v) /\ (Waits(w) => Waits(v))

\* A revision that was not seen to be over.
Newest(w, r) == w.revision <= r /\ (w.removed = 0 \/ w.removed < r)

LEMMA FadesOn ==
    ASSUME NEW u \in Facade, NEW v, NEW w, Fades(u, v), Fades(v, w)
    PROVE  Fades(u, w)
<1>. u.revision \in Nat /\ v.revision \in Nat /\ w.revision \in Nat
     /\ v.listed.rev \in Nat /\ w.listed.rev \in Nat /\ v.chat.rev \in Nat /\ w.chat.rev \in Nat
  BY DEF Fades, Dims, Ends, Faded, Facade, Groups!Shown
<1>. QED  BY DEF Fades, Dims, Ends, Faded

LEMMA ShowsOn ==
    ASSUME NEW u \in Facade, NEW v, NEW w, NEW r \in Nat, Fades(u, v), Shows(v, w, r)
    PROVE  Shows(u, w, r)
<1>. u.revision \in Nat /\ v.revision \in Nat
  BY DEF Fades, Dims, Ends, Facade
<1>. QED  BY DEF Fades, Dims, Ends, Shows

LEMMA StillFades == ASSUME NEW w \in Facade  PROVE Fades(w, w)
<1>. w.revision \in Nat  BY DEF Facade
<1>. QED  BY DEF Fades, Dims, Ends

\* Sets of lookups.
LEMMA LookupsKept ==
    ASSUME NEW S \in Lookups
    PROVE  /\ {[l EXCEPT !.superseded = TRUE] : l \in S} \in Lookups
           /\ {[l EXCEPT !.early = TRUE] : l \in S} \in Lookups
           /\ \A T \in SUBSET S : T \in Lookups
           /\ \A l \in Groups!Lookup : S \cup {l} \in Lookups
<1>. USE DEF Lookups
<1>1. ASSUME NEW f, f \in [S -> Groups!Lookup]
      PROVE  {f[l] : l \in S} \in Lookups
  <2>1. f \in Surjection(S, {f[l] : l \in S})
    BY <1>1 DEF Surjection
  <2>. QED  BY <1>1, <2>1, FS_Surjection
<1>2. {[l EXCEPT !.superseded = TRUE] : l \in S} \in Lookups
  <2>. DEFINE f == [l \in S |-> [l EXCEPT !.superseded = TRUE]]
  <2>1. f \in [S -> Groups!Lookup]
    BY DEF Groups!Lookup
  <2>2. {f[l] : l \in S} \in Lookups
    BY <1>1, <2>1
  <2>. QED  BY <2>2
<1>3. {[l EXCEPT !.early = TRUE] : l \in S} \in Lookups
  <2>. DEFINE f == [l \in S |-> [l EXCEPT !.early = TRUE]]
  <2>1. f \in [S -> Groups!Lookup]
    BY DEF Groups!Lookup
  <2>2. {f[l] : l \in S} \in Lookups
    BY <1>1, <2>1
  <2>. QED  BY <2>2
<1>4. ASSUME NEW T \in SUBSET S  PROVE T \in Lookups
  BY FS_Subset
<1>5. ASSUME NEW l \in Groups!Lookup  PROVE S \cup {l} \in Lookups
  BY FS_AddElement
<1>. QED  BY <1>2, <1>3, <1>4, <1>5

\* What the server is asked at.
Past == \E n \in Nat \ {0} : member \in [1 .. n -> BOOLEAN]
LEMMA LatestIs ==
    ASSUME NEW n \in Nat, NEW m, m \in [1 .. n -> BOOLEAN]
    PROVE  Groups!Cardinality(DOMAIN m) = n
<1>1. Cardinality(1 .. n) = n
  BY FS_Interval
<1>. QED  BY <1>1 DEF Cardinality, Groups!Cardinality, IsFiniteSet, Groups!IsFiniteSet

LEMMA LatestType == ASSUME Past  PROVE Groups!Latest \in Nat \ {0}
<1>1. PICK n \in Nat \ {0} : member \in [1 .. n -> BOOLEAN]
  BY DEF Past
<1>. QED  BY <1>1, LatestIs DEF Groups!Latest, Groups!Revision

-----------------------------------------------------------------------------
(* What the calls of the facade and of Home do.                            *)

LEMMA ProjectedFades ==
    ASSUME NEW w \in Facade
    PROVE  LET v == Groups!Projected(w)
           IN  /\ Fades(w, v) /\ v.quarantined = w.quarantined /\ v.removed = w.removed
               /\ v.revision = w.revision /\ v.listed = w.listed /\ v.chat = w.chat
               /\ v.list.set = w.list.set
<1>. DEFINE v == Groups!Projected(w)
<1>1. v \in Facade
  BY DEF Facade, Groups!Projected
<1>2. /\ v.revision = w.revision /\ v.listed = w.listed /\ v.chat = w.chat
      /\ v.loading = w.loading /\ v.departure = w.departure
      /\ v.inFlight = w.inFlight /\ v.lookups = w.lookups /\ w.revision \in Nat
      /\ v.quarantined = w.quarantined /\ v.removed = w.removed /\ v.list.set = w.list.set
  BY DEF Facade, Groups!Projected
<1>. QED  BY <1>1, <1>2 DEF Fades, Dims, Ends, Waits

LEMMA RefreshingFades ==
    ASSUME Past, NEW w \in Facade
    PROVE  LET v == Groups!Refreshing(w)
           IN  Fades(w, v) /\ v.revision = w.revision
<1>. DEFINE v == Groups!Refreshing(w)
<1>1. Groups!Latest \in Nat
  BY LatestType
<1>2. v \in Facade
  BY <1>1 DEF Facade, Groups!Refreshing, Groups!Asked, Groups!NoList
<1>3. /\ v.revision = w.revision /\ v.listed = w.listed /\ v.chat = w.chat
      /\ v.loading = w.loading /\ v.departure = w.departure
      /\ v.inFlight = w.inFlight /\ v.lookups = w.lookups /\ w.revision \in Nat
  BY DEF Facade, Groups!Refreshing
<1>. QED  BY <1>2, <1>3 DEF Fades, Dims, Ends, Waits

LEMMA SupersededFades ==
    ASSUME NEW w \in Facade
    PROVE  LET v == Groups!Superseded(w)
           IN  /\ Fades(w, v) /\ v.quarantined = w.quarantined /\ v.removed = w.removed
               /\ v.revision = w.revision /\ v.listed = w.listed /\ v.chat = w.chat
               /\ v.list = w.list
<1>. DEFINE S == {[l EXCEPT !.superseded = TRUE] : l \in w.lookups}
            v == [w EXCEPT !.lookups = S]
<1>1. w.lookups \in Lookups
  BY DEF Facade
<1>2. S \in Lookups /\ (w.lookups # {} => S # {})
  BY <1>1, LookupsKept
<1>3. Groups!Superseded(w) = v
  BY DEF Groups!Superseded
<1>. HIDE DEF S
<1>4. v \in Facade
  BY <1>2 DEF Facade
<1>5. /\ v.revision = w.revision /\ v.listed = w.listed /\ v.chat = w.chat
      /\ v.loading = w.loading /\ v.departure = w.departure
      /\ v.inFlight = w.inFlight /\ v.lookups = S /\ w.revision \in Nat
      /\ v.quarantined = w.quarantined /\ v.removed = w.removed /\ v.list = w.list
  BY DEF Facade
<1>. QED  BY <1>2, <1>3, <1>4, <1>5 DEF Fades, Dims, Ends, Waits

LEMMA UnsubscribedFades ==
    ASSUME NEW w \in Facade
    PROVE  LET v == Groups!Unsubscribed(w)
           IN  /\ Fades(w, v) /\ v.quarantined = w.quarantined /\ v.removed = w.removed
               /\ v.revision = w.revision /\ v.listed = w.listed /\ v.chat = w.chat
               /\ v.list = w.list
<1>. DEFINE S == {l \in w.lookups : l.id # w.current}
            v == [w EXCEPT !.lookups = S, !.current = 0, !.inFlight = FALSE]
<1>1. w.lookups \in Lookups
  BY DEF Facade
<1>2. S \in Lookups
  BY <1>1, LookupsKept
<1>3. Groups!Unsubscribed(w) = v
  BY DEF Groups!Unsubscribed
<1>. HIDE DEF S
<1>4. v \in Facade
  BY <1>2 DEF Facade
<1>5. /\ v.revision = w.revision /\ v.listed = w.listed /\ v.chat = w.chat
      /\ v.loading = w.loading /\ v.departure = w.departure
      /\ v.inFlight = FALSE /\ w.revision \in Nat
      /\ v.quarantined = w.quarantined /\ v.removed = w.removed /\ v.list = w.list
  BY DEF Facade
<1>. QED  BY <1>3, <1>4, <1>5 DEF Fades, Dims, Ends, Waits

\* A lookup is begun.
LEMMA FetchingFades ==
    ASSUME Past, NEW w \in Facade
    PROVE  LET v == Groups!Fetching(w)
           IN  /\ Fades(w, v) /\ v.quarantined = w.quarantined /\ v.revision = w.revision
               /\ v.listed = w.listed /\ v.chat = w.chat
<1>1. w.lookups \in Lookups /\ IsFiniteSet(w.lookups)
  BY DEF Facade, Lookups
<1>. DEFINE n == CHOOSE i \in 1 .. Groups!Cardinality(w.lookups) + 1 :
                   \A l \in w.lookups : l.id # i
            S == w.lookups \cup {[id |-> n, superseded |-> FALSE, early |-> FALSE,
                                  target |-> w.requested, since |-> Groups!Latest]}
            v == [w EXCEPT !.lookups = S, !.current = n, !.inFlight = TRUE]
<1>2. Groups!Cardinality(w.lookups) \in Nat
      /\ \E i \in 1 .. Groups!Cardinality(w.lookups) + 1 : \A l \in w.lookups : l.id # i
  <2>. DEFINE T == {l.id : l \in w.lookups}
              f == [l \in w.lookups |-> l.id]
              N == Cardinality(w.lookups)
  <2>1. Groups!Cardinality(w.lookups) = N
    BY DEF Cardinality, Groups!Cardinality, IsFiniteSet, Groups!IsFiniteSet
  <2>2. f \in Surjection(w.lookups, T)
    BY DEF Surjection
  <2>3. IsFiniteSet(T) /\ Cardinality(T) <= N
    BY <1>1, <2>2, FS_Surjection
  <2>4. N \in Nat /\ Cardinality(T) \in Nat
    BY <1>1, <2>3, FS_CardinalityType
  <2>5. Cardinality(1 .. N + 1) = N + 1
    BY <2>4, FS_Interval
  <2>6. ~ (1 .. N + 1 \subseteq T)
    <3>. HIDE DEF T, N
    <3>. QED  BY <2>3, <2>4, <2>5, FS_Subset
  <2>. HIDE DEF N
  <2>. QED  BY <2>1, <2>4, <2>6
<1>3. n \in Nat
  <2>1. n \in 1 .. Groups!Cardinality(w.lookups) + 1
    BY <1>2
  <2>. QED  BY <1>2, <2>1
<1>4. Groups!Fetching(w) = v
  BY DEF Groups!Fetching
<1>. HIDE DEF n
<1>5. S \in Lookups /\ S # {}
  <2>1. [id |-> n, superseded |-> FALSE, early |-> FALSE, target |-> w.requested,
         since |-> Groups!Latest] \in Groups!Lookup
    BY <1>3, LatestType DEF Facade, Groups!Lookup
  <2>. QED  BY <1>1, <2>1, LookupsKept
<1>. HIDE DEF S
<1>6. v \in Facade
  BY <1>3, <1>5 DEF Facade
<1>7. /\ v.revision = w.revision /\ v.listed = w.listed /\ v.chat = w.chat
      /\ v.loading = w.loading /\ v.departure = w.departure
      /\ v.lookups = S /\ w.revision \in Nat /\ v.quarantined = w.quarantined
  BY DEF Facade
<1>. QED  BY <1>4, <1>5, <1>6, <1>7 DEF Fades, Dims, Ends, Waits

LEMMA RequestingFades ==
    ASSUME Past, NEW w \in Facade, NEW r \in Nat
    PROVE  LET v == Groups!Requesting(w, r)
           IN  /\ Fades(w, v) /\ v.quarantined = w.quarantined /\ v.revision = w.revision
               /\ v.listed = w.listed /\ v.chat = w.chat
<1>. DEFINE newest == Groups!MaxOf(w.requested, r)
            v == IF ~ w.inFlight \/ newest > w.requested THEN Groups!Superseded(w) ELSE w
            u == [v EXCEPT !.requested = newest]
<1>1. newest \in Nat
  BY DEF Groups!MaxOf, Facade
<1>2. /\ Fades(w, v) /\ v \in Facade /\ v.quarantined = w.quarantined
      /\ v.revision = w.revision /\ v.listed = w.listed /\ v.chat = w.chat
  BY SupersededFades, StillFades DEF Fades, Dims, Ends
<1>3. Groups!Requesting(w, r) = IF w.inFlight THEN u ELSE Groups!Fetching(u)
  BY DEF Groups!Requesting
<1>. HIDE DEF newest, v
<1>4. u \in Facade
  BY <1>1, <1>2 DEF Facade
<1>5. /\ u.revision = v.revision /\ u.listed = v.listed /\ u.chat = v.chat
      /\ u.loading = v.loading /\ u.departure = v.departure
      /\ u.inFlight = v.inFlight /\ u.lookups = v.lookups /\ u.quarantined = v.quarantined
  BY <1>2 DEF Facade
<1>. HIDE DEF u
<1>6. Fades(w, u)
  BY <1>2, <1>4, <1>5 DEF Fades, Dims, Ends, Waits, Faded
<1>7. Fades(w, Groups!Fetching(u))
  BY <1>4, <1>6, FetchingFades, FadesOn
<1>. QED  BY <1>2, <1>3, <1>4, <1>5, <1>6, <1>7, FetchingFades

LEMMA WithContextFades ==
    ASSUME NEW w \in Facade, NEW c \in Groups!Context
    PROVE  LET v == [w EXCEPT !.context = c]
           IN  /\ v \in Facade /\ Fades(w, v) /\ v.quarantined = w.quarantined
               /\ v.revision = w.revision /\ v.listed = w.listed /\ v.chat = w.chat
               /\ v.list = w.list /\ v.removed = w.removed
<1>. DEFINE v == [w EXCEPT !.context = c]
<1>1. v \in Facade
  BY DEF Facade
<1>2. /\ v.revision = w.revision /\ v.listed = w.listed /\ v.chat = w.chat
      /\ v.loading = w.loading /\ v.departure = w.departure
      /\ v.inFlight = w.inFlight /\ v.lookups = w.lookups /\ w.revision \in Nat
      /\ v.quarantined = w.quarantined /\ v.removed = w.removed /\ v.list = w.list
  BY DEF Facade
<1>. QED  BY <1>1, <1>2 DEF Fades, Dims, Ends, Waits

LEMMA ClearedFades ==
    ASSUME NEW w \in Facade
    PROVE  LET v == Groups!ClearedLocally(w)
           IN  Fades(w, v) /\ v.quarantined = w.quarantined /\ v.revision = w.revision
               /\ v.list.set = w.list.set
<1>. DEFINE v == [w EXCEPT !.listed = Groups!Nothing]
            u == [w EXCEPT !.cleared = TRUE, !.listed = Groups!Nothing,
                           !.chat = IF Groups!IsSelected(w) THEN Groups!Nothing ELSE @]
<1>1. Groups!Nothing \in Groups!Shown /\ Groups!Nothing.kind # "real" /\ Groups!Nothing.rev = 0
  BY DEF Groups!Nothing, Groups!Shown
<1>2. v \in Facade
  BY <1>1 DEF Facade
<1>3. u \in Facade
  BY <1>1 DEF Facade
<1>4. /\ v.revision = w.revision /\ v.listed = Groups!Nothing /\ v.chat = w.chat
      /\ v.loading = w.loading /\ v.departure = w.departure /\ v.list = w.list
      /\ v.inFlight = w.inFlight /\ v.lookups = w.lookups /\ v.quarantined = w.quarantined
  BY DEF Facade
<1>5. /\ u.revision = w.revision /\ u.listed = Groups!Nothing
      /\ u.chat = w.chat \/ u.chat = Groups!Nothing
      /\ u.loading = w.loading /\ u.departure = w.departure /\ u.list = w.list
      /\ u.inFlight = w.inFlight /\ u.lookups = w.lookups /\ u.quarantined = w.quarantined
  BY DEF Facade
<1>6. Groups!ClearedLocally(w) = IF w.cleared THEN v ELSE Groups!Projected(u)
  BY DEF Groups!ClearedLocally
<1>7. w.revision \in Nat
  BY DEF Facade
<1>. HIDE DEF u, v
<1>8. Fades(w, u) /\ Fades(w, v)
  BY <1>1, <1>2, <1>3, <1>4, <1>5, <1>7 DEF Fades, Dims, Ends, Waits, Faded
<1>. QED  BY <1>3, <1>4, <1>5, <1>6, <1>8, ProjectedFades, FadesOn

LEMMA ContextTypes ==
    ASSUME NEW w \in Facade
    PROVE  /\ Groups!ContextOf(w) \in Groups!Context
           /\ Groups!Projection(w) \in Groups!Shown /\ Groups!CurrentProjection(w) \in Groups!Shown
  BY DEF Facade, Groups!ContextOf, Groups!IsSelected, Groups!Context, Groups!Projection,
         Groups!CurrentProjection, Groups!Nothing, Groups!Shown

LEMMA QuarantinedFades ==
    ASSUME NEW w \in Facade, NEW c \in Groups!Context
    PROVE  LET v == Groups!Quarantined(w, c)
           IN  Fades(w, v) /\ v.revision = w.revision /\ v.list.set = w.list.set
<1>. DEFINE u == [w EXCEPT !.quarantined = TRUE, !.failed = FALSE, !.context = c]
            q == Groups!Projected(u)
<1>1. u \in Facade
  BY DEF Facade
<1>2. /\ u.revision = w.revision /\ u.listed = w.listed /\ u.chat = w.chat
      /\ u.loading = w.loading /\ u.departure = w.departure /\ u.list = w.list
      /\ u.inFlight = w.inFlight /\ u.lookups = w.lookups /\ w.revision \in Nat
  BY DEF Facade
<1>. HIDE DEF u
<1>3. Fades(w, u)
  BY <1>1, <1>2 DEF Fades, Dims, Ends, Waits
<1>4. Fades(w, q) /\ q \in Facade /\ q.revision = w.revision /\ q.list.set = w.list.set
  BY <1>1, <1>2, <1>3, ProjectedFades, FadesOn DEF Fades, Dims, Ends
<1>. HIDE DEF q
<1>5. LET v == Groups!ClearedLocally(q)
      IN  Fades(w, v) /\ v.revision = w.revision /\ v.list.set = w.list.set
  BY <1>4, ClearedFades, FadesOn
<1>. DEFINE x == [w EXCEPT !.context = c]
<1>6. Groups!Quarantined(w, c) \in {q, Groups!ClearedLocally(q), x, w}
  BY DEF Groups!Quarantined, q, u
<1>7. Fades(w, x) /\ x.revision = w.revision /\ x.list = w.list
  BY WithContextFades
<1>8. Fades(w, w)
  BY StillFades
<1>. HIDE DEF x
<1>. QED  BY <1>4, <1>5, <1>6, <1>7, <1>8

LEMMA RemovedFades ==
    ASSUME NEW w \in Facade, NEW r \in Nat
    PROVE  LET v == Groups!Removed(w, r)
           IN  Fades(w, v) /\ v.list.set = w.list.set
<1>. DEFINE top == Groups!MaxOf(r, w.revision)
            v == IF w.inFlight THEN Groups!Superseded(w) ELSE w
            u == [v EXCEPT !.revision = top, !.inFlight = FALSE,
                           !.removed = Groups!MaxOf(@, top), !.quarantined = FALSE,
                           !.failed = FALSE, !.reconcile = FALSE,
                           !.context = Groups!NoContext]
            q == Groups!MarkedRemoved(w, r)
            n == [q EXCEPT !.stale = FALSE]
<1>1. Fades(w, v) /\ v \in Facade /\ v.revision = w.revision /\ v.list.set = w.list.set
  BY SupersededFades, StillFades DEF Fades, Dims, Ends
<1>2. top \in Nat /\ w.revision <= top /\ Groups!NoContext \in Groups!Context
  BY DEF Groups!MaxOf, Facade, Groups!NoContext, Groups!Context
<1>3. q = Groups!Projected(u)
  <2>1. q = Groups!Projected([v EXCEPT !.revision = top, !.inFlight = FALSE,
                                 !.removed = Groups!MaxOf(v.removed, top),
                                 !.quarantined = FALSE, !.failed = FALSE,
                                 !.reconcile = FALSE, !.context = Groups!NoContext])
    BY ZenonT(40) DEF Groups!MarkedRemoved
  <2>. HIDE DEF top, v, q
  <2>. QED  BY <2>1
<1>. HIDE DEF top, v, q
<1>4. Groups!MaxOf(v.removed, top) \in Nat
  BY <1>1, <1>2 DEF Groups!MaxOf, Facade
<1>5. u \in Facade
  BY ZenonT(60), <1>1, <1>2, <1>4 DEF Facade
<1>6. /\ u.revision = top /\ u.listed = v.listed /\ u.chat = v.chat
      /\ u.loading = v.loading /\ u.departure = v.departure /\ u.list = v.list
      /\ u.inFlight = FALSE
  BY <1>1 DEF Facade
<1>. HIDE DEF u
<1>7. Fades(v, u) /\ u.list.set = w.list.set
  BY <1>1, <1>2, <1>5, <1>6 DEF Fades, Dims, Ends, Waits
<1>8. Fades(w, q) /\ q \in Facade /\ q.list.set = w.list.set
  BY <1>1, <1>3, <1>5, <1>7, ProjectedFades, FadesOn DEF Fades, Dims, Ends
<1>9. n \in Facade
  BY <1>8 DEF Facade
<1>10. /\ n.revision = q.revision /\ n.listed = q.listed /\ n.chat = q.chat
       /\ n.loading = q.loading /\ n.departure = q.departure /\ n.list = q.list
       /\ n.inFlight = q.inFlight /\ n.lookups = q.lookups
  BY <1>8 DEF Facade
<1>11. Groups!Removed(w, r) \in {n, Groups!ClearedLocally(n)}
  BY DEF Groups!Removed, Groups!OnRemoved, n, q
<1>. HIDE DEF n
<1>12. Fades(w, n) /\ n.list.set = w.list.set
  BY <1>8, <1>9, <1>10 DEF Fades, Dims, Ends, Waits, Faded
<1>. QED  BY <1>9, <1>11, <1>12, ClearedFades, FadesOn

LEMMA RetryableFades ==
    ASSUME NEW w \in Facade
    PROVE  Fades(w, Groups!OnRetryable(w))
  BY ClearedFades, StillFades DEF Groups!OnRetryable

-----------------------------------------------------------------------------
(* What brings a projection back.                                          *)

LEMMA AcceptingFacts ==
    ASSUME NEW w \in Facade, NEW r \in Nat
    PROVE  LET v == Groups!Accepting(w, r)
           IN  /\ Fades(w, v) /\ v.listed = w.listed /\ v.chat = w.chat
               /\ v.quarantined = w.quarantined
               /\ ~ Newest(w, r) => v = w
               /\ Newest(w, r) => v.revision = r /\ v.removed = 0
<1>. DEFINE n == [w EXCEPT !.requested = Groups!MaxOf(@, r)]
            b == IF w.inFlight THEN Groups!Superseded(n) ELSE w
            c == [b EXCEPT !.revision = r]
            a == IF r = w.revision THEN w ELSE Groups!Projected(c)
            d == [a EXCEPT !.removed = 0]
<1>. w.revision \in Nat /\ w.removed \in Nat
  BY DEF Facade
<1>1. Groups!Accepting(w, r) = IF ~ Newest(w, r) THEN w
                               ELSE IF a.removed = 0 THEN a ELSE Groups!Projected(d)
  BY DEF Groups!Accepting, Newest
<1>2. CASE ~ Newest(w, r)
  BY <1>1, <1>2, StillFades
<1>3. CASE Newest(w, r)
  <2>1. Groups!MaxOf(w.requested, r) \in Nat
    BY DEF Groups!MaxOf, Facade
  <2>2. n \in Facade
    BY <2>1 DEF Facade
  <2>3. /\ n.revision = w.revision /\ n.listed = w.listed /\ n.chat = w.chat
        /\ n.loading = w.loading /\ n.departure = w.departure
        /\ n.inFlight = w.inFlight /\ n.lookups = w.lookups /\ n.quarantined = w.quarantined
    BY DEF Facade
  <2>. HIDE DEF n
  <2>4. Fades(w, n)
    BY <2>2, <2>3 DEF Fades, Dims, Ends, Waits
  <2>5. /\ Fades(w, b) /\ b \in Facade /\ b.listed = w.listed /\ b.chat = w.chat
        /\ b.quarantined = w.quarantined /\ b.revision = w.revision
    BY <2>2, <2>3, <2>4, SupersededFades, FadesOn, StillFades DEF Fades, Dims, Ends
  <2>. HIDE DEF b
  <2>6. c \in Facade
    BY <2>5 DEF Facade
  <2>7. /\ c.revision = r /\ c.listed = b.listed /\ c.chat = b.chat
        /\ c.loading = b.loading /\ c.departure = b.departure
        /\ c.inFlight = b.inFlight /\ c.lookups = b.lookups /\ c.quarantined = b.quarantined
    BY <2>5 DEF Facade
  <2>. HIDE DEF c
  <2>8. Fades(b, c)
    BY <1>3, <2>5, <2>6, <2>7 DEF Fades, Dims, Ends, Waits, Newest
  <2>9. Fades(w, c)
    BY <2>5, <2>8, FadesOn
  <2>10. /\ Fades(w, a) /\ a \in Facade /\ a.listed = w.listed /\ a.chat = w.chat
         /\ a.quarantined = w.quarantined /\ a.revision = r
    BY <2>5, <2>6, <2>7, <2>9, ProjectedFades, FadesOn, StillFades DEF Fades, Dims, Ends
  <2>. HIDE DEF a
  <2>11. d \in Facade
    BY <2>10 DEF Facade
  <2>12. /\ d.revision = r /\ d.listed = a.listed /\ d.chat = a.chat /\ d.removed = 0
         /\ d.loading = a.loading /\ d.departure = a.departure
         /\ d.inFlight = a.inFlight /\ d.lookups = a.lookups /\ d.quarantined = a.quarantined
    BY <2>10 DEF Facade
  <2>. HIDE DEF d
  <2>13. Fades(a, d)
    BY <2>10, <2>11, <2>12 DEF Fades, Dims, Ends, Waits
  <2>14. Fades(w, d)
    BY <2>10, <2>13, FadesOn
  <2>15. Fades(w, Groups!Projected(d))
    BY <2>11, <2>14, ProjectedFades, FadesOn
  <2>. QED  BY <1>1, <1>3, <2>10, <2>11, <2>12, <2>15, ProjectedFades
<1>. QED  BY <1>2, <1>3

\* What is not seen of a lookup that is over.
LEMMA FinishedFades ==
    ASSUME Past, NEW w \in Facade, NEW l, NEW retry \in BOOLEAN
    PROVE  LET v == Groups!Finished(w, l, retry)
           IN  /\ Fades(w, v) /\ v.listed = w.listed /\ v.chat = w.chat
               /\ v.quarantined = w.quarantined /\ v.revision = w.revision
<1>. DEFINE S == {k \in w.lookups : k.id # l.id}
            u == [w EXCEPT !.lookups = {k \in @ : k.id # l.id}, !.inFlight = FALSE,
                           !.current = IF @ = l.id THEN 0 ELSE @]
<1>1. w.lookups \in Lookups
  BY DEF Facade
<1>2. S \in Lookups
  BY <1>1, LookupsKept
<1>3. u = [w EXCEPT !.lookups = S, !.inFlight = FALSE,
                    !.current = IF @ = l.id THEN 0 ELSE @]
  OBVIOUS
<1>4. Groups!Finished(w, l, retry) \in {u, Groups!Fetching(u)}
  BY DEF Groups!Finished
<1>. HIDE DEF S, u
<1>5. u \in Facade
  BY ZenonT(60), <1>2, <1>3 DEF Facade
<1>6. /\ u.revision = w.revision /\ u.listed = w.listed /\ u.chat = w.chat
      /\ u.loading = w.loading /\ u.departure = w.departure
      /\ u.inFlight = FALSE /\ w.revision \in Nat /\ u.quarantined = w.quarantined
  BY <1>3 DEF Facade
<1>7. Fades(w, u)
  BY <1>5, <1>6 DEF Fades, Dims, Ends, Waits
<1>8. Fades(w, Groups!Fetching(u))
  BY <1>5, <1>7, FetchingFades, FadesOn
<1>. QED  BY <1>4, <1>5, <1>6, <1>7, <1>8, FetchingFades

LEMMA FinishedShows ==
    ASSUME Past, NEW w, NEW v, NEW r \in Nat, NEW l, NEW retry \in BOOLEAN, Shows(w, v, r)
    PROVE  Shows(w, Groups!Finished(v, l, retry), r)
<1>1. v \in Facade
  BY DEF Shows
<1>. QED  BY <1>1, FinishedFades DEF Shows, Fades, Dims, Ends, Faded

LEMMA SelectingEntry ==
    ASSUME NEW w \in Facade, NEW e \in Groups!Shown, e.kind # "placeholder", e.rev <= w.revision
    PROVE  LET v == Groups!Selecting(w, e)
           IN  /\ v \in Facade /\ v.revision = w.revision /\ v.chat = e
               /\ v.listed = IF w.listed.kind = "none" THEN w.listed ELSE e
               /\ v.loading = w.loading /\ v.departure = w.departure
               /\ v.inFlight = w.inFlight /\ v.lookups = w.lookups
               /\ v.quarantined = w.quarantined
<1>. DEFINE u == [w EXCEPT !.chat = e]
            x == [u EXCEPT !.listed = e]
<1>1. u \in Facade
  BY DEF Facade
<1>2. /\ u.revision = w.revision /\ u.listed = w.listed /\ u.chat = e
      /\ u.loading = w.loading /\ u.departure = w.departure
      /\ u.inFlight = w.inFlight /\ u.lookups = w.lookups /\ u.quarantined = w.quarantined
      /\ w.revision \in Nat /\ e.rev \in Nat
  BY DEF Facade, Groups!Shown
<1>3. Groups!MarkedAuthorized(u, e.rev) = u
  BY <1>2 DEF Groups!MarkedAuthorized
<1>4. Groups!Selecting(w, e) = IF u.listed.kind = "none" THEN u ELSE x
  BY <1>3 DEF Groups!Selecting
<1>. HIDE DEF u
<1>5. x \in Facade
  BY <1>1 DEF Facade
<1>6. /\ x.revision = u.revision /\ x.listed = e /\ x.chat = u.chat
      /\ x.loading = u.loading /\ x.departure = u.departure
      /\ x.inFlight = u.inFlight /\ x.lookups = u.lookups /\ x.quarantined = u.quarantined
  BY <1>1 DEF Facade
<1>. HIDE DEF x
<1>. QED  BY <1>1, <1>2, <1>4, <1>5, <1>6

LEMMA SelectingPlaceholder ==
    ASSUME Past, NEW w \in Facade, NEW e \in Groups!Shown, e.kind = "placeholder",
           e.rev <= w.revision
    PROVE  Fades(w, Groups!Selecting(w, e))
<1>. DEFINE v == [w EXCEPT !.chat = e]
            c == Groups!ContextOf(v)
            q == IF ~ v.quarantined THEN Groups!Quarantined(v, c)
                 ELSE IF ~ v.context.set THEN [v EXCEPT !.context = c] ELSE v
            x == Groups!WithContext(q, c)
<1>1. v \in Facade
  BY DEF Facade
<1>2. /\ v.revision = w.revision /\ v.listed = w.listed /\ v.chat = e
      /\ v.loading = w.loading /\ v.departure = w.departure
      /\ v.inFlight = w.inFlight /\ v.lookups = w.lookups /\ w.revision \in Nat
  BY DEF Facade
<1>3. Groups!Selecting(w, e) = IF q.inFlight THEN q ELSE Groups!Requesting(x, q.revision)
  BY DEF Groups!Selecting
<1>. HIDE DEF v
<1>4. Fades(w, v)
  BY <1>1, <1>2 DEF Fades, Dims, Ends, Waits, Faded
<1>5. c \in Groups!Context
  BY <1>1, ContextTypes
<1>. HIDE DEF c
<1>6. Fades(v, q)
  BY <1>1, <1>5, QuarantinedFades, WithContextFades, StillFades
<1>7. Fades(w, q) /\ q \in Facade /\ q.revision \in Nat
  BY <1>4, <1>6, FadesOn DEF Fades, Dims, Ends, Facade
<1>. HIDE DEF q
<1>8. Fades(q, x) /\ x \in Facade
  BY <1>5, <1>7, WithContextFades, StillFades DEF Groups!WithContext
<1>. HIDE DEF x
<1>9. Fades(w, x)
  BY <1>7, <1>8, FadesOn
<1>10. Fades(w, Groups!Requesting(x, q.revision))
  BY <1>7, <1>8, <1>9, RequestingFades, FadesOn
<1>. QED  BY <1>3, <1>7, <1>10

\* A projection that is accepted, or is not newer than what is shown, is shown.
LEMMA UpsertedFacts ==
    ASSUME NEW w \in Facade, NEW r \in Nat, Groups!Upserts(w, r),
           w.listed.rev <= w.revision, w.chat.rev <= w.revision
    PROVE  LET v == Groups!Upserted(w, r)
           IN  /\ v \in Facade /\ w.revision <= v.revision /\ r <= v.revision
               /\ v.listed = Groups!Real(r)
               /\ v.chat = IF Groups!IsSelected(w) THEN Groups!Real(r) ELSE w.chat
               /\ ~ v.quarantined /\ ~ w.quarantined
               /\ Ends(w, v) /\ (Waits(w) => Waits(v))
<1>. DEFINE a == Groups!Accepting(w, r)
            v == [a EXCEPT !.cleared = FALSE, !.listed = Groups!Real(r),
                           !.chat = IF Groups!IsSelected(a) THEN Groups!Real(r) ELSE @]
<1>1. ~ w.quarantined /\ Groups!Upserted(w, r) = v
  BY DEF Groups!Upserts, Groups!Upserted
<1>2. /\ Fades(w, a) /\ a \in Facade /\ a.listed = w.listed /\ a.chat = w.chat
      /\ ~ a.quarantined /\ (Newest(w, r) => a.revision = r) /\ (~ Newest(w, r) => a = w)
  BY <1>1, AcceptingFacts DEF Fades, Dims, Ends
<1>3. w.revision \in Nat /\ a.revision \in Nat
  BY <1>2 DEF Facade
<1>4. Groups!Accepts(w, r) => Newest(w, r)
  <2>. w.removed \in Nat  BY DEF Facade
  <2>. QED  BY <1>3 DEF Groups!Accepts, Newest
<1>5. r <= a.revision
  <2>1. CASE Groups!Accepts(w, r)
    BY <1>2, <1>3, <1>4, <2>1
  <2>2. CASE Groups!Projection(a).kind # "none" /\ Groups!Projection(a).rev >= r
    <3>1. Groups!Projection(a) = w.listed \/ Groups!Projection(a) = w.chat
      BY <1>2, <2>2 DEF Groups!Projection, Groups!Nothing
    <3>2. w.listed.rev \in Nat /\ w.chat.rev \in Nat
      BY DEF Facade, Groups!Shown
    <3>. QED  BY <1>2, <1>3, <2>2, <3>1, <3>2 DEF Fades, Dims, Ends
  <2>. QED  BY <2>1, <2>2 DEF Groups!Upserts
<1>. HIDE DEF a
<1>6. Groups!Real(r) \in Groups!Shown
  BY DEF Groups!Real, Groups!Shown
<1>7. v \in Facade
  BY ZenonT(60), <1>2, <1>6 DEF Facade
<1>8. /\ v.revision = a.revision /\ v.listed = Groups!Real(r)
      /\ v.chat = IF Groups!IsSelected(a) THEN Groups!Real(r) ELSE a.chat
      /\ v.loading = a.loading /\ v.departure = a.departure
      /\ v.inFlight = a.inFlight /\ v.lookups = a.lookups /\ v.quarantined = a.quarantined
  BY <1>2 DEF Facade
<1>9. Groups!IsSelected(a) <=> Groups!IsSelected(w)
  BY <1>2 DEF Groups!IsSelected
<1>. HIDE DEF v
<1>. QED  BY <1>1, <1>2, <1>3, <1>5, <1>7, <1>8, <1>9 DEF Fades, Dims, Ends, Waits

\* The group is authorized at the revision that was just taken over.
LEMMA AuthorizedShows ==
    ASSUME NEW w \in Facade, NEW c \in Groups!Context, w.removed = 0, ~ w.quarantined,
           w.listed.rev <= w.revision, w.chat.rev <= w.revision
    PROVE  LET v == Groups!OnAuthorized(w, w.revision, c)
           IN  Shows(w, v, w.revision)
<1>. DEFINE r == w.revision
            R == Groups!Real(r)
            v == [w EXCEPT !.stale = FALSE, !.cleared = FALSE]
            x == [v EXCEPT !.chat = R, !.listed = IF @.kind = "none" THEN @ ELSE R]
            y == [v EXCEPT !.listed = R]
            z == Groups!Upserted(v, r)
            result == Groups!OnAuthorized(w, r, c)
<1>1. r \in Nat /\ R \in Groups!Shown /\ R.kind # "placeholder" /\ R.rev = r
  BY DEF Facade, Groups!Real, Groups!Shown
<1>2. v \in Facade
  BY DEF Facade
<1>3. /\ v.revision = r /\ v.listed = w.listed /\ v.chat = w.chat /\ v.removed = 0
      /\ v.loading = w.loading /\ v.departure = w.departure
      /\ v.inFlight = w.inFlight /\ v.lookups = w.lookups /\ ~ v.quarantined
  BY DEF Facade
<1>4. /\ \A q \in Facade : q.revision = r => Groups!MarkedAuthorized(q, r) = q
      /\ result = IF ~ c.set /\ Groups!IsSelected(v)
                  THEN IF v.chat.kind = "placeholder" THEN Groups!Selecting(v, R) ELSE x
                  ELSE IF c.selected /\ c.fresh /\ v.chat.kind = "none"
                  THEN Groups!Selecting(Groups!MarkedAuthorized(y, r), R)
                  ELSE IF Groups!Upserts(v, r) /\ c.selected
                       THEN Groups!MarkedAuthorized(z, r) ELSE z
  BY <1>1 DEF Groups!OnAuthorized, Groups!MarkedAuthorized
<1>. HIDE DEF v, R, result
<1>5. x \in Facade
  BY <1>1, <1>2 DEF Facade
<1>6. /\ x.revision = r /\ x.chat = R
      /\ x.listed = IF v.listed.kind = "none" THEN v.listed ELSE R
      /\ x.loading = v.loading /\ x.departure = v.departure
      /\ x.inFlight = v.inFlight /\ x.lookups = v.lookups /\ ~ x.quarantined
  BY <1>2, <1>3 DEF Facade
<1>7. y \in Facade
  BY <1>1, <1>2 DEF Facade
<1>8. /\ y.revision = r /\ y.chat = v.chat /\ y.listed = R
      /\ y.loading = v.loading /\ y.departure = v.departure
      /\ y.inFlight = v.inFlight /\ y.lookups = v.lookups /\ ~ y.quarantined
  BY <1>2, <1>3 DEF Facade
<1>. HIDE DEF x, y
<1>9. Groups!Upserts(v, r)
  <2>. v.revision \in Nat  BY <1>2 DEF Facade
  <2>. QED  BY <1>3 DEF Groups!Upserts, Groups!Accepts
<1>10. /\ z \in Facade /\ z.listed = R
       /\ z.chat = IF Groups!IsSelected(v) THEN R ELSE v.chat
       /\ ~ z.quarantined /\ r <= z.revision
       /\ Ends(v, z) /\ (Waits(v) => Waits(z))
  BY <1>1, <1>2, <1>3, <1>9, UpsertedFacts DEF R
<1>11. Newest(v, r) /\ z.revision = r
  <2>1. Newest(v, r)
    BY <1>1, <1>3 DEF Newest
  <2>2. Groups!Accepting(v, r) \in Facade /\ Groups!Accepting(v, r).revision = r
    BY <1>1, <1>2, <2>1, AcceptingFacts DEF Fades, Dims, Ends
  <2>3. z.revision = Groups!Accepting(v, r).revision
    BY <1>3, <1>9, <2>2 DEF Groups!Upserted, Facade
  <2>. QED  BY <2>1, <2>2, <2>3
<1>. HIDE DEF z
<1>12. result \in {Groups!Selecting(v, R), x, Groups!Selecting(y, R), z}
  BY <1>4, <1>7, <1>8, <1>9, <1>10, <1>11
<1>13. r <= r
  BY <1>1
<1>14. ASSUME NEW q \in {v, y}
       PROVE  Shows(w, Groups!Selecting(q, R), r)
  <2>1. /\ q \in Facade /\ q.revision = r /\ q.loading = w.loading
        /\ q.departure = w.departure /\ q.inFlight = w.inFlight /\ q.lookups = w.lookups
        /\ ~ q.quarantined /\ q.listed.rev <= r
    BY <1>1, <1>2, <1>3, <1>7, <1>8, <1>13
  <2>. QED  BY <1>1, <1>13, <2>1, SelectingEntry DEF Shows, Ends, Waits, Faded, R
<1>15. Shows(w, x, r)
  BY <1>1, <1>3, <1>5, <1>6, <1>13 DEF Shows, Ends, Waits, Faded, R
<1>16. Shows(w, z, r)
  <2>1. ~ Groups!IsSelected(v) => v.chat.kind # "real"
    BY DEF Groups!IsSelected
  <2>. QED  BY <1>3, <1>10, <1>11, <1>13, <2>1 DEF Shows, Ends, Waits, Faded, R
<1>. QED  BY <1>10, <1>12, <1>14, <1>15, <1>16 DEF result, R

-----------------------------------------------------------------------------
(* A step of the group.                                                    *)

\* What GroupFollowsMembership says of a step from w to v, but of the requests that are
\* under way.
NoOlder(w, v) ==
    /\ w.listed.kind = "real" /\ v.listed.kind = "real" =>
            v.listed.rev >= w.listed.rev \/ v.listed = w.chat
    /\ w.chat.kind = "real" /\ v.chat.kind = "real" => v.chat.rev >= w.chat.rev
Returning(w, v) ==
    w.removed # 0 /\ Groups!Visible(w) = {} => \A r \in Groups!Visible(v) : r > w.removed
Verified(w, v) ==
    v.quarantined /\ Groups!Visible(v) # {} => Groups!Visible(w) # {} \/ w.list # v.list
Turn(w, v) ==
    /\ v \in Facade /\ Ordered(v) /\ (Waits(w) => Waits(v))
    /\ NoOlder(w, v) /\ Returning(w, v) /\ Verified(w, v)

LEMMA Seen ==
    ASSUME NEW w
    PROVE  /\ Groups!Visible(w) = {} <=> w.listed.kind # "real" /\ w.chat.kind # "real"
           /\ \A r \in Groups!Visible(w) : \/ w.listed.kind = "real" /\ r = w.listed.rev
                                           \/ w.chat.kind = "real" /\ r = w.chat.rev
  BY DEF Groups!Visible

LEMMA DimsTurns ==
    ASSUME NEW w \in Facade, NEW v, Ordered(w), Dims(w, v)  PROVE Turn(w, v)
<1>1. /\ w.revision \in Nat /\ v.revision \in Nat /\ w.listed.rev \in Nat /\ w.chat.rev \in Nat
      /\ v.listed.rev \in Nat /\ v.chat.rev \in Nat
  BY DEF Dims, Facade, Groups!Shown
<1>2. Ordered(v) /\ NoOlder(w, v)
  BY <1>1 DEF Dims, Faded, Ordered, NoOlder
<1>3. Groups!Visible(v) # {} => Groups!Visible(w) # {}
  BY Seen DEF Dims, Faded
<1>. QED  BY <1>2, <1>3 DEF Dims, Turn, Returning, Verified

LEMMA ShowsTurns ==
    ASSUME NEW w \in Facade, NEW v, NEW r \in Nat, Ordered(w), Newest(w, r), Shows(w, v, r)
    PROVE  Turn(w, v)
<1>1. /\ w.revision \in Nat /\ v.revision \in Nat /\ w.listed.rev \in Nat /\ w.chat.rev \in Nat
      /\ v.listed.rev \in Nat /\ v.chat.rev \in Nat /\ w.removed \in Nat
  BY DEF Shows, Facade, Groups!Shown
<1>2. Groups!Real(r).rev = r
  BY DEF Groups!Real
<1>3. Ordered(v) /\ NoOlder(w, v)
  BY <1>1, <1>2 DEF Shows, Faded, Ordered, NoOlder
<1>4. Returning(w, v)
  BY <1>1, <1>2, Seen DEF Shows, Faded, Newest, Returning
<1>. QED  BY <1>3, <1>4 DEF Shows, Turn, Verified

\* What a list may do with its item and with what was shown before.
Lists(w, v, r) ==
    /\ v \in Facade
    /\ w.revision <= v.revision
    /\ \/ v.listed = Groups!Real(r) /\ Newest(w, r) /\ r <= v.revision
       \/ v.listed \in {w.listed, Groups!CurrentProjection(w)}
       \/ Faded(v.listed, v)
    /\ v.chat \in {w.chat, v.listed} \/ Faded(v.chat, v)
    /\ Ends(w, v) /\ (Waits(w) => Waits(v))

LEMMA ListsTurns ==
    ASSUME NEW w \in Facade, NEW v, NEW r \in Nat, Ordered(w), Lists(w, v, r)
    PROVE  Verified(w, v) => Turn(w, v)
<1>1. /\ w.revision \in Nat /\ v.revision \in Nat /\ w.listed.rev \in Nat /\ w.chat.rev \in Nat
      /\ v.listed.rev \in Nat /\ v.chat.rev \in Nat /\ w.removed \in Nat
  BY DEF Lists, Facade, Groups!Shown
<1>2. Groups!Real(r).rev = r
  BY DEF Groups!Real
<1>3. Groups!Nothing.rev = 0 /\ Groups!Nothing.kind # "real"
  BY DEF Groups!Nothing
<1>4. Groups!CurrentProjection(w) \in {w.listed, w.chat}
  BY DEF Groups!CurrentProjection
<1>5. Ordered(v)
  BY <1>1, <1>2, <1>3, <1>4 DEF Lists, Faded, Newest, Ordered
<1>6. NoOlder(w, v)
  BY <1>1, <1>2, <1>3, <1>4 DEF Lists, Faded, Newest, Ordered, NoOlder
<1>7. Returning(w, v)
  BY <1>1, <1>2, <1>3, <1>4, Seen DEF Lists, Faded, Newest, Returning
<1>. QED  BY <1>5, <1>6, <1>7 DEF Lists, Turn

-----------------------------------------------------------------------------
(* What lookups find.                                                      *)

LEMMA FailedFades ==
    ASSUME NEW w \in Facade, NEW b \in BOOLEAN  PROVE Fades(w, [w EXCEPT !.failed = b])
<1>. DEFINE v == [w EXCEPT !.failed = b]
<1>1. v \in Facade
  BY DEF Facade
<1>2. /\ v.revision = w.revision /\ v.listed = w.listed /\ v.chat = w.chat
      /\ v.loading = w.loading /\ v.departure = w.departure
      /\ v.inFlight = w.inFlight /\ v.lookups = w.lookups /\ w.revision \in Nat
  BY DEF Facade
<1>. QED  BY <1>1, <1>2 DEF Fades, Dims, Ends, Waits

LEMMA DepartedFades ==
    ASSUME NEW w \in Facade
    PROVE  LET v == Groups!Departed(w) IN Fades(w, v) /\ ~ v.departure.set
<1>. DEFINE v == Groups!Departed(w)
<1>1. v \in Facade
  BY ZenonT(60) DEF Facade, Groups!Departed, Groups!NoDeparture, Groups!NoContext, Groups!Context
<1>2. /\ v.revision = w.revision /\ v.listed = w.listed /\ v.chat = w.chat
      /\ ~ v.loading /\ ~ v.departure.set
      /\ v.inFlight = w.inFlight /\ v.lookups = w.lookups /\ w.revision \in Nat
  BY DEF Facade, Groups!Departed, Groups!NoDeparture
<1>. QED  BY <1>1, <1>2 DEF Fades, Dims, Ends, Waits

\* A newer revision is seen, of a group that is quarantined or not.
LEMMA RaisedFades ==
    ASSUME NEW w \in Facade, NEW r \in Nat, NEW q \in BOOLEAN, NEW f \in BOOLEAN,
           w.revision <= r
    PROVE  LET v == [w EXCEPT !.revision = r, !.quarantined = q, !.failed = f]
           IN  v \in Facade /\ Fades(w, v)
<1>. DEFINE v == [w EXCEPT !.revision = r, !.quarantined = q, !.failed = f]
<1>1. v \in Facade
  BY DEF Facade
<1>2. /\ v.revision = r /\ v.listed = w.listed /\ v.chat = w.chat
      /\ v.loading = w.loading /\ v.departure = w.departure
      /\ v.inFlight = w.inFlight /\ v.lookups = w.lookups
  BY DEF Facade
<1>. QED  BY <1>1, <1>2 DEF Fades, Dims, Ends, Waits

LEMMA ReauthorizedShows ==
    ASSUME NEW w \in Facade, NEW r \in Nat, NEW u \in Facade, NEW c \in Groups!Context,
           Ordered(w), Fades(w, u), u.revision = r, u.removed = 0, ~ u.quarantined
    PROVE  Shows(w, Groups!OnAuthorized(Groups!Projected(u), r, c), r)
<1>. DEFINE v == Groups!Projected(u)
<1>1. /\ Fades(w, v) /\ v \in Facade /\ v.revision = r /\ v.removed = 0 /\ ~ v.quarantined
  BY ProjectedFades, FadesOn DEF Fades, Dims
<1>2. v.listed.rev <= v.revision /\ v.chat.rev <= v.revision
  <2>1. w.revision \in Nat /\ w.listed.rev \in Nat /\ w.chat.rev \in Nat /\ v.revision \in Nat
    BY <1>1 DEF Facade, Groups!Shown
  <2>. QED  BY <1>1, <2>1 DEF Fades, Dims, Faded, Ordered
<1>. HIDE DEF v
<1>3. Shows(v, Groups!OnAuthorized(v, r, c), r)
  BY <1>1, <1>2, AuthorizedShows
<1>. QED  BY <1>1, <1>3, ShowsOn DEF v

\* A superseded answer.
LEMMA NewerTurns ==
    ASSUME NEW w \in Facade, NEW l \in Groups!Lookup, NEW r \in Nat, Ordered(w)
    PROVE  LET v == Groups!Newer(w, l, r)
           IN  \/ Fades(w, v) /\ v \in Facade
               \/ Newest(w, r) /\ Shows(w, v, r) /\ l.superseded
<1>. DEFINE u == [w EXCEPT !.revision = r, !.removed = 0, !.quarantined = FALSE,
                           !.failed = FALSE]
            x == [w EXCEPT !.revision = r, !.quarantined = TRUE, !.failed = FALSE]
<1>. w.revision \in Nat /\ w.removed \in Nat
  BY DEF Facade
<1>1. CASE ~ (r > w.revision /\ l.superseded /\ (w.removed = 0 \/ r > w.removed))
  BY <1>1, StillFades DEF Groups!Newer
<1>2. CASE r > w.revision /\ l.superseded /\ (w.removed = 0 \/ r > w.removed)
  <2>1. u \in Facade
    BY DEF Facade
  <2>2. /\ u.revision = r /\ u.listed = w.listed /\ u.chat = w.chat /\ u.removed = 0
        /\ u.loading = w.loading /\ u.departure = w.departure /\ ~ u.quarantined
        /\ u.inFlight = w.inFlight /\ u.lookups = w.lookups
    BY DEF Facade
  <2>3. Groups!Newer(w, l, r) \in
            {x, Groups!OnAuthorized(Groups!Projected(u), r, Groups!NoContext)}
    BY <1>2 DEF Groups!Newer
  <2>4. Fades(w, x) /\ x \in Facade
    <3>1. w.revision <= r /\ TRUE \in BOOLEAN /\ FALSE \in BOOLEAN
      BY <1>2
    <3>. QED  BY <3>1, RaisedFades
  <2>. HIDE DEF u, x
  <2>5. Fades(w, u)
    BY <1>2, <2>1, <2>2 DEF Fades, Dims, Ends, Waits
  <2>6. Groups!NoContext \in Groups!Context
    BY DEF Groups!NoContext, Groups!Context
  <2>7. Shows(w, Groups!OnAuthorized(Groups!Projected(u), r, Groups!NoContext), r)
    BY <2>1, <2>2, <2>5, <2>6, ReauthorizedShows
  <2>. QED  BY <1>2, <2>3, <2>4, <2>7 DEF Newest
<1>. QED  BY <1>1, <1>2

LEMMA AuthorizedTurns ==
    ASSUME NEW w \in Facade, NEW l \in Groups!Lookup, NEW r \in Nat, Ordered(w),
           w.revision <= r
    PROVE  Shows(w, Groups!Authorized(w, l, r), r)
<1>. DEFINE b == w.reconcile /\ ~ (w.fence # 0 /\ ~ l.early)
            u == [w EXCEPT !.revision = r, !.removed = 0, !.quarantined = FALSE,
                           !.failed = FALSE, !.reconcile = b,
                           !.context = Groups!NoContext]
<1>1. b \in BOOLEAN /\ Groups!NoContext \in Groups!Context
  BY DEF Groups!NoContext, Groups!Context
<1>2. Groups!Authorized(w, l, r) = Groups!OnAuthorized(Groups!Projected(u), r, w.context)
  BY DEF Groups!Authorized
<1>. HIDE DEF b
<1>3. u \in Facade
  BY <1>1 DEF Facade
<1>4. /\ u.revision = r /\ u.listed = w.listed /\ u.chat = w.chat /\ u.removed = 0
      /\ u.loading = w.loading /\ u.departure = w.departure /\ ~ u.quarantined
      /\ u.inFlight = w.inFlight /\ u.lookups = w.lookups
  BY DEF Facade
<1>5. w.context \in Groups!Context
  BY DEF Facade
<1>. HIDE DEF u
<1>6. Fades(w, u)
  BY <1>3, <1>4 DEF Fades, Dims, Ends, Waits
<1>. QED  BY <1>3, <1>4, <1>2, <1>5, <1>6, ReauthorizedShows

\* A lookup that finds the group, and one that does not.
Turns(w, v) == Turn(w, v) /\ Ends(w, v)

LEMMA FadesTurns ==
    ASSUME NEW w \in Facade, NEW v, Ordered(w), Fades(w, v)  PROVE Turns(w, v)
  BY DimsTurns DEF Fades, Turns

LEMMA FoundTurns ==
    ASSUME Past, NEW w \in Facade, NEW l \in Groups!Lookup, NEW r \in Nat, Ordered(w)
    PROVE  Turns(w, Groups!Found(w, l, r))
<1>. DEFINE c == IF w.context.set THEN w.context ELSE w.departure.context
            top == Groups!MaxOf(w.revision, r)
            x == [w EXCEPT !.revision = top]
            y == [w EXCEPT !.revision = top, !.quarantined = TRUE, !.failed = FALSE]
            z == [w EXCEPT !.revision = r, !.failed = FALSE]
            v == Groups!Newer(w, l, r)
            d == [v EXCEPT !.failed = v.quarantined]
            past == Groups!MaxOf(l.target, w.revision)
            F(u, retry) == Groups!Finished(u, l, retry)
<1>. w.revision \in Nat /\ w.removed \in Nat /\ l.target \in Nat
  BY DEF Facade, Groups!Lookup
<1>1. c \in Groups!Context /\ top \in Nat /\ w.revision <= top /\ past \in Nat
  BY DEF Facade, Groups!MaxOf
<1>2. x \in Facade /\ Fades(w, x)
  <2>1. x \in Facade
    BY <1>1 DEF Facade
  <2>2. /\ x.revision = top /\ x.listed = w.listed /\ x.chat = w.chat
        /\ x.loading = w.loading /\ x.departure = w.departure
        /\ x.inFlight = w.inFlight /\ x.lookups = w.lookups
    BY DEF Facade
  <2>. QED  BY <1>1, <2>1, <2>2 DEF Fades, Dims, Ends, Waits
<1>3. y \in Facade /\ Fades(w, y)
  BY <1>1, RaisedFades
<1>4. ASSUME NEW u, Fades(w, u), NEW retry \in BOOLEAN
      PROVE  Turns(w, F(u, retry))
  <2>1. u \in Facade
    BY <1>4 DEF Fades, Dims
  <2>2. Fades(u, F(u, retry))
    BY <2>1, FinishedFades
  <2>3. Fades(w, F(u, retry))
    BY <1>4, <2>1, <2>2, FadesOn
  <2>. QED  BY <2>3, FadesTurns
<1>5. ASSUME NEW u, Newest(w, r), Shows(w, u, r), NEW retry \in BOOLEAN
      PROVE  Turns(w, F(u, retry))
  <2>1. Shows(w, F(u, retry), r)
    BY <1>5, FinishedShows
  <2>. QED  BY <1>5, <2>1, ShowsTurns DEF Turns, Shows
<1>. HIDE DEF F, c, top, x, y, v, past
<1>6. CASE w.departure.set /\ r > w.departure.revision
  <2>1. Groups!Found(w, l, r) = F(Groups!Quarantined(x, c), FALSE)
    BY <1>6 DEF Groups!Found, F, x, c, top
  <2>2. Fades(w, Groups!Quarantined(x, c))
    BY <1>1, <1>2, QuarantinedFades, FadesOn
  <2>. QED  BY <1>4, <2>1, <2>2
<1>7. CASE ~ (w.departure.set /\ r > w.departure.revision) /\ Groups!Early(w, l, r)
  <2>1. Groups!Found(w, l, r) = F(y, l.superseded) /\ l.superseded \in BOOLEAN
    BY <1>7 DEF Groups!Found, F, y, top, Groups!Lookup
  <2>. QED  BY <1>3, <1>4, <2>1
<1>8. CASE ~ (w.departure.set /\ r > w.departure.revision) /\ ~ Groups!Early(w, l, r)
           /\ w.departure.observed /\ w.removed # 0
  <2>1. Groups!Found(w, l, r) = F(Groups!Departed(w), FALSE)
    BY <1>8 DEF Groups!Found, F
  <2>. QED  BY <1>4, <2>1, DepartedFades
<1>9. CASE /\ ~ (w.departure.set /\ r > w.departure.revision) /\ ~ Groups!Early(w, l, r)
           /\ ~ (w.departure.observed /\ w.removed # 0)
           /\ w.departure.observed /\ ~ w.quarantined
  <2>1. Groups!Found(w, l, r) = F(Groups!Removed(w, past), FALSE)
    BY <1>9 DEF Groups!Found, F, past
  <2>. QED  BY <1>1, <1>4, <2>1, RemovedFades
<1>10. CASE /\ ~ (w.departure.set /\ r > w.departure.revision) /\ ~ Groups!Early(w, l, r)
            /\ ~ (w.departure.observed /\ w.removed # 0)
            /\ ~ (w.departure.observed /\ ~ w.quarantined)
  <2>1. CASE Groups!Outdated(w, l, r) /\ l.superseded
    <3>1. \E retry \in BOOLEAN : Groups!Found(w, l, r) = F(v, retry)
      BY <1>10, <2>1 DEF Groups!Found, F, v
    <3>. QED  BY <1>4, <1>5, <3>1, NewerTurns DEF v
  <2>2. CASE Groups!Outdated(w, l, r) /\ ~ l.superseded
    <3>1. Groups!Found(w, l, r) = F(Groups!OnRetryable(d), FALSE)
      BY <1>10, <2>2 DEF Groups!Found, F, v
    <3>2. Fades(w, v) /\ v \in Facade /\ v.quarantined \in BOOLEAN
      BY <2>2, NewerTurns DEF v, Facade
    <3>3. Fades(w, d) /\ d \in Facade
      BY <3>2, FailedFades, FadesOn DEF Fades, Dims
    <3>. HIDE DEF d
    <3>4. Fades(w, Groups!OnRetryable(d))
      BY <3>3, RetryableFades, FadesOn
    <3>. QED  BY <1>4, <3>1, <3>4
  <2>3. CASE ~ Groups!Outdated(w, l, r)
    <3>1. Newest(w, r)
      BY <2>3 DEF Groups!Outdated, Groups!MaxOf, Newest
    <3>2. CASE w.departure.set /\ w.revision > w.departure.revision
      <4>1. Groups!Found(w, l, r) = F(z, FALSE)
        BY <1>10, <2>3, <3>2 DEF Groups!Found, F
      <4>2. z \in Facade
        BY DEF Facade
      <4>3. /\ z.revision = r /\ z.listed = w.listed /\ z.chat = w.chat
            /\ z.loading = w.loading /\ z.departure = w.departure
            /\ z.inFlight = w.inFlight /\ z.lookups = w.lookups
        BY DEF Facade
      <4>4. Fades(w, z)
        BY <3>1, <4>2, <4>3 DEF Fades, Dims, Ends, Waits, Newest
      <4>. QED  BY <1>4, <4>1, <4>4
    <3>3. CASE ~ (w.departure.set /\ w.revision > w.departure.revision)
      <4>1. Groups!Found(w, l, r) = F(Groups!Authorized(w, l, r), FALSE)
        BY <1>10, <2>3, <3>3 DEF Groups!Found, F
      <4>. QED  BY <1>5, <3>1, <4>1, AuthorizedTurns DEF Newest
    <3>. QED  BY <3>2, <3>3
  <2>. QED  BY <2>1, <2>2, <2>3
<1>. QED  BY <1>6, <1>7, <1>8, <1>9, <1>10

LEMMA FailedTurns ==
    ASSUME Past, NEW w \in Facade, NEW l \in Groups!Lookup, NEW notFound \in BOOLEAN, Ordered(w)
    PROVE  Turns(w, Groups!FailedLookup(w, l, notFound))
<1>. DEFINE q == Groups!Quarantined(w, w.departure.context)
            n == [q EXCEPT !.failed = TRUE]
            v == IF w.departure.set /\ w.revision > w.departure.revision
                       /\ ~ w.departure.observed
                 THEN Groups!Departed(n) ELSE w
            b == v.departure.observed \/ v.quarantined
            d == [v EXCEPT !.failed = b]
            past == Groups!MaxOf(l.target, v.revision)
            F(u, retry) == Groups!Finished(u, l, retry)
<1>1. Fades(w, q) /\ q \in Facade
  BY QuarantinedFades DEF Facade, Fades, Dims
<1>. HIDE DEF q
<1>2. Fades(w, n) /\ n \in Facade
  BY <1>1, FailedFades, FadesOn DEF Fades, Dims
<1>. HIDE DEF n
<1>3. Fades(w, v) /\ v \in Facade
  <2>1. Fades(w, Groups!Departed(n))
    BY <1>2, DepartedFades, FadesOn
  <2>. QED  BY <2>1, StillFades DEF Fades, Dims
<1>4. ASSUME NEW u, Fades(w, u), NEW retry \in BOOLEAN
      PROVE  Turns(w, F(u, retry))
  <2>1. u \in Facade
    BY <1>4 DEF Fades, Dims
  <2>2. Fades(u, F(u, retry))
    BY <2>1, FinishedFades
  <2>3. Fades(w, F(u, retry))
    BY <1>4, <2>1, <2>2, FadesOn
  <2>. QED  BY <2>3, FadesTurns
<1>5. Groups!FailedLookup(w, l, notFound) =
        IF l.superseded THEN F(w, TRUE)
        ELSE IF notFound THEN F(Groups!Removed(v, past), FALSE)
        ELSE F(Groups!OnRetryable(d), FALSE)
  BY DEF Groups!FailedLookup, n, q
<1>. HIDE DEF v, F
<1>6. past \in Nat /\ b \in BOOLEAN
  BY <1>3 DEF Groups!MaxOf, Facade, Groups!Lookup
<1>. HIDE DEF b, past
<1>7. Fades(w, Groups!Removed(v, past))
  BY <1>3, <1>6, RemovedFades, FadesOn
<1>8. Fades(w, d) /\ d \in Facade
  BY <1>3, <1>6, FailedFades, FadesOn DEF Fades, Dims
<1>. HIDE DEF d
<1>9. Fades(w, Groups!OnRetryable(d))
  BY <1>8, RetryableFades, FadesOn
<1>. QED  BY <1>4, <1>5, <1>7, <1>9, StillFades

-----------------------------------------------------------------------------
(* What lists show.                                                        *)

LEMMA ItemFacts ==
    ASSUME NEW w \in Facade, NEW r \in Nat, Ordered(w)
    PROVE  LET v == Groups!ProjectedItem(w, r)
           IN  IF Groups!ListedQuarantined(w, r) THEN Fades(w, v)
               ELSE IF Groups!ListedAuthorizes(w, r) THEN Newest(w, r) /\ Shows(w, v, r)
               ELSE v = IF w.quarantined THEN w ELSE Groups!Accepting(w, r)
<1>. w.revision \in Nat /\ w.removed \in Nat
  BY DEF Facade
<1>1. CASE Groups!ListedQuarantined(w, r)
  <2>. DEFINE top == Groups!MaxOf(w.revision, r)
              x == [w EXCEPT !.revision = top]
              c == IF w.context.set THEN w.context ELSE w.departure.context
  <2>1. top \in Nat /\ w.revision <= top /\ c \in Groups!Context
    BY DEF Groups!MaxOf, Facade
  <2>2. Groups!ProjectedItem(w, r) = Groups!Quarantined(x, c)
    BY <1>1 DEF Groups!ProjectedItem
  <2>. HIDE DEF top, c
  <2>3. x \in Facade
    BY <2>1 DEF Facade
  <2>4. /\ x.revision = top /\ x.listed = w.listed /\ x.chat = w.chat
        /\ x.loading = w.loading /\ x.departure = w.departure
        /\ x.inFlight = w.inFlight /\ x.lookups = w.lookups
    BY DEF Facade
  <2>. HIDE DEF x
  <2>5. Fades(w, x)
    BY <2>1, <2>3, <2>4 DEF Fades, Dims, Ends, Waits
  <2>6. Fades(w, Groups!Quarantined(x, c))
    BY <2>1, <2>3, <2>5, QuarantinedFades, FadesOn
  <2>. QED  BY <1>1, <2>2, <2>6
<1>2. CASE ~ Groups!ListedQuarantined(w, r) /\ Groups!ListedAuthorizes(w, r)
  <2>. DEFINE newest == Groups!MaxOf(w.requested, r)
              x == [w EXCEPT !.requested = newest]
              v == Groups!Unsubscribed(Groups!Superseded(x))
              u == [v EXCEPT !.revision = r, !.removed = 0, !.quarantined = FALSE,
                             !.failed = FALSE, !.reconcile = FALSE,
                             !.context = Groups!NoContext]
  <2>1. newest \in Nat /\ Groups!NoContext \in Groups!Context
    BY DEF Groups!MaxOf, Facade, Groups!NoContext, Groups!Context
  <2>2. Groups!ProjectedItem(w, r) =
            Groups!OnAuthorized(Groups!Projected(u), r, v.context)
    BY <1>2 DEF Groups!ProjectedItem
  <2>. HIDE DEF newest
  <2>3. x \in Facade
    BY <2>1 DEF Facade
  <2>4. /\ x.revision = w.revision /\ x.listed = w.listed /\ x.chat = w.chat
        /\ x.loading = w.loading /\ x.departure = w.departure
        /\ x.inFlight = w.inFlight /\ x.lookups = w.lookups
    BY DEF Facade
  <2>. HIDE DEF x
  <2>5. Fades(w, x)
    BY <2>3, <2>4 DEF Fades, Dims, Ends, Waits
  <2>6. Fades(w, Groups!Superseded(x)) /\ Groups!Superseded(x) \in Facade
        /\ Groups!Superseded(x).revision = w.revision
    BY <2>3, <2>4, <2>5, SupersededFades, FadesOn DEF Fades, Dims
  <2>7. Fades(w, v) /\ v \in Facade /\ v.revision = w.revision
    BY <2>6, UnsubscribedFades, FadesOn DEF Fades, Dims
  <2>. HIDE DEF v
  <2>8. u \in Facade
    BY ZenonT(60), <2>1, <2>7 DEF Facade
  <2>9. /\ u.revision = r /\ u.listed = v.listed /\ u.chat = v.chat /\ u.removed = 0
        /\ u.loading = v.loading /\ u.departure = v.departure /\ ~ u.quarantined
        /\ u.inFlight = v.inFlight /\ u.lookups = v.lookups
    BY <2>7 DEF Facade
  <2>10. v.context \in Groups!Context
    BY <2>7 DEF Facade
  <2>. HIDE DEF u
  <2>11. Newest(w, r)
    BY <1>2 DEF Groups!ListedAuthorizes, Newest
  <2>12. Fades(v, u)
    BY <2>7, <2>8, <2>9, <2>11 DEF Fades, Dims, Ends, Waits, Newest
  <2>13. Fades(w, u)
    BY <2>7, <2>12, FadesOn
  <2>. QED  BY <1>2, <2>2, <2>8, <2>9, <2>10, <2>11, <2>13, ReauthorizedShows
<1>3. CASE ~ Groups!ListedQuarantined(w, r) /\ ~ Groups!ListedAuthorizes(w, r)
  BY <1>3 DEF Groups!ProjectedItem
<1>. QED  BY <1>1, <1>2, <1>3

\* The item of a page or of a list, and the entry that is shown for it.
LEMMA EntryFacts ==
    ASSUME NEW w \in Facade, NEW r \in Nat, Ordered(w)
    PROVE  LET v == Groups!ProjectedItem(w, r)
               e == Groups!ProjectedEntry(w, r)
               x == [v EXCEPT !.listed = e]
           IN  \/ e = Groups!Real(r) /\ Lists(w, x, r) /\ ~ x.quarantined
               \/ e \in {Groups!Nothing, Groups!CurrentProjection(w)} /\ Fades(w, v)
<1>. DEFINE v == Groups!ProjectedItem(w, r)
            R == Groups!Real(r)
            x == [v EXCEPT !.listed = R]
<1>. w.revision \in Nat /\ w.removed \in Nat
  BY DEF Facade
<1>1. R \in Groups!Shown
  BY DEF Groups!Real, Groups!Shown
<1>2. CASE Groups!ListedQuarantined(w, r)
  BY <1>2, ItemFacts DEF Groups!ProjectedEntry
<1>3. CASE ~ Groups!ListedQuarantined(w, r) /\ Groups!ListedAuthorizes(w, r)
  <2>1. Newest(w, r) /\ Shows(w, v, r) /\ v \in Facade
    BY <1>3, ItemFacts DEF Shows
  <2>2. Groups!ProjectedEntry(w, r) = R
    BY <1>3 DEF Groups!ProjectedEntry
  <2>. HIDE DEF v, R
  <2>3. x \in Facade
    BY <1>1, <2>1 DEF Facade
  <2>4. /\ x.revision = v.revision /\ x.listed = R /\ x.chat = v.chat
        /\ x.loading = v.loading /\ x.departure = v.departure
        /\ x.inFlight = v.inFlight /\ x.lookups = v.lookups /\ x.quarantined = v.quarantined
    BY <2>1 DEF Facade
  <2>5. Lists(w, x, r) /\ ~ x.quarantined
    <3>. v.revision \in Nat  BY <2>1 DEF Facade
    <3>. QED  BY <2>1, <2>3, <2>4 DEF Lists, Shows, Ends, Waits, Faded, R
  <2>. QED  BY <2>2, <2>5 DEF v, R
<1>4. CASE ~ Groups!ListedQuarantined(w, r) /\ ~ Groups!ListedAuthorizes(w, r)
           /\ (w.quarantined \/ ~ Newest(w, r))
  <2>1. v = w
    BY <1>4, ItemFacts, AcceptingFacts
  <2>2. Groups!ProjectedEntry(w, r) \in {Groups!Nothing, Groups!CurrentProjection(w)}
    BY <1>4 DEF Groups!ProjectedEntry, Groups!Accepts, Newest
  <2>. QED  BY <2>1, <2>2, StillFades
<1>5. CASE ~ Groups!ListedQuarantined(w, r) /\ ~ Groups!ListedAuthorizes(w, r)
           /\ ~ w.quarantined /\ Newest(w, r)
  <2>1. v = Groups!Accepting(w, r)
    BY <1>5, ItemFacts
  <2>2. /\ Fades(w, v) /\ v \in Facade /\ ~ v.quarantined /\ v.revision = r
        /\ v.chat = w.chat
    <3>1. LET u == Groups!Accepting(w, r)
          IN  /\ Fades(w, u) /\ u.chat = w.chat /\ u.quarantined = w.quarantined
              /\ u.revision = r
      BY <1>5, AcceptingFacts
    <3>. QED  BY <1>5, <2>1, <3>1 DEF Fades, Dims
  <2>3. Groups!ProjectedEntry(w, r) = R
    <3>1. Groups!Accepts(w, r)
      BY <1>5 DEF Groups!Accepts, Newest
    <3>. QED  BY <1>5, <3>1 DEF Groups!ProjectedEntry
  <2>. HIDE DEF v, R
  <2>4. x \in Facade
    BY <1>1, <2>2 DEF Facade
  <2>5. /\ x.revision = v.revision /\ x.listed = R /\ x.chat = v.chat
        /\ x.loading = v.loading /\ x.departure = v.departure
        /\ x.inFlight = v.inFlight /\ x.lookups = v.lookups /\ x.quarantined = v.quarantined
    BY <2>2 DEF Facade
  <2>6. r <= r
    OBVIOUS
  <2>7. Lists(w, x, r) /\ ~ x.quarantined
    BY <1>5, <2>2, <2>4, <2>5, <2>6 DEF Lists, Fades, Dims, Ends, Waits, R
  <2>. QED  BY <2>3, <2>7 DEF v, R
<1>. QED  BY <1>2, <1>3, <1>4, <1>5

LEMMA PresentLists ==
    ASSUME NEW w \in Facade, NEW r \in Nat, Ordered(w)
    PROVE  Lists(w, Groups!MergedPresent(w, r), r)
<1>. DEFINE v == Groups!ProjectedItem(w, r)
            e == Groups!ProjectedEntry(w, r)
            P == Groups!CurrentProjection(w)
            x == [v EXCEPT !.listed = P]
<1>1. Groups!MergedPresent(w, r) = [v EXCEPT !.listed = IF e.kind # "none" THEN e ELSE P]
  BY DEF Groups!MergedPresent
<1>2. CASE e = Groups!Real(r) /\ Lists(w, [v EXCEPT !.listed = e], r)
  BY <1>1, <1>2 DEF Groups!Real
<1>3. CASE e \in {Groups!Nothing, P} /\ Fades(w, v)
  <2>1. Groups!MergedPresent(w, r) = x
    BY <1>1, <1>3 DEF Groups!Nothing
  <2>2. P \in Groups!Shown
    BY ContextTypes
  <2>3. v \in Facade
    BY <1>3 DEF Fades, Dims
  <2>. HIDE DEF v, P
  <2>4. x \in Facade
    BY <2>2, <2>3 DEF Facade
  <2>5. /\ x.revision = v.revision /\ x.listed = P /\ x.chat = v.chat
        /\ x.loading = v.loading /\ x.departure = v.departure
        /\ x.inFlight = v.inFlight /\ x.lookups = v.lookups
    BY <2>3 DEF Facade
  <2>. QED  BY <1>3, <2>1, <2>4, <2>5 DEF Lists, Fades, Dims, Ends, Waits, Faded, P
<1>. QED  BY <1>2, <1>3, EntryFacts

LEMMA AbsentFades ==
    ASSUME Past, NEW w \in Facade
    PROVE  Fades(w, Groups!MergedAbsent(w))
<1>. DEFINE c == Groups!ContextOf(w)
            s == [w EXCEPT !.stale = TRUE]
            v == Groups!ClearedLocally(s)
            q == IF ~ v.quarantined THEN Groups!Quarantined(v, c)
                 ELSE IF ~ v.context.set /\ c.selected THEN [v EXCEPT !.context = c] ELSE v
            p == Groups!WithContext(q, c)
            u == IF c.selected /\ ~ q.inFlight THEN Groups!Requesting(p, q.revision) ELSE q
            e == IF u.quarantined THEN Groups!Placeholder(u.revision) ELSE Groups!Nothing
            x == [u EXCEPT !.listed = e]
            n == [w EXCEPT !.listed = Groups!Nothing]
<1>1. Groups!MergedAbsent(w) = IF Groups!CurrentProjection(w).kind = "none" THEN n ELSE x
  BY DEF Groups!MergedAbsent
<1>2. c \in Groups!Context
  BY ContextTypes
<1>3. Groups!Nothing \in Groups!Shown /\ Groups!Nothing.kind # "real" /\ Groups!Nothing.rev = 0
  BY DEF Groups!Nothing, Groups!Shown
<1>. HIDE DEF c
<1>4. Fades(w, s) /\ s \in Facade
  <2>1. s \in Facade
    BY DEF Facade
  <2>2. /\ s.revision = w.revision /\ s.listed = w.listed /\ s.chat = w.chat
        /\ s.loading = w.loading /\ s.departure = w.departure
        /\ s.inFlight = w.inFlight /\ s.lookups = w.lookups /\ w.revision \in Nat
    BY DEF Facade
  <2>. QED  BY <2>1, <2>2 DEF Fades, Dims, Ends, Waits
<1>. HIDE DEF s
<1>5. Fades(w, v) /\ v \in Facade
  BY <1>4, ClearedFades, FadesOn DEF Fades, Dims
<1>. HIDE DEF v
<1>6. Fades(v, q) /\ q \in Facade
  BY <1>2, <1>5, QuarantinedFades, WithContextFades, StillFades DEF Fades, Dims
<1>7. Fades(w, q) /\ q.revision \in Nat
  BY <1>5, <1>6, FadesOn DEF Facade
<1>. HIDE DEF q
<1>8. Fades(q, p) /\ p \in Facade
  BY <1>2, <1>6, WithContextFades, StillFades DEF Groups!WithContext
<1>. HIDE DEF p
<1>9. Fades(w, Groups!Requesting(p, q.revision))
  <2>1. Fades(w, p)
    BY <1>6, <1>7, <1>8, FadesOn
  <2>. QED  BY <1>7, <1>8, <2>1, RequestingFades, FadesOn
<1>10. Fades(w, u) /\ u \in Facade /\ u.revision \in Nat
  BY <1>7, <1>9 DEF Fades, Dims, Facade
<1>. HIDE DEF u
<1>11. e \in Groups!Shown /\ e.kind # "real" /\ e.rev <= u.revision
  BY <1>3, <1>10 DEF Groups!Placeholder, Groups!Shown
<1>. HIDE DEF e
<1>12. Fades(w, x)
  <2>1. x \in Facade
    BY <1>10, <1>11 DEF Facade
  <2>2. /\ x.revision = u.revision /\ x.listed = e /\ x.chat = u.chat
        /\ x.loading = u.loading /\ x.departure = u.departure
        /\ x.inFlight = u.inFlight /\ x.lookups = u.lookups
    BY <1>10 DEF Facade
  <2>. QED  BY <1>10, <1>11, <2>1, <2>2 DEF Fades, Dims, Ends, Waits, Faded
<1>13. Fades(w, n)
  <2>1. n \in Facade
    BY <1>3 DEF Facade
  <2>2. /\ n.revision = w.revision /\ n.listed = Groups!Nothing /\ n.chat = w.chat
        /\ n.loading = w.loading /\ n.departure = w.departure
        /\ n.inFlight = w.inFlight /\ n.lookups = w.lookups /\ w.revision \in Nat
    BY DEF Facade
  <2>. QED  BY <1>3, <2>1, <2>2 DEF Fades, Dims, Ends, Waits, Faded
<1>. QED  BY <1>1, <1>12, <1>13

\* The chat that is open follows the list.
LEMMA RefreshedLists ==
    ASSUME NEW w \in Facade, NEW r \in Nat, NEW v, Lists(w, v, r)
    PROVE  LET x == Groups!Refreshed(v) IN Lists(w, x, r) /\ ~ x.list.set
<1>. DEFINE n == [v EXCEPT !.list = Groups!NoList]
            m == [n EXCEPT !.chat = n.listed]
            u == Groups!Unsubscribed(n)
            top == Groups!MaxOf(n.chat.rev, n.revision)
            x == Groups!Removed(u, top)
<1>1. v \in Facade
  BY DEF Lists
<1>2. n \in Facade
  BY <1>1 DEF Facade, Groups!NoList
<1>3. /\ n.revision = v.revision /\ n.listed = v.listed /\ n.chat = v.chat
      /\ n.loading = v.loading /\ n.departure = v.departure
      /\ n.inFlight = v.inFlight /\ n.lookups = v.lookups /\ ~ n.list.set
  BY <1>1 DEF Facade, Groups!NoList
<1>4. Groups!Refreshed(v) = IF ~ Groups!IsSelected(n) THEN n
                            ELSE IF n.listed.kind # "none" THEN m
                            ELSE IF n.removed # 0 /\ n.removed >= top /\ ~ n.quarantined THEN n
                            ELSE x
  BY DEF Groups!Refreshed
<1>. HIDE DEF n
<1>5. Lists(w, n, r)
  BY <1>2, <1>3 DEF Lists, Ends, Waits, Faded
<1>6. Lists(w, m, r) /\ ~ m.list.set
  <2>1. m \in Facade
    BY <1>2 DEF Facade
  <2>2. /\ m.revision = n.revision /\ m.listed = n.listed /\ m.chat = n.listed
        /\ m.loading = n.loading /\ m.departure = n.departure
        /\ m.inFlight = n.inFlight /\ m.lookups = n.lookups /\ m.list = n.list
    BY <1>2 DEF Facade
  <2>. QED  BY <1>3, <1>5, <2>1, <2>2 DEF Lists, Ends, Waits, Faded
<1>. HIDE DEF m
<1>7. CASE Groups!IsSelected(n) /\ n.listed.kind = "none"
  <2>1. top \in Nat
    BY <1>2 DEF Groups!MaxOf, Facade, Groups!Shown
  <2>2. Fades(n, u) /\ u \in Facade /\ ~ u.list.set
    BY <1>2, <1>3, UnsubscribedFades DEF Fades, Dims
  <2>. HIDE DEF top, u
  <2>3. Fades(n, x) /\ ~ x.list.set
    BY <1>2, <2>1, <2>2, RemovedFades, FadesOn
  <2>. HIDE DEF x
  <2>4. n.chat # n.listed
    BY <1>7 DEF Groups!IsSelected
  <2>5. n.revision \in Nat /\ w.revision \in Nat /\ x.revision \in Nat
        /\ n.chat.rev \in Nat /\ n.listed.rev \in Nat
    BY <1>2, <2>3 DEF Fades, Dims, Facade, Groups!Shown
  <2>6. n.listed.kind # "real"
    BY <1>7
  <2>7. x.listed = n.listed \/ Faded(x.listed, x)
    BY <2>3 DEF Fades, Dims
  <2>8. x.chat = w.chat \/ Faded(x.chat, x)
    BY <1>5, <2>3, <2>4, <2>5 DEF Fades, Dims, Faded, Lists
  <2>9. x.listed \in {w.listed, Groups!CurrentProjection(w)} \/ Faded(x.listed, x)
    BY <1>5, <2>3, <2>5, <2>6, <2>7 DEF Fades, Dims, Faded, Lists, Groups!Real
  <2>10. x \in Facade /\ w.revision <= x.revision /\ Ends(w, x) /\ (Waits(w) => Waits(x))
    BY <1>5, <2>3, <2>5 DEF Fades, Dims, Ends, Lists
  <2>11. Lists(w, x, r)
    BY <2>8, <2>9, <2>10 DEF Lists
  <2>. QED  BY <1>3, <1>4, <1>5, <1>7, <2>3, <2>11 DEF x
<1>. QED  BY <1>3, <1>4, <1>5, <1>6, <1>7

-----------------------------------------------------------------------------
\* The invariant of a group: every lookup, departure and busy sign has something under
\* way that ends it.
Tracked ==
    /\ Waits(access)
    /\ access.departure.set => leaving # "none"
    /\ access.loading => access.departure.set \/ edit.phase # "none"
AccessInv ==
    /\ Past /\ events \subseteq [rev : Nat, deleted : BOOLEAN]
    /\ edit \in [phase : {"none", "sent", "committed"}, rev : Nat]
    /\ access \in Facade /\ Ordered(access) /\ Tracked

AccessStep ==
    /\ AccessInv'
    /\ edit' = edit => NoOlder(access, access') /\ Returning(access, access')
    /\ Verified(access, access')

\* A step of the facade after which a departure that is not answered still is not.
LEMMA TurnsStep ==
    ASSUME AccessInv, Turns(access, access'), UNCHANGED <<member, edit>>,
           events' \subseteq events, access'.departure.set => leaving' # "none"
    PROVE  AccessStep
<1>1. Past' /\ events' \subseteq [rev : Nat, deleted : BOOLEAN]
      /\ edit' \in [phase : {"none", "sent", "committed"}, rev : Nat]
  BY DEF AccessInv, Past
<1>2. access' \in Facade /\ Ordered(access')
  BY DEF Turns, Turn
<1>3. Tracked'
  BY DEF AccessInv, Tracked, Turns, Turn, Ends
<1>. QED  BY <1>1, <1>2, <1>3 DEF AccessStep, AccessInv, Turns, Turn, Ordered

\* The server.
LEMMA CommitStep ==
    ASSUME AccessInv, access' = access,
           edit' \in [phase : {"none", "sent", "committed"}, rev : Nat],
           edit.phase # "none" => edit'.phase # "none",
           leaving # "none" => leaving' # "none",
           NEW m \in BOOLEAN, NEW deleted \in BOOLEAN, Groups!Commit(m, deleted)
    PROVE  AccessStep
<1>1. PICK n \in Nat \ {0} : member \in [1 .. n -> BOOLEAN]
  BY DEF AccessInv, Past
<1>2. Groups!Latest = n
  BY <1>1, LatestIs DEF Groups!Latest, Groups!Revision
<1>3. member' \in [1 .. n + 1 -> BOOLEAN]
  BY <1>1, <1>2 DEF Groups!Commit
<1>4. Past'
  BY <1>3 DEF Past
<1>5. events' \subseteq [rev : Nat, deleted : BOOLEAN]
  <2>1. [rev |-> n + 1, deleted |-> deleted] \in [rev : Nat, deleted : BOOLEAN]
    BY <1>1
  <2>2. events' \subseteq events \cup {[rev |-> n + 1, deleted |-> deleted]}
    BY <1>2 DEF Groups!Commit
  <2>. QED  BY <2>1, <2>2 DEF AccessInv
<1>6. Turns(access, access)
  BY StillFades, FadesTurns DEF AccessInv
<1>7. Ordered(access)' /\ Tracked'
  BY DEF AccessInv, Ordered, Tracked, Waits
<1>. QED  BY <1>4, <1>5, <1>6, <1>7 DEF AccessStep, AccessInv, Turns, Turn

LEMMA ServerStep ==
    ASSUME AccessInv, Groups!OthersChange \/ Groups!LeaveCommits \/ Groups!EditCommits
    PROVE  AccessStep
<1>1. Groups!Latest \in Nat
  BY LatestType DEF AccessInv
<1>2. CASE Groups!OthersChange
  <2>1. PICK m \in BOOLEAN : Groups!Commit(m, FALSE)
    BY <1>2 DEF Groups!OthersChange
  <2>. QED  BY <1>2, <2>1, CommitStep DEF Groups!OthersChange, AccessInv
<1>3. CASE Groups!LeaveCommits
  <2>1. PICK deleted \in BOOLEAN : Groups!Commit(FALSE, deleted)
    BY <1>3 DEF Groups!LeaveCommits
  <2>. QED  BY <1>3, <2>1, CommitStep DEF Groups!LeaveCommits, AccessInv
<1>4. CASE Groups!EditCommits
  <2>1. /\ Groups!Commit(TRUE, FALSE) /\ UNCHANGED <<leaving, access>>
        /\ edit' = [phase |-> "committed", rev |-> Groups!Latest + 1]
    BY <1>4 DEF Groups!EditCommits
  <2>2. edit' \in [phase : {"none", "sent", "committed"}, rev : Nat]
        /\ edit'.phase # "none"
    BY <1>1, <2>1
  <2>. QED  BY <2>1, <2>2, CommitStep
<1>. QED  BY <1>2, <1>3, <1>4

\* The user.
LEMMA NavigatedFades ==
    ASSUME NEW w \in Facade
    PROVE  LET v == Groups!Navigated(w)
           IN  /\ v \in Facade /\ Fades(w, v) /\ v.revision = w.revision
               /\ v.listed = w.listed /\ v.chat = w.chat /\ v.list = w.list
               /\ v.removed = w.removed
<1>. DEFINE v == Groups!Navigated(w)
<1>1. v \in Facade
  BY DEF Facade, Groups!Navigated, Groups!Context
<1>2. /\ v.revision = w.revision /\ v.listed = w.listed /\ v.chat = w.chat
      /\ v.loading = w.loading /\ v.departure.set = w.departure.set
      /\ v.inFlight = w.inFlight /\ v.lookups = w.lookups /\ w.revision \in Nat
      /\ v.list = w.list /\ v.removed = w.removed
  BY DEF Facade, Groups!Navigated
<1>. QED  BY <1>1, <1>2 DEF Fades, Dims, Ends, Waits

LEMMA SelectStep ==
    ASSUME AccessInv, Groups!SelectGroup \/ Groups!LeaveChat
    PROVE  AccessStep
<1>. DEFINE n == Groups!Navigated(access)
            e == access.listed
            v == Groups!Selecting(n, e)
<1>1. access \in Facade /\ Ordered(access) /\ Past /\ e \in Groups!Shown
  BY DEF AccessInv, Facade
<1>2. /\ n \in Facade /\ Fades(access, n) /\ n.revision = access.revision
      /\ n.listed = access.listed /\ n.chat = access.chat /\ n.list = access.list
      /\ n.removed = access.removed
  BY <1>1, NavigatedFades
<1>3. UNCHANGED <<member, events, leaving, edit>>
  BY DEF Groups!SelectGroup, Groups!LeaveChat, Groups!server
<1>. HIDE DEF n
<1>4. Turns(access, access')
  <2>1. CASE Groups!SelectGroup /\ e.kind = "placeholder"
    <3>1. access' = v
      BY <2>1 DEF Groups!SelectGroup, n
    <3>2. Fades(n, v)
      BY <1>1, <1>2, <2>1, SelectingPlaceholder DEF Ordered
    <3>. HIDE DEF v
    <3>. QED  BY <1>1, <1>2, <3>1, <3>2, FadesOn, FadesTurns
  <2>2. CASE Groups!SelectGroup /\ e.kind # "placeholder"
    <3>1. access' = v /\ e.kind # "none"
      BY <2>2 DEF Groups!SelectGroup, n
    <3>2. /\ v \in Facade /\ v.revision = n.revision /\ v.chat = e /\ v.listed = e
          /\ v.loading = n.loading /\ v.departure = n.departure
          /\ v.inFlight = n.inFlight /\ v.lookups = n.lookups
      BY <1>1, <1>2, <2>2, SelectingEntry DEF Ordered
    <3>. HIDE DEF v
    <3>3. e.rev \in Nat /\ access.chat.rev \in Nat /\ access.revision \in Nat
      BY <1>1 DEF Facade, Groups!Shown
    <3>4. Ends(access, v) /\ (Waits(access) => Waits(v))
      BY <1>2, <3>2 DEF Fades, Dims, Ends, Waits
    <3>5. Ordered(v) /\ NoOlder(access, v)
      BY <1>1, <1>2, <3>2, <3>3 DEF Ordered, NoOlder
    <3>6. Returning(access, v) /\ Verified(access, v)
      BY <3>2, Seen DEF Returning, Verified
    <3>. QED  BY <3>1, <3>2, <3>4, <3>5, <3>6 DEF Turns, Turn
  <2>3. CASE Groups!LeaveChat
    <3>1. PICK c \in {Groups!Nothing, Groups!Other} : access' = [n EXCEPT !.chat = c]
      BY <2>3 DEF Groups!LeaveChat, n
    <3>2. c \in Groups!Shown /\ c.kind # "real" /\ c.rev = 0
      BY DEF Groups!Nothing, Groups!Other, Groups!Shown
    <3>3. access' \in Facade
      BY <1>2, <3>1, <3>2 DEF Facade
    <3>4. LET x == access'
          IN  /\ x.revision = n.revision /\ x.listed = n.listed /\ x.chat = c
              /\ x.loading = n.loading /\ x.departure = n.departure
              /\ x.inFlight = n.inFlight /\ x.lookups = n.lookups /\ n.revision \in Nat
      BY <1>2, <3>1 DEF Facade
    <3>5. Fades(n, access')
      BY <3>2, <3>3, <3>4 DEF Fades, Dims, Ends, Waits, Faded
    <3>. QED  BY <1>1, <1>2, <3>5, FadesOn, FadesTurns
  <2>. QED  BY <2>1, <2>2, <2>3
<1>5. access'.departure.set => leaving' # "none"
  BY <1>3, <1>4 DEF AccessInv, Tracked, Turns, Ends
<1>. QED  BY <1>3, <1>4, <1>5, TurnsStep

LEMMA FadesStep ==
    ASSUME AccessInv, Fades(access, access'), UNCHANGED <<member, edit>>,
           events' \subseteq events,
           UNCHANGED leaving \/ ~ access'.departure.set
    PROVE  AccessStep
<1>1. Turns(access, access')
  BY FadesTurns DEF AccessInv
<1>2. access'.departure.set => leaving' # "none"
  BY DEF Fades, Ends, AccessInv, Tracked
<1>. QED  BY <1>1, <1>2, TurnsStep

\* A departure is begun by a user whom no answer to one can reach any more.
LEMMA DepartStep ==
    ASSUME AccessInv, Groups!Depart
    PROVE  AccessStep
<1>. DEFINE r == Groups!MaxOf(access.revision, Groups!Projection(access).rev)
            c == Groups!ContextOf(access)
            n == [access EXCEPT !.loading = TRUE]
            m == [access EXCEPT !.loading = TRUE, !.revision = r,
                                !.context = Groups!NoContext,
                                !.departure = [set |-> TRUE, revision |-> r,
                                               context |-> c, observed |-> FALSE]]
            u == Groups!Unsubscribed(m)
<1>1. access \in Facade /\ Ordered(access) /\ access.revision \in Nat /\ Waits(access)
  BY DEF AccessInv, Tracked, Facade
<1>2. c \in Groups!Context /\ Groups!Projection(access) \in Groups!Shown
  BY <1>1, ContextTypes
<1>3. r \in Nat /\ access.revision <= r /\ Groups!NoContext \in Groups!Context
  BY <1>1, <1>2 DEF Groups!MaxOf, Groups!Shown, Groups!NoContext, Groups!Context
<1>4. /\ access' = IF access.departure.set THEN n ELSE u
      /\ leaving' = "sent" /\ UNCHANGED <<member, events, edit>>
  BY DEF Groups!Depart
<1>. HIDE DEF r, c
<1>5. n \in Facade /\ m \in Facade
  BY <1>1, <1>2, <1>3 DEF Facade
<1>6. /\ n.revision = access.revision /\ n.listed = access.listed /\ n.chat = access.chat
      /\ n.inFlight = access.inFlight /\ n.lookups = access.lookups
      /\ n.departure = access.departure
      /\ m.revision = r /\ m.listed = access.listed /\ m.chat = access.chat
      /\ m.inFlight = access.inFlight /\ m.lookups = access.lookups /\ m.departure.set
  BY <1>1 DEF Facade
<1>. HIDE DEF n, m
<1>7. Dims(access, n)
  BY <1>1, <1>5, <1>6 DEF Dims, Waits
<1>8. Dims(access, u)
  <2>1. /\ u \in Facade /\ u.revision = r /\ u.listed = access.listed
        /\ u.chat = access.chat /\ (Waits(m) => Waits(u))
    BY <1>5, <1>6, UnsubscribedFades DEF Fades, Dims
  <2>. HIDE DEF u
  <2>. QED  BY <1>1, <1>3, <1>6, <2>1 DEF Dims, Waits
<1>9. access'.departure.set
  <2>1. u.departure = m.departure
    BY <1>5 DEF Groups!Unsubscribed, Facade
  <2>. QED  BY <1>4, <1>6, <2>1
<1>10. Turn(access, access')
  BY <1>1, <1>4, <1>7, <1>8, DimsTurns
<1>11. Tracked'
  <2>1. Waits(access')
    BY <1>1, <1>10 DEF Turn
  <2>. QED  BY <1>4, <1>9, <2>1 DEF Tracked, Waits
<1>12. Past' /\ Ordered(access)' /\ access' \in Facade
  BY <1>4, <1>10 DEF AccessInv, Past, Turn, Ordered
<1>. QED  BY <1>4, <1>10, <1>11, <1>12 DEF AccessStep, AccessInv, Turn

LEMMA EditStep ==
    ASSUME AccessInv, Groups!Edit \/ Groups!EditFails
    PROVE  AccessStep
<1>1. access \in Facade /\ Ordered(access) /\ access.revision \in Nat /\ Waits(access)
  BY DEF AccessInv, Tracked, Facade
<1>2. PICK b \in BOOLEAN :
        /\ access' = [access EXCEPT !.loading = b]
        /\ edit'.phase # "none" \/ ~ b
        /\ edit' \in [phase : {"none", "sent", "committed"}, rev : Nat]
        /\ UNCHANGED <<member, events, leaving>>
  <2>1. CASE Groups!Edit
    <3>1. /\ access' = [access EXCEPT !.loading = TRUE]
          /\ edit' = [phase |-> "sent", rev |-> 0]
          /\ UNCHANGED <<member, events, leaving>>
      BY <2>1 DEF Groups!Edit
    <3>2. edit' \in [phase : {"none", "sent", "committed"}, rev : Nat]
          /\ edit'.phase # "none"
      BY <3>1
    <3>. QED  BY <3>1, <3>2
  <2>2. CASE Groups!EditFails
    <3>1. /\ access' = [access EXCEPT !.loading = FALSE]
          /\ edit' = [phase |-> "none", rev |-> 0]
          /\ UNCHANGED <<member, events, leaving>>
      BY <2>2 DEF Groups!EditFails
    <3>2. edit' \in [phase : {"none", "sent", "committed"}, rev : Nat]
      BY <3>1
    <3>. QED  BY <3>1, <3>2
  <2>. QED  BY <2>1, <2>2
<1>3. access' \in Facade
  BY <1>1, <1>2 DEF Facade
<1>4. LET x == access'
      IN  /\ x.revision = access.revision /\ x.listed = access.listed
          /\ x.chat = access.chat /\ x.departure = access.departure
          /\ x.inFlight = access.inFlight /\ x.lookups = access.lookups
          /\ x.loading => edit'.phase # "none"
  BY <1>1, <1>2 DEF Facade
<1>5. Dims(access, access')
  BY <1>1, <1>3, <1>4 DEF Dims, Waits
<1>6. Turn(access, access')
  BY <1>1, <1>5, DimsTurns
<1>7. Tracked'
  BY <1>2, <1>4 DEF AccessInv, Tracked, Waits
<1>8. Past' /\ Ordered(access)'
  BY <1>2, <1>6 DEF AccessInv, Past, Turn, Ordered
<1>. QED  BY <1>2, <1>3, <1>6, <1>7, <1>8 DEF AccessStep, AccessInv, Turn

LEMMA RefreshStep ==
    ASSUME AccessInv, Groups!RefreshChats \/ Groups!LoadMoreGroups \/ Groups!ConversationCreated
    PROVE  AccessStep
<1>1. access \in Facade /\ access.revision \in Nat /\ Past
  BY DEF AccessInv, Facade
<1>2. UNCHANGED <<member, events, leaving, edit>>
  BY DEF Groups!RefreshChats, Groups!LoadMoreGroups, Groups!ConversationCreated, Groups!server
<1>3. Fades(access, access')
  <2>1. CASE Groups!RefreshChats
    <3>. DEFINE u == Groups!Requesting(access, access.revision)
    <3>1. Fades(access, u) /\ u \in Facade
      BY <1>1, RequestingFades DEF Fades, Dims
    <3>2. Fades(access, Groups!Refreshing(u))
      BY <1>1, <3>1, RefreshingFades, FadesOn
    <3>3. Fades(access, Groups!Refreshing(access))
      BY <1>1, RefreshingFades
    <3>4. access' \in {Groups!Refreshing(u), Groups!Refreshing(access)}
      BY <2>1 DEF Groups!RefreshChats
    <3>. QED  BY <3>2, <3>3, <3>4
  <2>2. CASE Groups!LoadMoreGroups
    <3>1. access' = [access EXCEPT !.page = Groups!Asked] /\ Groups!Latest \in Nat
      BY <1>1, <2>2, LatestType DEF Groups!LoadMoreGroups
    <3>2. access' \in Facade
      BY <1>1, <3>1 DEF Facade, Groups!Asked
    <3>3. LET x == access'
          IN  /\ x.revision = access.revision /\ x.listed = access.listed
              /\ x.chat = access.chat /\ x.departure = access.departure
              /\ x.inFlight = access.inFlight /\ x.lookups = access.lookups
              /\ x.loading = access.loading
      BY <1>1, <3>1 DEF Facade
    <3>. QED  BY <1>1, <3>2, <3>3 DEF Fades, Dims, Ends, Waits
  <2>3. CASE Groups!ConversationCreated
    <3>. DEFINE v == Groups!Refreshing(access)
                c == Groups!ContextOf(v)
                u == Groups!WithContext(v, c)
    <3>1. Fades(access, v) /\ v \in Facade /\ v.revision \in Nat
      BY <1>1, RefreshingFades DEF Fades, Dims
    <3>2. access' = Groups!Requesting(u, v.revision)
      BY <2>3 DEF Groups!ConversationCreated
    <3>. HIDE DEF v
    <3>3. c \in Groups!Context
      BY <3>1, ContextTypes
    <3>. HIDE DEF c
    <3>4. Fades(v, u) /\ u \in Facade
      BY <3>1, <3>3, WithContextFades, StillFades DEF Groups!WithContext
    <3>5. Fades(access, u)
      BY <1>1, <3>1, <3>4, FadesOn
    <3>. HIDE DEF u
    <3>6. Fades(access, Groups!Requesting(u, v.revision))
      BY <1>1, <3>1, <3>4, <3>5, RequestingFades, FadesOn
    <3>. QED  BY <3>2, <3>6
  <2>. QED  BY <2>1, <2>2, <2>3
<1>. QED  BY <1>2, <1>3, FadesStep


\* What a membership event, and the answer to a leave, may do to a group.
LEMMA MembershipStep ==
    ASSUME AccessInv, NEW e, Groups!MembershipChanged(e)
    PROVE  AccessStep
<1>. DEFINE known == Groups!MaxOf(access.revision, Groups!Projection(access).rev)
            a == [access EXCEPT !.revision = e.rev]
            n == [a EXCEPT !.requested = Groups!MaxOf(@, e.rev)]
            b == IF a.inFlight THEN Groups!Superseded(n) ELSE a
            c == Groups!Projected(b)
            f == [c EXCEPT !.removed = 0]
            d == IF c.removed # 0 /\ e.rev > c.removed THEN f ELSE c
            o == c.departure.observed \/ (c.departure.set /\ known = c.departure.revision)
            s == [c EXCEPT !.departure.observed = o]
            u == Groups!Unsubscribed(s)
            x == Groups!ContextOf(access)
            q == Groups!Quarantined(d, x)
<1>1. access \in Facade /\ access.revision \in Nat /\ Past /\ e.rev \in Nat
  BY DEF AccessInv, Facade, Groups!MembershipChanged
<1>2. x \in Groups!Context /\ Groups!Projection(access).rev \in Nat
  BY <1>1, ContextTypes DEF Groups!Shown
<1>3. UNCHANGED <<member, leaving, edit>> /\ events' \subseteq events
  BY DEF Groups!MembershipChanged
<1>4. access' = IF e.rev <= known THEN access
                ELSE IF e.deleted THEN Groups!Removed(u, e.rev)
                ELSE Groups!Requesting(q, e.rev)
  BY DEF Groups!MembershipChanged
<1>5. CASE e.rev <= known
  BY <1>1, <1>3, <1>4, <1>5, StillFades, FadesStep
<1>6. CASE ~ (e.rev <= known)
  <2>1. access.revision <= e.rev
    BY <1>1, <1>2, <1>6 DEF Groups!MaxOf
  <2>. HIDE DEF x, known
  <2>2. a \in Facade
    BY <1>1 DEF Facade
  <2>3. /\ a.revision = e.rev /\ a.listed = access.listed /\ a.chat = access.chat
        /\ a.loading = access.loading /\ a.departure = access.departure
        /\ a.inFlight = access.inFlight /\ a.lookups = access.lookups
    BY <1>1 DEF Facade
  <2>. HIDE DEF a
  <2>4. Fades(access, a)
    BY <1>1, <2>1, <2>2, <2>3 DEF Fades, Dims, Ends, Waits
  <2>5. Groups!MaxOf(a.requested, e.rev) \in Nat
    BY <1>1, <2>2 DEF Groups!MaxOf, Facade
  <2>6. n \in Facade
    BY <2>2, <2>5 DEF Facade
  <2>7. /\ n.revision = a.revision /\ n.listed = a.listed /\ n.chat = a.chat
        /\ n.loading = a.loading /\ n.departure = a.departure
        /\ n.inFlight = a.inFlight /\ n.lookups = a.lookups /\ a.revision \in Nat
    BY <2>2 DEF Facade
  <2>. HIDE DEF n
  <2>8. Fades(a, n)
    BY <2>2, <2>6, <2>7 DEF Fades, Dims, Ends, Waits
  <2>9. Fades(a, b) /\ b \in Facade
    BY <2>2, <2>6, <2>8, SupersededFades, StillFades, FadesOn DEF Fades, Dims
  <2>10. Fades(access, b)
    BY <1>1, <2>4, <2>9, FadesOn
  <2>. HIDE DEF b
  <2>11. Fades(access, c) /\ c \in Facade
    BY <1>1, <2>9, <2>10, ProjectedFades, FadesOn DEF Fades, Dims
  <2>. HIDE DEF c
  <2>12. CASE e.deleted
    <3>1. s \in Facade
      <4>1. o \in BOOLEAN
        BY <2>11 DEF Facade
      <4>. HIDE DEF o
      <4>. QED  BY <2>11, <4>1 DEF Facade
    <3>2. /\ s.revision = c.revision /\ s.listed = c.listed /\ s.chat = c.chat
          /\ s.loading = c.loading /\ s.departure.set = c.departure.set
          /\ s.inFlight = c.inFlight /\ s.lookups = c.lookups /\ c.revision \in Nat
      BY <2>11 DEF Facade
    <3>3. access' = Groups!Removed(u, e.rev)
      BY <1>4, <1>6, <2>12
    <3>. HIDE DEF s
    <3>4. Fades(access, s)
      <4>1. Fades(c, s)
        BY <2>11, <3>1, <3>2 DEF Fades, Dims, Ends, Waits
      <4>. QED  BY <1>1, <2>11, <4>1, FadesOn
    <3>5. Fades(access, u) /\ u \in Facade
      BY <1>1, <3>1, <3>4, UnsubscribedFades, FadesOn DEF Fades, Dims
    <3>. HIDE DEF u
    <3>6. Fades(access, Groups!Removed(u, e.rev))
      BY <1>1, <3>5, RemovedFades, FadesOn
    <3>. QED  BY <1>3, <3>3, <3>6, FadesStep
  <2>13. CASE ~ e.deleted
    <3>1. f \in Facade
      BY <2>11 DEF Facade
    <3>2. /\ f.revision = c.revision /\ f.listed = c.listed /\ f.chat = c.chat
          /\ f.loading = c.loading /\ f.departure = c.departure
          /\ f.inFlight = c.inFlight /\ f.lookups = c.lookups /\ c.revision \in Nat
      BY <2>11 DEF Facade
    <3>3. access' = Groups!Requesting(q, e.rev)
      BY <1>4, <1>6, <2>13
    <3>. HIDE DEF f
    <3>4. Fades(access, f)
      <4>1. Fades(c, f)
        BY <2>11, <3>1, <3>2 DEF Fades, Dims, Ends, Waits
      <4>. QED  BY <1>1, <2>11, <4>1, FadesOn
    <3>5. Fades(access, d) /\ d \in Facade
      BY <2>11, <3>1, <3>4
    <3>. HIDE DEF d
    <3>6. Fades(access, q) /\ q \in Facade
      BY <1>1, <1>2, <3>5, QuarantinedFades, FadesOn DEF Fades, Dims
    <3>. HIDE DEF q
    <3>7. Fades(access, Groups!Requesting(q, e.rev))
      BY <1>1, <3>6, RequestingFades, FadesOn
    <3>. QED  BY <1>3, <3>3, <3>7, FadesStep
  <2>. QED  BY <2>12, <2>13
<1>. QED  BY <1>5, <1>6
LEMMA LeaveStep ==
    ASSUME AccessInv, Groups!LeaveSucceeds \/ Groups!LeaveFails
    PROVE  AccessStep
<1>. DEFINE dc == access.departure.context
            early == {[l EXCEPT !.early = TRUE] : l \in access.lookups}
            m == [access EXCEPT !.quarantined = TRUE, !.failed = FALSE, !.context = dc,
                                !.fence = access.departure.revision, !.reconcile = TRUE,
                                !.lookups = early]
            v == Groups!Unsubscribed(m)
            z == Groups!Departed(Groups!Superseded(v))
            rem == Groups!Removed(access, access.departure.revision)
            u == Groups!Unsubscribed(Groups!Quarantined(access, dc))
            f == Groups!Fetching(Groups!Superseded(u))
            Ended(x) == Fades(access, x) /\ ~ x.departure.set
<1>1. access \in Facade /\ access.revision \in Nat /\ Past
  BY DEF AccessInv, Facade
<1>2. UNCHANGED <<member, events, edit>>
  BY DEF Groups!LeaveSucceeds, Groups!LeaveFails
<1>3. dc \in Groups!Context /\ access.departure.revision \in Nat
      /\ access.departure.observed \in BOOLEAN /\ access.lookups \in Lookups
  BY <1>1 DEF Facade
<1>4. ASSUME NEW x \in Facade, Fades(access, x)
      PROVE  Ended(Groups!Departed(x))
  BY <1>1, <1>4, DepartedFades, FadesOn
<1>5. \/ access' \in {Groups!Departed(access), Groups!Fetching(z), Groups!Departed(rem),
                      Groups!Departed(f)}
      \/ /\ access' = access
         /\ ~ access.departure.set
  <2>1. CASE Groups!LeaveSucceeds
    <3>1. access' = IF ~ access.departure.set THEN access
                    ELSE IF access.departure.observed /\ access.removed # 0
                    THEN Groups!Departed(access)
                    ELSE IF access.revision > access.departure.revision
                    THEN Groups!Fetching(z) ELSE Groups!Departed(rem)
      BY <2>1 DEF Groups!LeaveSucceeds
    <3>. HIDE DEF z, rem, f
    <3>. QED  BY <3>1
  <2>2. CASE Groups!LeaveFails
    <3>1. access' = IF ~ access.departure.set THEN access
                    ELSE Groups!Departed(IF access.departure.observed THEN access ELSE f)
      BY <2>2 DEF Groups!LeaveFails
    <3>. HIDE DEF z, rem, f
    <3>. QED  BY <3>1
  <2>. QED  BY <2>1, <2>2
<1>6. Ended(Groups!Departed(access))
  BY <1>1, <1>4, StillFades
<1>7. Ended(Groups!Fetching(z))
  <2>1. early \in Lookups /\ (access.lookups # {} => early # {})
    BY <1>3, LookupsKept
  <2>. HIDE DEF early, dc
  <2>2. m \in Facade
    BY <1>1, <1>3, <2>1 DEF Facade
  <2>3. /\ m.revision = access.revision /\ m.listed = access.listed /\ m.chat = access.chat
        /\ m.loading = access.loading /\ m.departure = access.departure
        /\ m.inFlight = access.inFlight /\ m.lookups = early
    BY <1>1 DEF Facade
  <2>. HIDE DEF m
  <2>4. Fades(access, m)
    BY <1>1, <2>1, <2>2, <2>3 DEF Fades, Dims, Ends, Waits
  <2>5. Fades(access, v) /\ v \in Facade
    BY <1>1, <2>2, <2>4, UnsubscribedFades, FadesOn DEF Fades, Dims
  <2>. HIDE DEF v
  <2>6. Fades(access, Groups!Superseded(v)) /\ Groups!Superseded(v) \in Facade
    BY <1>1, <2>5, SupersededFades, FadesOn DEF Fades, Dims
  <2>7. Ended(z) /\ z \in Facade
    BY <1>4, <2>6 DEF Fades, Dims
  <2>. HIDE DEF z
  <2>8. Fades(z, Groups!Fetching(z)) /\ Fades(access, Groups!Fetching(z))
    BY <1>1, <2>7, FetchingFades, FadesOn
  <2>. QED  BY <2>7, <2>8 DEF Fades, Ends
<1>8. Ended(Groups!Departed(rem))
  <2>1. Fades(access, rem) /\ rem \in Facade
    BY <1>1, <1>3, RemovedFades DEF Fades, Dims
  <2>. QED  BY <1>4, <2>1
<1>9. Ended(Groups!Departed(f))
  <2>1. Fades(access, Groups!Quarantined(access, dc)) /\ Groups!Quarantined(access, dc) \in Facade
    BY <1>1, <1>3, QuarantinedFades DEF Fades, Dims
  <2>2. Fades(access, u) /\ u \in Facade
    BY <1>1, <2>1, UnsubscribedFades, FadesOn DEF Fades, Dims
  <2>. HIDE DEF u
  <2>3. Fades(access, Groups!Superseded(u)) /\ Groups!Superseded(u) \in Facade
    BY <1>1, <2>2, SupersededFades, FadesOn DEF Fades, Dims
  <2>4. Fades(access, f) /\ f \in Facade
    BY <1>1, <2>3, FetchingFades, FadesOn DEF Fades, Dims
  <2>. QED  BY <1>4, <2>4
<1>10. Ended(access')
  <2>1. Fades(access, access)
    BY <1>1, StillFades
  <2>. HIDE DEF z, rem, f
  <2>. QED  BY <1>5, <1>6, <1>7, <1>8, <1>9, <2>1
<1>. QED  BY <1>2, <1>10, FadesStep

\* The answer to the user's edit.
LEMMA EditedStep ==
    ASSUME AccessInv, Groups!EditAnswered
    PROVE  AccessStep
<1>. DEFINE r == edit.rev
            u == Groups!Upserted(access, r)
            x == [u EXCEPT !.loading = FALSE]
<1>1. /\ access \in Facade /\ access.revision \in Nat /\ Ordered(access) /\ Past /\ r \in Nat
      /\ Waits(access) /\ (access.departure.set => leaving # "none")
  BY DEF AccessInv, Facade, Tracked
<1>2. /\ access' = x /\ edit' = [phase |-> "none", rev |-> 0] /\ edit' # edit
      /\ UNCHANGED <<member, events, leaving>>
  BY DEF Groups!EditAnswered
<1>3. edit' \in [phase : {"none", "sent", "committed"}, rev : Nat]
  BY <1>2
<1>. HIDE DEF r
<1>4. /\ u \in Facade /\ Ends(access, u) /\ Waits(u) /\ Ordered(u)
      /\ u.quarantined => Groups!Visible(u) = {} \/ Groups!Visible(access) # {}
  <2>1. CASE Groups!Upserts(access, r)
    <3>1. /\ u \in Facade /\ access.revision <= u.revision /\ r <= u.revision
          /\ u.listed = Groups!Real(r)
          /\ u.chat = IF Groups!IsSelected(access) THEN Groups!Real(r) ELSE access.chat
          /\ ~ u.quarantined
          /\ Ends(access, u) /\ Waits(u)
      BY <1>1, <2>1, UpsertedFacts DEF Ordered
    <3>. HIDE DEF u
    <3>2. Groups!Real(r).rev = r /\ u.revision \in Nat /\ access.chat.rev \in Nat
      BY <1>1, <3>1 DEF Groups!Real, Facade, Groups!Shown
    <3>3. Groups!IsSelected(access) \/ access.chat.kind # "real"
      BY DEF Groups!IsSelected
    <3>. QED  BY <1>1, <3>1, <3>2, <3>3 DEF Ordered
  <2>2. CASE ~ Groups!Upserts(access, r)
    <3>1. u \in {access, Groups!Accepting(access, r)}
      BY <2>2 DEF Groups!Upserted
    <3>2. Fades(access, u)
      BY <1>1, <3>1, StillFades, AcceptingFacts
    <3>. HIDE DEF u
    <3>3. Turns(access, u)
      BY <1>1, <3>2, FadesTurns
    <3>4. Groups!Visible(u) # {} => Groups!Visible(access) # {}
      BY <3>2, Seen DEF Fades, Dims, Faded
    <3>. QED  BY <1>1, <3>3, <3>4 DEF Turns, Turn
  <2>. QED  BY <2>1, <2>2
<1>. HIDE DEF u
<1>5. x \in Facade
  BY <1>4 DEF Facade
<1>6. /\ x.revision = u.revision /\ x.listed = u.listed /\ x.chat = u.chat
      /\ ~ x.loading /\ x.departure = u.departure /\ x.quarantined = u.quarantined
      /\ x.inFlight = u.inFlight /\ x.lookups = u.lookups
  BY <1>4 DEF Facade
<1>. HIDE DEF x
<1>7. Groups!Visible(x) = Groups!Visible(u)
  BY <1>6 DEF Groups!Visible
<1>8. Verified(access, x) /\ Ordered(x) /\ Waits(x) /\ (x.departure.set => leaving # "none")
  BY <1>1, <1>4, <1>6, <1>7 DEF Verified, Ordered, Waits, Ends
<1>9. Tracked'
  BY <1>2, <1>6, <1>8 DEF Tracked
<1>10. Past'
  BY <1>1, <1>2 DEF Past
<1>. QED  BY <1>2, <1>3, <1>5, <1>8, <1>9, <1>10 DEF AccessStep, AccessInv

\* The answers to lookups.
LEMMA LookupStep ==
    ASSUME AccessInv, NEW l, Groups!LookupAnswers(l) \/ Groups!LookupFails(l)
    PROVE  AccessStep
<1>1. access \in Facade /\ Ordered(access) /\ Past /\ Groups!Latest \in Nat
  BY LatestType DEF AccessInv
<1>2. l \in Groups!Lookup /\ l.since \in Nat
  BY <1>1 DEF Groups!LookupAnswers, Groups!LookupFails, Facade, Lookups, Groups!Lookup
<1>3. UNCHANGED <<member, events, leaving, edit>>
  BY DEF Groups!LookupAnswers, Groups!LookupFails, Groups!server
<1>4. ASSUME NEW b \in BOOLEAN
      PROVE  Turns(access, Groups!FailedLookup(access, l, b))
  BY <1>1, <1>2, FailedTurns
<1>5. ASSUME NEW r \in Nat
      PROVE  Turns(access, Groups!Found(access, l, r))
  BY <1>1, <1>2, FoundTurns
<1>6. Turns(access, access')
  <2>1. CASE Groups!LookupAnswers(l)
    <3>1. PICK r \in l.since .. Groups!Latest :
            access' = IF member[r] THEN Groups!Found(access, l, r)
                      ELSE Groups!FailedLookup(access, l, TRUE)
      BY <2>1 DEF Groups!LookupAnswers
    <3>2. r \in Nat
      BY <1>1, <1>2
    <3>. QED  BY <1>4, <1>5, <3>1, <3>2
  <2>2. CASE Groups!LookupFails(l)
    BY <1>4, <2>2 DEF Groups!LookupFails
  <2>. QED  BY <2>1, <2>2
<1>7. access'.departure.set => leaving' # "none"
  BY <1>3, <1>6 DEF Turns, Ends, AccessInv, Tracked
<1>. QED  BY <1>3, <1>6, <1>7, TurnsStep
\* The answers to lists and pages.
LEMMA ListStep ==
    ASSUME AccessInv, Groups!ListAnswers
    PROVE  AccessStep
<1>. DEFINE n == [access EXCEPT !.list = Groups!Asked]
<1>1. access \in Facade /\ Ordered(access) /\ Past /\ Groups!Latest \in Nat
  BY LatestType DEF AccessInv
<1>2. UNCHANGED <<member, events, leaving, edit>> /\ access.list.set
  BY DEF Groups!ListAnswers, Groups!server
<1>3. CASE access' = n
  <2>1. access' \in Facade
    BY <1>1, <1>3 DEF Facade, Groups!Asked
  <2>2. LET x == access'
        IN  /\ x.revision = access.revision /\ x.listed = access.listed
            /\ x.chat = access.chat /\ x.departure = access.departure
            /\ x.inFlight = access.inFlight /\ x.lookups = access.lookups
            /\ x.loading = access.loading /\ access.revision \in Nat
    BY <1>1, <1>3 DEF Facade
  <2>3. Fades(access, access')
    BY <2>1, <2>2 DEF Fades, Dims, Ends, Waits
  <2>. QED  BY <1>2, <2>3, FadesStep
<1>4. ASSUME NEW r \in Nat, NEW v, Lists(access, v, r), access' = Groups!Refreshed(v)
      PROVE  AccessStep
  <2>1. Lists(access, access', r) /\ ~ access'.list.set
    BY <1>1, <1>4, RefreshedLists
  <2>2. Verified(access, access')
    BY <1>2, <2>1 DEF Verified
  <2>3. Turns(access, access')
    BY <1>1, <2>1, <2>2, ListsTurns DEF Turns, Lists
  <2>4. access'.departure.set => leaving' # "none"
    BY <1>2, <2>3 DEF Turns, Ends, AccessInv, Tracked
  <2>. QED  BY <1>2, <2>3, <2>4, TurnsStep
<1>5. CASE \E r \in access.list.since .. Groups!Latest :
              \/ access' = Groups!Refreshed(Groups!MergedPresent(access, r))
              \/ access' = Groups!Refreshed(Groups!MergedAbsent(access))
  <2>1. PICK r \in access.list.since .. Groups!Latest :
              \/ access' = Groups!Refreshed(Groups!MergedPresent(access, r))
              \/ access' = Groups!Refreshed(Groups!MergedAbsent(access))
    BY <1>5
  <2>2. access.list.since \in Nat
    BY <1>1 DEF Facade
  <2>3. r \in Nat
    BY <1>1, <2>2
  <2>4. Lists(access, Groups!MergedPresent(access, r), r)
    BY <1>1, <2>3, PresentLists
  <2>5. Lists(access, Groups!MergedAbsent(access), r)
    <3>1. Fades(access, Groups!MergedAbsent(access))
      BY <1>1, AbsentFades
    <3>. QED  BY <3>1 DEF Fades, Dims, Lists
  <2>. QED  BY <1>4, <2>1, <2>3, <2>4, <2>5
<1>6. access' = n \/ \E r \in access.list.since .. Groups!Latest :
              \/ access' = Groups!Refreshed(Groups!MergedPresent(access, r))
              \/ access' = Groups!Refreshed(Groups!MergedAbsent(access))
  BY DEF Groups!ListAnswers
<1>. QED  BY <1>3, <1>5, <1>6

LEMMA PagedStep ==
    ASSUME AccessInv, Groups!PageAnswers
    PROVE  AccessStep
<1>. DEFINE w == [access EXCEPT !.page = Groups!NoList]
            v(r) == Groups!ProjectedItem(w, r)
            e(r) == Groups!ProjectedEntry(w, r)
            x(r) == [v(r) EXCEPT !.listed = e(r)]
<1>1. access \in Facade /\ Ordered(access) /\ Past /\ Groups!Latest \in Nat
  BY LatestType DEF AccessInv
<1>2. UNCHANGED <<member, events, leaving, edit>>
  BY DEF Groups!PageAnswers, Groups!server
<1>3. w \in Facade
  BY <1>1 DEF Facade, Groups!NoList
<1>4. /\ w.revision = access.revision /\ w.listed = access.listed /\ w.chat = access.chat
      /\ w.departure = access.departure /\ w.inFlight = access.inFlight
      /\ w.lookups = access.lookups /\ w.loading = access.loading
      /\ w.list = access.list /\ w.removed = access.removed /\ access.revision \in Nat
  BY <1>1 DEF Facade
<1>5. access' = w \/ \E r \in access.page.since .. Groups!Latest :
                        access' = IF e(r).kind = "none" THEN v(r) ELSE x(r)
  BY DEF Groups!PageAnswers
<1>. HIDE DEF w
<1>6. Ordered(w) /\ Groups!Visible(w) = Groups!Visible(access)
  BY <1>1, <1>4 DEF Ordered, Groups!Visible
<1>7. ASSUME Turns(w, access')  PROVE Turns(access, access')
  <2>1. NoOlder(access, access')
    BY <1>4, <1>7 DEF Turns, Turn, NoOlder
  <2>2. Returning(access, access')
    BY <1>4, <1>6, <1>7 DEF Turns, Turn, Returning
  <2>3. Verified(access, access')
    BY <1>4, <1>6, <1>7 DEF Turns, Turn, Verified
  <2>4. Ends(access, access') /\ (Waits(access) => Waits(access'))
    BY <1>4, <1>7 DEF Turns, Turn, Ends, Waits
  <2>. QED  BY <1>7, <2>1, <2>2, <2>3, <2>4 DEF Turns, Turn
<1>8. Turns(w, w)
  BY <1>3, <1>6, StillFades, FadesTurns
<1>9. ASSUME NEW r \in Nat, access' = IF e(r).kind = "none" THEN v(r) ELSE x(r)
      PROVE  Turns(w, access')
  <2>1. \/ /\ e(r) = Groups!Real(r) /\ Lists(w, x(r), r) /\ ~ x(r).quarantined
        \/ /\ e(r) \in {Groups!Nothing, Groups!CurrentProjection(w)} /\ Fades(w, v(r))
    BY <1>3, <1>6, EntryFacts
  <2>2. CASE e(r) = Groups!Real(r) /\ Lists(w, x(r), r) /\ ~ x(r).quarantined
    <3>1. access' = x(r)
      BY <1>9, <2>2 DEF Groups!Real
    <3>2. Verified(w, x(r))
      BY <2>2 DEF Verified
    <3>. HIDE DEF x
    <3>. QED  BY <1>3, <1>6, <2>2, <3>1, <3>2, ListsTurns DEF Turns, Lists
  <2>3. CASE e(r) \in {Groups!Nothing, Groups!CurrentProjection(w)} /\ Fades(w, v(r))
    <3>1. CASE e(r).kind = "none"
      BY <1>3, <1>6, <1>9, <2>3, <3>1, FadesTurns
    <3>2. CASE e(r).kind # "none"
      <4>1. e(r) = Groups!CurrentProjection(w) /\ access' = x(r)
        BY <1>9, <2>3, <3>2 DEF Groups!Nothing
      <4>2. e(r) \in Groups!Shown
        BY <1>3, <4>1, ContextTypes
      <4>3. v(r) \in Facade
        BY <2>3 DEF Fades, Dims
      <4>. DEFINE p == Groups!CurrentProjection(w)
                  u == v(r)
                  y == [u EXCEPT !.listed = p]
      <4>4. access' = y /\ u \in Facade /\ p \in Groups!Shown /\ p.kind # "none"
            /\ Fades(w, u)
        BY <2>3, <3>2, <4>1, <4>2, <4>3
      <4>. HIDE DEF u, e
      <4>5. p = w.listed \/ p = w.chat
        BY <4>4 DEF Groups!CurrentProjection, Groups!Nothing
      <4>. HIDE DEF p
      <4>6. y \in Facade
        BY <4>4 DEF Facade
      <4>7. /\ y.revision = u.revision /\ y.listed = p /\ y.chat = u.chat
            /\ y.loading = u.loading /\ y.departure = u.departure
            /\ y.inFlight = u.inFlight /\ y.lookups = u.lookups
        BY <4>4 DEF Facade
      <4>. HIDE DEF y
      <4>8. Lists(w, y, r)
        BY <4>4, <4>6, <4>7 DEF Lists, Fades, Dims, Ends, Waits, Faded, p
      <4>9. Verified(w, y)
        <5>1. p.kind = "real" => Groups!Visible(w) # {}
          BY <4>5, Seen
        <5>2. u.chat.kind = "real" => Groups!Visible(w) # {}
          BY <4>4, Seen DEF Fades, Dims, Faded
        <5>. QED  BY <4>7, <5>1, <5>2, Seen DEF Verified
      <4>. QED  BY <1>3, <1>6, <4>4, <4>8, <4>9, ListsTurns DEF Turns, Lists
    <3>. QED  BY <3>1, <3>2
  <2>. QED  BY <2>1, <2>2, <2>3
<1>10. Turns(w, access')
  <2>1. CASE access' = w
    BY <1>8, <2>1
  <2>2. CASE \E r \in access.page.since .. Groups!Latest :
                access' = IF e(r).kind = "none" THEN v(r) ELSE x(r)
    <3>1. PICK r \in access.page.since .. Groups!Latest :
                access' = IF e(r).kind = "none" THEN v(r) ELSE x(r)
      BY <2>2
    <3>2. access.page.since \in Nat
      BY <1>1 DEF Facade
    <3>3. r \in Nat
      BY <1>1, <3>2
    <3>. QED  BY <1>9, <3>1, <3>3
  <2>. QED  BY <1>5, <2>1, <2>2
<1>11. access'.departure.set => leaving' # "none"
  BY <1>2, <1>7, <1>10 DEF Turns, Ends, AccessInv, Tracked
<1>. QED  BY <1>2, <1>7, <1>10, <1>11, TurnsStep

LEMMA AccessStart == Groups!Init => AccessInv
<1>. SUFFICES ASSUME Groups!Init  PROVE AccessInv
  OBVIOUS
<1>1. 1 \in Nat \ {0} /\ member \in [1 .. 1 -> BOOLEAN]
  BY DEF Groups!Init
<1>2. {} \in Lookups
  BY FS_EmptySet DEF Lookups
<1>3. access \in Facade
  BY <1>2 DEF Groups!Init, Facade, Groups!NoContext, Groups!Context, Groups!NoDeparture,
              Groups!NoList, Groups!Nothing, Groups!Shown
<1>4. /\ access.listed = Groups!Nothing /\ access.chat = Groups!Nothing
      /\ access.revision = 0 /\ ~ access.inFlight /\ ~ access.departure.set
      /\ ~ access.loading
  BY DEF Groups!Init, Groups!NoDeparture
<1>5. Ordered(access) /\ Tracked
  BY <1>4 DEF Ordered, Tracked, Waits, Groups!Nothing
<1>6. events = {} /\ edit \in [phase : {"none", "sent", "committed"}, rev : Nat]
  BY DEF Groups!Init
<1>7. Past
  BY <1>1 DEF Past
<1>. QED  BY <1>3, <1>5, <1>6, <1>7 DEF AccessInv

LEMMA AccessNext ==
    ASSUME AccessInv, [Groups!Next]_accessVars
    PROVE  AccessStep
<1>1. CASE UNCHANGED accessVars
  <2>1. Fades(access, access')
    BY <1>1, StillFades DEF AccessInv, accessVars
  <2>. QED  BY <1>1, <2>1, FadesStep DEF accessVars
<1>2. CASE Groups!Next
  BY <1>2, ServerStep, SelectStep, DepartStep, EditStep, RefreshStep, MembershipStep,
     LeaveStep, EditedStep, LookupStep, ListStep, PagedStep DEF Groups!Next
<1>. QED  BY <1>1, <1>2

\* A group follows its membership, in any order of events, lookups, lists, pages and
\* answers to the user: once nothing is under way no departure, lookup or busy sign is
\* left, a quarantined group comes back by a list alone, and but for the answers to the
\* user's own edits what is shown never goes back, nor does a removed group return by a
\* revision that is not newer (home-group-access-facade.service.ts:223, :338).
THEOREM GroupsFollow == Spec => GroupFollowsMembership
<1>. DEFINE Good == /\ Groups!Settled'
                    /\ Groups!UnverifiedOnlyFromLists
                    /\ Groups!NeverShowsOlder
                    /\ Groups!ReturnsNewer
<1>1. Init => AccessInv
  BY AccessStart DEF Init
<1>2. [Next]_homeVars => [Groups!Next]_accessVars
  BY DEF Next, homeVars
<1>3. AccessInv /\ [Next]_homeVars => AccessInv'
  BY <1>2, AccessNext DEF AccessStep
<1>4. AccessInv /\ [Next]_homeVars => [Good]_accessVars
  <2>. SUFFICES ASSUME AccessInv, [Next]_homeVars  PROVE Good
    OBVIOUS
  <2>1. AccessStep
    BY <1>2, AccessNext
  <2>2. Groups!Settled'
    BY <2>1 DEF AccessStep, AccessInv, Tracked, Waits, Groups!Settled, Groups!Quiet
  <2>3. Groups!UnverifiedOnlyFromLists
    BY <2>1 DEF AccessStep, Verified, Groups!UnverifiedOnlyFromLists
  <2>4. Groups!NeverShowsOlder
    BY <2>1 DEF AccessStep, NoOlder, Groups!NeverShowsOlder
  <2>5. Groups!ReturnsNewer
    BY <2>1 DEF AccessStep, Returning, Groups!ReturnsNewer
  <2>. QED  BY <2>2, <2>3, <2>4, <2>5
<1>. QED  BY <1>1, <1>3, <1>4, PTL DEF Spec, GroupFollowsMembership

-----------------------------------------------------------------------------
(* The messages: what is arranged and merged, and what the view may show.  *)

\* r is what s has at the places, each once, in the order f.
Takes(r, s, places, f) ==
    \E n \in Nat :
        /\ f \in [1 .. n -> places]
        /\ r = [k \in 1 .. n |-> s[f[k]]]
        /\ \A k, l \in 1 .. n : f[k] = f[l] => k = l
        /\ \A i \in places : \E k \in 1 .. n : f[k] = i

\* What is arranged is what s has at the places, each once.
LEMMA ArrangedIs ==
    ASSUME NEW S, NEW s \in Seq(S), NEW places \in SUBSET DOMAIN s,
           NEW key \in [DOMAIN s -> Nat]
    PROVE  \E f : Takes(Messages!Arranged(s, places, key), s, places, f)
<1>. DEFINE Before(i, j) == key[i] < key[j] \/ (key[i] = key[j] /\ i < j)
            Below(i) == {j \in places : Before(j, i)}
            n == Cardinality(places)
            rank == [i \in places |-> Cardinality(Below(i)) + 1]
            f == [k \in 1 .. n |-> CHOOSE i \in places : Cardinality(Below(i)) = k - 1]
<1>1. IsFiniteSet(places) /\ n \in Nat /\ places \subseteq Nat
  <2>1. DOMAIN s = 1 .. Len(s) /\ Len(s) \in Nat  OBVIOUS
  <2>2. IsFiniteSet(1 .. Len(s))  BY <2>1, FS_Interval
  <2>3. IsFiniteSet(places)  BY <2>1, <2>2, FS_Subset
  <2>. QED  BY <2>1, <2>3, FS_CardinalityType
<1>2. \A i \in places : IsFiniteSet(Below(i)) /\ Cardinality(Below(i)) \in Nat
  <2>. TAKE i \in places
  <2>1. Below(i) \in SUBSET places  OBVIOUS
  <2>. HIDE DEF Below
  <2>. QED  BY <1>1, <2>1, FS_Subset, FS_CardinalityType
<1>3. ASSUME NEW i \in places, NEW j \in places, Before(i, j)
      PROVE  Cardinality(Below(i)) < Cardinality(Below(j))
  <2>1. Below(i) \cup {i} \in SUBSET Below(j) /\ i \notin Below(i)
    BY <1>1, <1>3
  <2>. HIDE DEF Below
  <2>2. Cardinality(Below(i) \cup {i}) = Cardinality(Below(i)) + 1
    BY <1>2, <2>1, FS_AddElement
  <2>3. Cardinality(Below(i) \cup {i}) <= Cardinality(Below(j))
    BY <1>2, <2>1, FS_Subset
  <2>. QED  BY <1>2, <2>2, <2>3
<1>4. ASSUME NEW i \in places  PROVE Cardinality(Below(i)) < n
  <2>1. Below(i) \in SUBSET places /\ i \notin Below(i)  BY <1>1
  <2>. HIDE DEF Below
  <2>. QED  BY <1>1, <1>2, <2>1, FS_Subset
<1>. HIDE DEF Below
<1>5. \A i, j \in places : rank[i] = rank[j] => i = j
  <2>. SUFFICES ASSUME NEW i \in places, NEW j \in places, i # j  PROVE rank[i] # rank[j]  OBVIOUS
  <2>1. Before(i, j) \/ Before(j, i)  BY <1>1
  <2>. QED  BY <1>2, <1>3, <2>1
<1>6. rank \in [places -> 1 .. n]
  BY <1>1, <1>2, <1>4
<1>7. rank \in Injection(places, 1 .. n)
  <2>. HIDE DEF rank, n
  <2>. QED  BY <1>5, <1>6 DEF Injection, IsInjective
<1>8. IsFiniteSet(1 .. n) /\ Cardinality(1 .. n) = n
  BY <1>1, FS_Interval
<1>9. rank \in Surjection(places, 1 .. n)
  BY <1>7, <1>8, FS_Injection
<1>10. \A k \in 1 .. n : f[k] \in places /\ rank[f[k]] = k
  <2>. TAKE k \in 1 .. n
  <2>1. \E i \in places : Cardinality(Below(i)) = k - 1
    <3>1. \E i \in places : rank[i] = k
      <4>. HIDE DEF rank, n
      <4>. QED  BY <1>9 DEF Surjection
    <3>. QED  BY <1>1, <1>2, <3>1
  <2>2. f[k] \in places /\ Cardinality(Below(f[k])) = k - 1
    BY <2>1
  <2>. QED  BY <1>1, <2>2
<1>11. Messages!Arranged(s, places, key) = [k \in 1 .. n |-> s[f[k]]]
  BY DEF Messages!Arranged, Below, n, f, Cardinality, Messages!Cardinality
<1>12. f \in [1 .. n -> places]
  BY <1>10
<1>13. \A i \in places : rank[i] \in 1 .. n /\ f[rank[i]] = i
  BY <1>5, <1>6, <1>10
<1>. HIDE DEF f, rank, n
<1>14. \A k, l \in 1 .. n : f[k] = f[l] => k = l
  BY <1>10
<1>15. \A i \in places : \E k \in 1 .. n : f[k] = i
  BY <1>13
<1>. QED  BY <1>1, <1>11, <1>12, <1>14, <1>15 DEF Takes

\* Every message of s is there once.
Distinct(s) == \A i, j \in DOMAIN s : s[i].id = s[j].id => i = j

\* The view without a message has the others, each once.
LEMMA WithoutIs ==
    ASSUME NEW v \in Seq(Messages!Message), NEW id, Distinct(v)
    PROVE  /\ Messages!Without(v, id) \in Seq(Messages!Message)
           /\ Distinct(Messages!Without(v, id))
           /\ \A k \in DOMAIN Messages!Without(v, id) :
                 \E i \in DOMAIN v : v[i].id # id /\ v[i] = Messages!Without(v, id)[k]
           /\ \A i \in DOMAIN v : v[i].id # id =>
                 \E k \in DOMAIN Messages!Without(v, id) : v[i] = Messages!Without(v, id)[k]
<1>. DEFINE key == [i \in DOMAIN v |-> i]
            places == {i \in DOMAIN v : v[i].id # id}
            r == Messages!Without(v, id)
<1>1. places \in SUBSET DOMAIN v /\ key \in [DOMAIN v -> Nat]
  OBVIOUS
<1>2. r = Messages!Arranged(v, places, key)
  BY DEF Messages!Without
<1>. HIDE DEF places, key, r
<1>3. PICK f : Takes(r, v, places, f)
  BY <1>1, <1>2, ArrangedIs
<1>12. PICK n \in Nat :
        /\ f \in [1 .. n -> places]
        /\ r = [k \in 1 .. n |-> v[f[k]]]
        /\ \A k, l \in 1 .. n : f[k] = f[l] => k = l
        /\ \A i \in places : \E k \in 1 .. n : f[k] = i
  BY <1>3 DEF Takes
<1>4. \A i \in places : i \in DOMAIN v /\ v[i].id # id
  BY DEF places
<1>5. \A i \in DOMAIN v : v[i].id # id => i \in places
  BY DEF places
<1>6. \A i \in DOMAIN v : v[i] \in Messages!Message
  OBVIOUS
<1>7. r \in [1 .. n -> Messages!Message] /\ DOMAIN r = 1 .. n
  BY <1>12, <1>4, <1>6
<1>8. r \in Seq(Messages!Message)
  BY <1>12, <1>7
<1>9. Distinct(r)
  BY <1>12, <1>4, <1>7 DEF Distinct
<1>10. \A k \in DOMAIN r : \E i \in DOMAIN v : v[i].id # id /\ v[i] = r[k]
  BY <1>12, <1>4, <1>7
<1>11. \A i \in DOMAIN v : v[i].id # id => \E k \in DOMAIN r : v[i] = r[k]
  BY <1>12, <1>5, <1>7
<1>. QED  BY <1>8, <1>9, <1>10, <1>11 DEF r

\* r has the page, and of v what is not in it, each once.
MergeOf(r, v, page) ==
    /\ r \in Seq(Messages!Message) /\ Distinct(r)
    /\ \A k \in DOMAIN r : \/ \E i \in DOMAIN page : page[i] = r[k]
                          \/ \E i \in DOMAIN v : v[i] = r[k]
    /\ \A i \in DOMAIN page : \E k \in DOMAIN r : page[i] = r[k]
    /\ \A i \in DOMAIN v : \E k \in DOMAIN r : v[i].id = r[k].id

\* A merge has the page, and of the view what is not in it, each once.
LEMMA MergedIs ==
    ASSUME NEW v \in Seq(Messages!Message), NEW page \in Seq(Messages!Message),
           Distinct(v), Distinct(page)
    PROVE  MergeOf(Messages!Merged(v, page), v, page)
<1>. DEFINE known == {page[i].id : i \in DOMAIN page}
            all == page \o v
            seqs == [i \in DOMAIN all |-> all[i].seq]
            kept == {i \in DOMAIN all : i > Len(page) => all[i].id \notin known}
            first == {i \in kept : seqs[i] > 0}
            last == {i \in kept : seqs[i] = 0}
            r == Messages!Merged(v, page)
<1>1. /\ all \in Seq(Messages!Message) /\ Len(all) = Len(page) + Len(v)
      /\ DOMAIN all = 1 .. Len(page) + Len(v)
      /\ \A i \in DOMAIN page : i \in DOMAIN all /\ all[i] = page[i] /\ i <= Len(page)
      /\ \A i \in DOMAIN v : i + Len(page) \in DOMAIN all /\ all[i + Len(page)] = v[i]
      /\ \A i \in DOMAIN all : \/ i \in DOMAIN page
                               \/ i - Len(page) \in DOMAIN v /\ i > Len(page)
      /\ Len(page) \in Nat /\ Len(v) \in Nat
      /\ DOMAIN page \subseteq Nat /\ DOMAIN v \subseteq Nat
  OBVIOUS
<1>2. \A i \in DOMAIN all : all[i] \in Messages!Message /\ all[i].seq \in Nat
  <2>. HIDE DEF all
  <2>1. \A i \in DOMAIN all : all[i] \in Messages!Message  BY <1>1
  <2>. QED  BY <2>1 DEF Messages!Message
<1>3. /\ first \in SUBSET DOMAIN all /\ last \in SUBSET DOMAIN all /\ first \cap last = {}
      /\ kept = first \cup last
      /\ seqs \in [DOMAIN all -> Nat]
  <2>. HIDE DEF all
  <2>. QED  BY <1>2
<1>4. \A i, j \in kept : all[i].id = all[j].id => i = j
  <2>. SUFFICES ASSUME NEW i \in kept, NEW j \in kept, all[i].id = all[j].id  PROVE i = j
    OBVIOUS
  <2>1. CASE i \in DOMAIN page /\ j \in DOMAIN page
    BY <1>1, <2>1 DEF Distinct
  <2>2. CASE i > Len(page) /\ j > Len(page)
    <3>1. i - Len(page) \in DOMAIN v /\ j - Len(page) \in DOMAIN v
      BY <1>1, <2>2
    <3>2. all[i] = v[i - Len(page)] /\ all[j] = v[j - Len(page)]
      BY <1>1, <2>2, <3>1
    <3>. HIDE DEF all, kept
    <3>3. i - Len(page) = j - Len(page)
      BY <3>1, <3>2 DEF Distinct
    <3>4. i \in Nat /\ j \in Nat
      BY <1>1 DEF kept
    <3>. QED  BY <1>1, <3>3, <3>4
  <2>3. CASE (i \in DOMAIN page /\ j > Len(page)) \/ (j \in DOMAIN page /\ i > Len(page))
    BY <1>1, <2>3
  <2>. QED  BY <1>1, <2>1, <2>2, <2>3
<1>5. \A i \in kept : \/ \E j \in DOMAIN page : page[j] = all[i]
                      \/ \E j \in DOMAIN v : v[j] = all[i]
  <2>. TAKE i \in kept
  <2>1. CASE i \in DOMAIN page  BY <1>1, <2>1
  <2>2. CASE i - Len(page) \in DOMAIN v /\ i > Len(page)
    <3>1. all[i] = v[i - Len(page)]  BY <1>1, <2>2
    <3>. QED  BY <2>2, <3>1
  <2>. QED  BY <1>1, <2>1, <2>2
<1>6. \A i \in DOMAIN page : i \in kept /\ all[i] = page[i]
  BY <1>1
<1>7. \A i \in DOMAIN v : \E j \in kept : all[j].id = v[i].id
  <2>. TAKE i \in DOMAIN v
  <2>1. CASE v[i].id \in known
    <3>1. PICK j \in DOMAIN page : page[j].id = v[i].id  BY <2>1
    <3>. QED  BY <1>6, <3>1
  <2>2. CASE v[i].id \notin known
    <3>1. i + Len(page) \in kept /\ all[i + Len(page)].id = v[i].id  BY <1>1, <2>2
    <3>. QED  BY <3>1
  <2>. QED  BY <2>1, <2>2
<1>8. r = Messages!Arranged(all, first, seqs) \o Messages!Arranged(all, last, seqs)
  BY DEF Messages!Merged
<1>. HIDE DEF known, all, seqs, kept, first, last, r
<1>9. PICK f : Takes(Messages!Arranged(all, first, seqs), all, first, f)
  BY <1>1, <1>3, ArrangedIs
<1>10. PICK g : Takes(Messages!Arranged(all, last, seqs), all, last, g)
  BY <1>1, <1>3, ArrangedIs
<1>21. PICK m \in Nat :
         /\ f \in [1 .. m -> first]
         /\ Messages!Arranged(all, first, seqs) = [k \in 1 .. m |-> all[f[k]]]
         /\ \A k, l \in 1 .. m : f[k] = f[l] => k = l
         /\ \A i \in first : \E k \in 1 .. m : f[k] = i
  BY <1>9 DEF Takes
<1>22. PICK n \in Nat :
         /\ g \in [1 .. n -> last]
         /\ Messages!Arranged(all, last, seqs) = [k \in 1 .. n |-> all[g[k]]]
         /\ \A k, l \in 1 .. n : g[k] = g[l] => k = l
         /\ \A i \in last : \E k \in 1 .. n : g[k] = i
  BY <1>10 DEF Takes
<1>. DEFINE h == [k \in 1 .. m + n |-> IF k <= m THEN f[k] ELSE g[k - m]]
            a == [k \in 1 .. m |-> all[f[k]]]
            b == [k \in 1 .. n |-> all[g[k]]]
<1>11. /\ m \in Nat /\ n \in Nat
       /\ \A k \in 1 .. m : f[k] \in first
       /\ \A k \in 1 .. n : g[k] \in last
  BY <1>21, <1>22
<1>12. /\ a \in Seq(Messages!Message) /\ b \in Seq(Messages!Message)
       /\ Len(a) = m /\ Len(b) = n
  <2>1. a \in [1 .. m -> Messages!Message] /\ b \in [1 .. n -> Messages!Message]
    BY <1>2, <1>3, <1>11
  <2>. HIDE DEF a, b
  <2>. QED  BY <1>11, <2>1
<1>13. /\ r \in Seq(Messages!Message) /\ DOMAIN r = 1 .. m + n
       /\ \A k \in 1 .. m + n : r[k] = IF k <= m THEN a[k] ELSE b[k - m]
  <2>1. r = a \o b  BY <1>8, <1>21, <1>22
  <2>. HIDE DEF a, b
  <2>2. Len(r) = m + n  BY <1>11, <1>12, <2>1, ConcatProperties
  <2>3. r \in Seq(Messages!Message)  BY <1>12, <2>1
  <2>4. \A k \in 1 .. m + n : r[k] = IF k <= m THEN a[k] ELSE b[k - m]
    BY <1>11, <1>12, <2>1, ConcatProperties
  <2>. QED  BY <2>2, <2>3, <2>4
<1>14. \A k \in 1 .. m + n : h[k] \in kept /\ r[k] = all[h[k]]
  <2>. TAKE k \in 1 .. m + n
  <2>1. CASE k <= m
    <3>1. k \in 1 .. m  BY <1>11, <2>1
    <3>. QED  BY <1>3, <1>11, <1>13, <2>1, <3>1
  <2>2. CASE ~ (k <= m)
    <3>1. k - m \in 1 .. n  BY <1>11, <2>2
    <3>. QED  BY <1>3, <1>11, <1>13, <2>2, <3>1
  <2>. QED  BY <2>1, <2>2
<1>15. ASSUME NEW k \in 1 .. m + n, NEW l \in 1 .. m + n, h[k] = h[l]  PROVE k = l
  <2>1. CASE k <= m /\ l <= m
    <3>1. k \in 1 .. m /\ l \in 1 .. m  BY <1>11, <2>1
    <3>. QED  BY <1>21, <1>15, <2>1, <3>1
  <2>2. CASE ~ (k <= m) /\ ~ (l <= m)
    <3>1. k - m \in 1 .. n /\ l - m \in 1 .. n  BY <1>11, <2>2
    <3>2. g[k - m] = g[l - m]  BY <1>15, <2>2
    <3>3. k - m = l - m  BY <1>22, <3>1, <3>2
    <3>. QED  BY <1>11, <3>3
  <2>3. CASE k <= m /\ ~ (l <= m)
    <3>1. k \in 1 .. m /\ l - m \in 1 .. n  BY <1>11, <2>3
    <3>2. f[k] = g[l - m]  BY <1>15, <2>3
    <3>. QED  BY <1>3, <1>11, <3>1, <3>2
  <2>4. CASE l <= m /\ ~ (k <= m)
    <3>1. l \in 1 .. m /\ k - m \in 1 .. n  BY <1>11, <2>4
    <3>2. f[l] = g[k - m]  BY <1>15, <2>4
    <3>. QED  BY <1>3, <1>11, <3>1, <3>2
  <2>. QED  BY <2>1, <2>2, <2>3, <2>4
<1>16. \A i \in kept : \E k \in 1 .. m + n : h[k] = i
  <2>. TAKE i \in kept
  <2>1. CASE i \in first
    <3>1. PICK k \in 1 .. m : f[k] = i  BY <1>21, <2>1
    <3>2. k \in 1 .. m + n /\ h[k] = i  BY <1>11, <3>1
    <3>. QED  BY <3>2
  <2>2. CASE i \in last
    <3>1. PICK k \in 1 .. n : g[k] = i  BY <1>22, <2>2
    <3>2. k + m \in 1 .. m + n /\ ~ (k + m <= m) /\ (k + m) - m = k  BY <1>11, <3>1
    <3>3. h[k + m] = i  BY <3>1, <3>2
    <3>. QED  BY <3>2, <3>3
  <2>. QED  BY <1>3, <2>1, <2>2
<1>. HIDE DEF h, a, b
<1>17. Distinct(r)
  BY <1>4, <1>13, <1>14, <1>15 DEF Distinct
<1>18. \A k \in DOMAIN r : \/ \E i \in DOMAIN page : page[i] = r[k]
                           \/ \E i \in DOMAIN v : v[i] = r[k]
  BY <1>5, <1>13, <1>14
<1>19. \A i \in DOMAIN page : \E k \in DOMAIN r : page[i] = r[k]
  <2>. TAKE i \in DOMAIN page
  <2>1. PICK k \in 1 .. m + n : h[k] = i  BY <1>6, <1>16
  <2>. QED  BY <1>6, <1>13, <1>14, <2>1
<1>20. \A i \in DOMAIN v : \E k \in DOMAIN r : v[i].id = r[k].id
  <2>. TAKE i \in DOMAIN v
  <2>1. PICK j \in kept : all[j].id = v[i].id  BY <1>7
  <2>2. PICK k \in 1 .. m + n : h[k] = j  BY <1>16
  <2>. QED  BY <1>13, <1>14, <2>1, <2>2
<1>. QED  BY <1>13, <1>17, <1>18, <1>19, <1>20 DEF r, MergeOf

\* A message has one id, wherever it is.
Placed(L, c, q, id) == q \in DOMAIN L[c] /\ L[c][q] = id

\* A message is stored once, in one chat.
Logged(L) ==
    /\ L \in [Chats -> Seq(Messages!Ids)]
    /\ \A c, d \in Chats : \A i \in DOMAIN L[c], j \in DOMAIN L[d] :
          L[c][i] = L[d][j] => c = d /\ i = j

\* What is fetched of a chat is stored there.
PageOf(msgs, c, L) ==
    /\ \A i \in DOMAIN msgs : /\ msgs[i].seq > 0 /\ Placed(L, c, msgs[i].seq, msgs[i].id)
                              /\ ~msgs[i].pending /\ ~msgs[i].uncertain
    /\ \A i, j \in DOMAIN msgs : msgs[i].seq = msgs[j].seq => i = j

\* What is shown is stored in the chat, or not at all and the user's own.
ViewOf(v, c, L) ==
    /\ Distinct(v)
    /\ \A i \in DOMAIN v :
          /\ v[i].seq # 0 => Placed(L, c, v[i].seq, v[i].id)
          /\ v[i].seq = 0 => v[i].id \in Mine
          /\ \A d \in Chats \ {c} : \A k \in DOMAIN L[d] : L[d][k] # v[i].id

\* What the user wrote was requested, always for the chat it was written in.
Written(h, L) ==
    /\ \A i \in DOMAIN h.view : h.view[i].id \in Mine => h.tries[h.view[i].id] > 0
    /\ \A c \in Chats : \A i \in DOMAIN L[c] : L[c][i] \in Mine => h.tries[L[c][i]] > 0
    /\ \A r \in h.net :
          /\ h.tries[r.id] > 0
          /\ \A s \in h.net : s.id = r.id => s.chat = r.chat
          /\ \A c \in Chats : \A i \in DOMAIN L[c] : L[c][i] = r.id => c = r.chat
          /\ \A i \in DOMAIN h.view : h.view[i].id = r.id => r.chat = h.selected

\* A message is sent again after a timeout only.
Tried(h, n) ==
    /\ \A m \in Mine : h.tries[m] <= n + 1
    /\ \A i \in DOMAIN h.view :
          h.view[i].id \in Mine /\ h.view[i].uncertain /\ ~h.view[i].pending
             => h.tries[h.view[i].id] <= n

\* What the socket brings was stored, or is an own message.
Told(h, L) ==
    \A e \in h.inbox : IF e.kind = "rejected" THEN e.id \in Mine
                       ELSE Placed(L, e.chat, e.seq, e.id)

\* What is fetched: only the newest request is waited for, and a reconciliation is one
\* of the chat selected and of a recovery.
Fetching(h, L) ==
    /\ h.cursor <= Len(L[h.selected])
    /\ \A l \in h.loads :
          /\ l.id <= h.loadID /\ l.before <= Len(L[l.chat])
          /\ l.at = "answered" => PageOf(l.msgs, l.chat, L) /\ l.next <= Len(L[l.chat])
    /\ \A a \in h.asks :
          /\ a.id <= h.askID
          /\ a.at = "answered" => /\ PageOf(a.msgs, a.chat, L)
                                  /\ a.more => a.after + Page <= Len(L[a.chat])
          /\ h.asking /\ a.id = h.askID => a.chat = h.selected
          /\ \A b \in h.asks : b.id = a.id => b = a
    /\ h.asking \/ h.listing => h.state = "recovering"

\* A pending message has a timer.
Timed(h) ==
    \A i \in DOMAIN h.view : h.view[i].pending => \E p \in h.pend : p[1] = h.view[i].id

\* A message of a peer is shown or on its way.
Covered(h, A, x) ==
    \/ \E i \in DOMAIN h.view : h.view[i].id = x
    \/ x \in A
    \/ \E e \in h.inbox : e.id = x

\* The message at k is in a page that is to come.
ToCome(h, x, k) ==
    /\ h.asking
    /\ \E a \in h.asks :
          /\ a.id = h.askID
          /\ \/ a.at = "sent" /\ k > a.after
             \/ a.at = "answered" /\ \E i \in DOMAIN a.msgs : a.msgs[i].id = x
             \/ a.at = "answered" /\ a.more /\ k > a.after + Page

\* Until a recovery is over, what its chat holds of the peers is covered or in a page that
\* is to come, unless a reconciliation was rejected.
Recovers(h, L, A) ==
    h.state = "recovering" /\ h.established /\ ~h.listing /\ ~h.cut =>
       \A k \in DOMAIN L[h.selected] :
          L[h.selected][k] \in Theirs =>
             Covered(h, A, L[h.selected][k]) \/ ToCome(h, L[h.selected][k], k)

\* The invariant of HomeMessages.
MessageInv ==
    /\ Messages!TypeOK
    /\ Logged(log) /\ ViewOf(view.view, view.selected, log) /\ Written(view, log)
    /\ Tried(view, moves) /\ Told(view, log) /\ Fetching(view, log) /\ Timed(view)
    /\ Recovers(view, log, awaited)

-----------------------------------------------------------------------------
\* Parts of the record that rest.
ConnectionRests(g, h) ==
    g.state = h.state /\ g.established = h.established /\ g.listing = h.listing
ScreenRests(g, h) == g.view = h.view /\ g.selected = h.selected /\ g.cursor = h.cursor
WireRests(g, h) == g.tries = h.tries /\ g.pend = h.pend /\ g.net = h.net
LoadsRest(g, h) == g.loads = h.loads /\ g.loadID = h.loadID
AsksRest(g, h) ==
    g.asks = h.asks /\ g.askID = h.askID /\ g.asking = h.asking /\ g.cut = h.cut

\* One more request for history is on its way.
NewLoad(g, h, c, before) ==
    \E l \in Messages!Load : /\ l.id = g.loadID /\ l.at = "sent" /\ l.chat = c
                              /\ l.before = before /\ g.loads = h.loads \cup {l}

\* One more request for a reconciliation is on its way.
NewAsk(g, h, c, after) ==
    \E a \in Messages!Ask : /\ a.id = g.askID /\ a.at = "sent" /\ a.chat = c
                             /\ a.after = after /\ g.asks = h.asks \cup {a}

\* Another page of history is asked for.
LEMMA LoadedIs ==
    ASSUME NEW h \in Messages!World, NEW before \in Nat, NEW g, g = Messages!Loaded(h, before)
    PROVE  /\ g \in Messages!World
           /\ ConnectionRests(g, h) /\ ScreenRests(g, h) /\ WireRests(g, h) /\ AsksRest(g, h)
           /\ g.inbox = h.inbox /\ g.loadID = h.loadID + 1
           /\ NewLoad(g, h, h.selected, before)
<1>. DEFINE l == [id |-> h.loadID + 1, chat |-> h.selected, before |-> before,
                  at |-> "sent", msgs |-> <<>>, next |-> 0]
<1>1. h.loadID \in Nat /\ h.selected \in Chats /\ h.loads \in SUBSET Messages!Load
  BY DEF Messages!World
<1>2. /\ l \in Messages!Load /\ l.id = h.loadID + 1 /\ l.at = "sent" /\ l.chat = h.selected
      /\ l.before = before
  BY <1>1 DEF Messages!Load
<1>3. g = [h EXCEPT !.loadID = h.loadID + 1, !.loading = TRUE, !.loads = h.loads \cup {l}]
  BY DEF Messages!Loaded
<1>. HIDE DEF l
<1>4. h.loads \cup {l} \in SUBSET Messages!Load /\ h.loadID + 1 \in Nat
  BY <1>1, <1>2
<1>5. g \in Messages!World
  BY ZenonT(60), <1>3, <1>4 DEF Messages!World
<1>6. /\ ConnectionRests(g, h) /\ ScreenRests(g, h) /\ WireRests(g, h) /\ AsksRest(g, h)
      /\ g.inbox = h.inbox /\ g.loadID = h.loadID + 1 /\ g.loads = h.loads \cup {l}
  BY <1>3 DEF Messages!World, ConnectionRests, ScreenRests, WireRests, AsksRest
<1>. QED  BY <1>2, <1>5, <1>6 DEF NewLoad

\* In a recovery another page of what is new is asked for, and otherwise nothing.
LEMMA ReconcileIs ==
    ASSUME NEW h \in Messages!World, NEW after \in Nat, NEW g, g = Messages!Reconcile(h, after),
           h.state = "recovering"
    PROVE  /\ g \in Messages!World
           /\ ConnectionRests(g, h) /\ ScreenRests(g, h) /\ WireRests(g, h) /\ LoadsRest(g, h)
           /\ g.inbox = h.inbox /\ g.cut = h.cut /\ g.askID = h.askID + 1 /\ g.asking
           /\ NewAsk(g, h, h.selected, after)
<1>. DEFINE a == [id |-> h.askID + 1, chat |-> h.selected, after |-> after,
                  at |-> "sent", msgs |-> <<>>, more |-> FALSE]
<1>1. h.askID \in Nat /\ h.selected \in Chats /\ h.asks \in SUBSET Messages!Ask
  BY DEF Messages!World
<1>2. /\ a \in Messages!Ask /\ a.id = h.askID + 1 /\ a.at = "sent" /\ a.chat = h.selected
      /\ a.after = after
  BY <1>1 DEF Messages!Ask
<1>3. g = [h EXCEPT !.askID = h.askID + 1, !.asking = TRUE, !.asks = h.asks \cup {a}]
  BY DEF Messages!Reconcile
<1>. HIDE DEF a
<1>4. h.asks \cup {a} \in SUBSET Messages!Ask /\ h.askID + 1 \in Nat
  BY <1>1, <1>2
<1>5. g \in Messages!World
  BY ZenonT(60), <1>3, <1>4 DEF Messages!World
<1>6. /\ ConnectionRests(g, h) /\ ScreenRests(g, h) /\ WireRests(g, h) /\ LoadsRest(g, h)
      /\ g.inbox = h.inbox /\ g.cut = h.cut /\ g.askID = h.askID + 1 /\ g.asking
      /\ g.asks = h.asks \cup {a}
  BY <1>3 DEF Messages!World, ConnectionRests, ScreenRests, WireRests, LoadsRest
<1>. QED  BY <1>2, <1>5, <1>6 DEF NewAsk

LEMMA ReconcileNot ==
    ASSUME NEW h, NEW after, h.state # "recovering"
    PROVE  Messages!Reconcile(h, after) = h
  BY DEF Messages!Reconcile

\* A selection: nothing is shown, the history is asked for, and in a recovery what is new.
LEMMA SelectedIs ==
    ASSUME NEW h \in Messages!World, NEW c \in Chats, NEW g, g = Messages!Selected(h, c)
    PROVE  /\ g \in Messages!World
           /\ ConnectionRests(g, h) /\ WireRests(g, h) /\ g.inbox = h.inbox
           /\ g.view = <<>> /\ g.selected = c /\ g.cursor = 0 /\ ~g.cut /\ g.loadID = h.loadID + 1
           /\ NewLoad(g, h, c, 0)
           /\ h.state # "recovering" =>
                 g.asks = h.asks /\ g.askID = h.askID /\ g.asking = h.asking
           /\ h.state = "recovering" =>
                 /\ g.asking /\ g.askID = h.askID + 1
                 /\ NewAsk(g, h, c, 0)
<1>. DEFINE h1 == [h EXCEPT !.selected = c, !.view = <<>>, !.cursor = 0, !.cut = FALSE]
            h2 == Messages!Loaded(h1, 0)
<1>1. h1 \in Messages!World
  <2>1. <<>> \in Seq(Messages!Message) /\ 0 \in Nat /\ FALSE \in BOOLEAN  OBVIOUS
  <2>. QED  BY ZenonT(60), <2>1 DEF Messages!World
<1>2. /\ ConnectionRests(h1, h) /\ WireRests(h1, h) /\ LoadsRest(h1, h) /\ h1.inbox = h.inbox
      /\ h1.view = <<>> /\ h1.selected = c /\ h1.cursor = 0 /\ h1.cut = FALSE
      /\ h1.asks = h.asks /\ h1.askID = h.askID /\ h1.asking = h.asking
  BY DEF Messages!World, ConnectionRests, WireRests, LoadsRest
<1>3. g = Messages!Reconcile(h2, 0)
  BY DEF Messages!Selected
<1>. HIDE DEF h1
<1>4. /\ h2 \in Messages!World
      /\ ConnectionRests(h2, h1) /\ ScreenRests(h2, h1) /\ WireRests(h2, h1) /\ AsksRest(h2, h1)
      /\ h2.inbox = h1.inbox /\ h2.loadID = h1.loadID + 1
      /\ NewLoad(h2, h1, h1.selected, 0)
  <2>1. h2 = Messages!Loaded(h1, 0) /\ 0 \in Nat  OBVIOUS
  <2>. HIDE DEF h2
  <2>. QED  BY <1>1, <2>1, LoadedIs
<1>. HIDE DEF h2
<1>5. /\ ConnectionRests(h2, h) /\ WireRests(h2, h) /\ h2.inbox = h.inbox
      /\ h2.view = <<>> /\ h2.selected = c /\ h2.cursor = 0 /\ h2.cut = FALSE
      /\ h2.asks = h.asks /\ h2.askID = h.askID /\ h2.asking = h.asking
      /\ h2.loadID = h.loadID + 1
      /\ NewLoad(h2, h, c, 0)
  BY <1>2, <1>4 DEF ConnectionRests, ScreenRests, WireRests, AsksRest, LoadsRest, NewLoad
<1>6. CASE h.state # "recovering"
  <2>1. g = h2  BY <1>3, <1>5, <1>6, ReconcileNot DEF ConnectionRests
  <2>. QED  BY <1>4, <1>5, <1>6, <2>1
<1>7. CASE h.state = "recovering"
  <2>0. h2.state = "recovering"  BY <1>5, <1>7 DEF ConnectionRests
  <2>1. /\ g \in Messages!World
        /\ ConnectionRests(g, h2) /\ ScreenRests(g, h2) /\ WireRests(g, h2) /\ LoadsRest(g, h2)
        /\ g.inbox = h2.inbox /\ g.cut = h2.cut /\ g.askID = h2.askID + 1 /\ g.asking
        /\ NewAsk(g, h2, h2.selected, 0)
    BY <1>3, <1>4, <2>0, ReconcileIs
  <2>2. /\ ConnectionRests(g, h) /\ WireRests(g, h) /\ g.inbox = h.inbox
        /\ g.view = <<>> /\ g.selected = c /\ g.cursor = 0 /\ ~g.cut /\ g.loadID = h.loadID + 1
        /\ g.loads = h2.loads /\ g.loadID = h2.loadID
    BY <1>5, <2>1 DEF ConnectionRests, ScreenRests, WireRests, LoadsRest
  <2>3. NewLoad(g, h, c, 0) /\ NewAsk(g, h, c, 0)
    BY <1>5, <2>1, <2>2 DEF NewLoad, NewAsk
  <2>. QED  BY <1>5, <1>7, <2>1, <2>2, <2>3
<1>. QED  BY <1>6, <1>7

\* A record's fields.
LEMMA WorldFields ==
    ASSUME NEW h \in Messages!World
    PROVE  /\ h.state \in {"offline", "recovering", "ready"}
           /\ h.established \in BOOLEAN /\ h.listing \in BOOLEAN /\ h.asking \in BOOLEAN
           /\ h.cut \in BOOLEAN /\ h.selected \in Chats /\ h.view \in Seq(Messages!Message)
           /\ h.cursor \in Nat /\ h.loading \in BOOLEAN
           /\ h.loadID \in Nat /\ h.loads \in SUBSET Messages!Load
           /\ h.askID \in Nat /\ h.asks \in SUBSET Messages!Ask
           /\ h.tries \in [Mine -> 0 .. MaxEffort + 1] /\ h.pend \in SUBSET (Mine \X Nat)
           /\ h.net \in SUBSET Messages!Request /\ h.inbox \in SUBSET Messages!Event
  BY DEF Messages!World

\* A message's fields.
LEMMA ViewFields ==
    ASSUME NEW v \in Seq(Messages!Message), NEW i \in DOMAIN v
    PROVE  /\ v[i] \in Messages!Message /\ v[i].id \in Mine \cup Theirs /\ v[i].seq \in Nat
           /\ v[i].pending \in BOOLEAN /\ v[i].uncertain \in BOOLEAN
<1>1. v[i] \in Messages!Message  OBVIOUS
<1>. QED  BY <1>1 DEF Messages!Message, Messages!Ids

\* A set of numbers with a bound has a greatest.
LEMMA Greatest ==
    ASSUME NEW S \in SUBSET Nat, NEW b \in Nat, S # {}, \A s \in S : s <= b
    PROVE  \E s \in S : \A t \in S : t <= s
<1>. DEFINE T == {n \in Nat : \A s \in S : s <= n}
<1>1. T \subseteq Nat /\ T # {}
  OBVIOUS
<1>2. PICK n \in T : \A y \in T : ~ (<<y, n>> \in OpToRel(<, Nat))
  <2>. HIDE DEF T
  <2>. QED  BY <1>1, NatLessThanWellFounded, WFMin, Zenon
<1>3. n \in Nat /\ \A s \in S : s <= n
  OBVIOUS
<1>4. \A y \in T : ~ (y < n)
  BY <1>1, <1>2, <1>3 DEF OpToRel
<1>5. n \in S
  <2>. SUFFICES ASSUME n \notin S  PROVE FALSE  OBVIOUS
  <2>1. \A s \in S : s < n  BY <1>3
  <2>2. n > 0
    <3>1. PICK s \in S : TRUE  OBVIOUS
    <3>. QED  BY <1>3, <2>1, <3>1
  <2>3. n - 1 \in T  BY <1>3, <2>1, <2>2
  <2>. QED  BY <1>3, <1>4, <2>3
<1>. QED  BY <1>3, <1>5

\* The cursor of a reconciliation.
LEMMA NewestIs ==
    ASSUME NEW h \in Messages!World, NEW b \in Nat,
           \A i \in DOMAIN h.view : h.view[i].seq <= b
    PROVE  Messages!Newest(h) \in Nat
<1>. DEFINE S == {m.seq : m \in {n \in Messages!Shown(h) : ~n.pending}} \cup {0}
<1>1. \A s \in S : s \in Nat /\ s <= b
  <2>. SUFFICES ASSUME NEW m \in Messages!Shown(h)  PROVE m.seq \in Nat /\ m.seq <= b
    OBVIOUS
  <2>0. h.view \in Seq(Messages!Message)  BY WorldFields
  <2>1. PICK i \in DOMAIN h.view : m = h.view[i]  BY <2>0 DEF Messages!Shown
  <2>2. h.view[i].seq \in Nat  BY <2>0, ViewFields
  <2>. QED  BY <2>1, <2>2
<1>2. \E s \in S : \A t \in S : t <= s
  <2>1. S \in SUBSET Nat /\ S # {}  BY <1>1
  <2>. HIDE DEF S
  <2>. QED  BY <1>1, <2>1, Greatest
<1>3. Messages!Newest(h) = CHOOSE s \in S : \A t \in S : t <= s
  BY DEF Messages!Newest
<1>. HIDE DEF S
<1>. QED  BY <1>1, <1>2, <1>3

\* Another view.
LEMMA ShowingIs ==
    ASSUME NEW h \in Messages!World, NEW v \in Seq(Messages!Message),
           NEW g, g = [h EXCEPT !.view = v]
    PROVE  /\ g \in Messages!World /\ g.view = v /\ g.selected = h.selected
           /\ g.cursor = h.cursor
           /\ ConnectionRests(g, h) /\ WireRests(g, h) /\ LoadsRest(g, h) /\ AsksRest(g, h)
           /\ g.inbox = h.inbox
<1>1. g \in Messages!World
  BY ZenonT(60) DEF Messages!World
<1>. QED
  BY <1>1 DEF Messages!World, ConnectionRests, WireRests, LoadsRest, AsksRest

\* Requests for own messages.
LEMMA SentIs ==
    ASSUME NEW h \in Messages!World, MaxEffort \in Nat, NEW ids \in SUBSET Mine,
           \A m \in ids : h.tries[m] <= MaxEffort,
           NEW g, g = Messages!Sent(h, ids)
    PROVE  /\ g \in Messages!World
           /\ ConnectionRests(g, h) /\ ScreenRests(g, h) /\ LoadsRest(g, h) /\ AsksRest(g, h)
           /\ g.inbox = h.inbox /\ g.cursor = h.cursor
           /\ \A m \in Mine : g.tries[m] = IF m \in ids THEN h.tries[m] + 1 ELSE h.tries[m]
           /\ h.pend \subseteq g.pend /\ \A m \in ids : \E p \in g.pend : p[1] = m
           /\ \A r \in g.net : r \in h.net \/ (r.id \in ids /\ r.chat = h.selected)
<1>. DEFINE tries == [m \in Mine |-> IF m \in ids THEN h.tries[m] + 1 ELSE h.tries[m]]
            pend == h.pend \cup {<<m, h.tries[m] + 1>> : m \in ids}
            req == {[id |-> m, try |-> h.tries[m] + 1, chat |-> h.selected,
                     live |-> TRUE] : m \in ids}
            net == h.net \cup req
<1>1. \A m \in Mine : h.tries[m] \in 0 .. MaxEffort + 1
  BY WorldFields
<1>2. tries \in [Mine -> 0 .. MaxEffort + 1]
  BY <1>1
<1>3. pend \in SUBSET (Mine \X Nat)
  BY <1>1, WorldFields
<1>4. \A r \in req : r \in Messages!Request /\ r.id \in ids /\ r.chat = h.selected
  <2>. SUFFICES ASSUME NEW m \in ids
       PROVE  [id |-> m, try |-> h.tries[m] + 1, chat |-> h.selected, live |-> TRUE]
                 \in Messages!Request
    OBVIOUS
  <2>. QED  BY <1>1, WorldFields DEF Messages!Request
<1>5. net \in SUBSET Messages!Request
  <2>. HIDE DEF req
  <2>. QED  BY <1>4, WorldFields
<1>6. g = [h EXCEPT !.tries = tries, !.pend = pend, !.net = net]
  BY DEF Messages!Sent
<1>7. \A m \in ids : <<m, h.tries[m] + 1>> \in pend /\ <<m, h.tries[m] + 1>>[1] = m
  OBVIOUS
<1>8. h.pend \subseteq pend  OBVIOUS
<1>9. \A m \in Mine : tries[m] = IF m \in ids THEN h.tries[m] + 1 ELSE h.tries[m]
  OBVIOUS
<1>10. \A r \in net : r \in h.net \/ (r.id \in ids /\ r.chat = h.selected)
  <2>. HIDE DEF req
  <2>. QED  BY <1>4
<1>. HIDE DEF tries, pend, net
<1>11. g \in Messages!World
  BY ZenonT(60), <1>2, <1>3, <1>5, <1>6 DEF Messages!World
<1>12. /\ ConnectionRests(g, h) /\ ScreenRests(g, h) /\ LoadsRest(g, h) /\ AsksRest(g, h)
       /\ g.inbox = h.inbox /\ g.cursor = h.cursor
       /\ g.tries = tries /\ g.pend = pend /\ g.net = net
  BY <1>6 DEF Messages!World, ConnectionRests, ScreenRests, LoadsRest, AsksRest
<1>. QED  BY <1>7, <1>8, <1>9, <1>10, <1>11, <1>12

\* The messages that are sent again are those not known to be stored and not under way.
Again(v, m) ==
    m \in Mine /\ \E i \in DOMAIN v : v[i].id = m /\ v[i].uncertain /\ ~v[i].pending

\* A replay sends those again, and changes their pending sign alone.
LEMMA ReplayedIs ==
    ASSUME NEW h \in Messages!World, MaxEffort \in Nat,
           \A m \in Mine : Again(h.view, m) => h.tries[m] <= MaxEffort,
           NEW g, g = Messages!Replayed(h)
    PROVE  /\ g \in Messages!World
           /\ ConnectionRests(g, h) /\ LoadsRest(g, h) /\ AsksRest(g, h)
           /\ g.inbox = h.inbox /\ g.selected = h.selected /\ g.cursor = h.cursor
           /\ \A m \in Mine :
                 g.tries[m] = IF Again(h.view, m) THEN h.tries[m] + 1 ELSE h.tries[m]
           /\ h.pend \subseteq g.pend
           /\ \A m \in Mine : Again(h.view, m) => \E p \in g.pend : p[1] = m
           /\ \A r \in g.net : \/ r \in h.net
                               \/ Again(h.view, r.id) /\ r.chat = h.selected
           /\ DOMAIN g.view = DOMAIN h.view
           /\ \A i \in DOMAIN h.view :
                 /\ g.view[i].id = h.view[i].id /\ g.view[i].seq = h.view[i].seq
                 /\ g.view[i].uncertain = h.view[i].uncertain
                 /\ g.view[i].pending <=> h.view[i].pending \/ Again(h.view, h.view[i].id)
<1>. DEFINE ids == {m.id : m \in {n \in Messages!Shown(h) : n.id \in Mine /\ n.uncertain /\ ~n.pending}}
            s == Messages!Sent(h, ids)
            v == [i \in DOMAIN h.view |-> IF h.view[i].id \in ids
                                          THEN [h.view[i] EXCEPT !.pending = TRUE] ELSE h.view[i]]
<1>0. h.view \in Seq(Messages!Message)  BY WorldFields
<1>1. \A m : m \in ids <=> Again(h.view, m)
  <2>1. \A n : n \in Messages!Shown(h) <=> \E i \in DOMAIN h.view : h.view[i] = n
    BY <1>0 DEF Messages!Shown
  <2>. QED  BY <2>1 DEF Again
<1>2. ids \in SUBSET Mine /\ \A m \in ids : h.tries[m] <= MaxEffort
  <2>. HIDE DEF ids
  <2>. QED  BY <1>1 DEF Again
<1>. HIDE DEF ids
<1>3. /\ s \in Messages!World
      /\ ConnectionRests(s, h) /\ ScreenRests(s, h) /\ LoadsRest(s, h) /\ AsksRest(s, h)
      /\ s.inbox = h.inbox /\ s.cursor = h.cursor
      /\ \A m \in Mine : s.tries[m] = IF m \in ids THEN h.tries[m] + 1 ELSE h.tries[m]
      /\ h.pend \subseteq s.pend /\ \A m \in ids : \E p \in s.pend : p[1] = m
      /\ \A r \in s.net : r \in h.net \/ (r.id \in ids /\ r.chat = h.selected)
  <2>. HIDE DEF s
  <2>1. s = Messages!Sent(h, ids)  BY DEF s
  <2>. QED  BY <1>2, <2>1, SentIs
<1>4. s.view = h.view /\ s.selected = h.selected
  BY <1>3 DEF ScreenRests
<1>5. g = [s EXCEPT !.view = [i \in DOMAIN s.view |->
              IF s.view[i].id \in ids THEN [s.view[i] EXCEPT !.pending = TRUE] ELSE s.view[i]]]
  BY DEF Messages!Replayed, Messages!Mapped, ids
<1>. HIDE DEF s
<1>6. g = [s EXCEPT !.view = v]
  BY <1>4, <1>5
<1>7. \A i \in DOMAIN h.view : h.view[i] \in Messages!Message
  BY <1>0
<1>8. \A i \in DOMAIN h.view : v[i] \in Messages!Message /\ v[i].id = h.view[i].id
         /\ v[i].seq = h.view[i].seq /\ v[i].uncertain = h.view[i].uncertain
         /\ (v[i].pending <=> h.view[i].pending \/ h.view[i].id \in ids)
  <2>. TAKE i \in DOMAIN h.view
  <2>1. CASE h.view[i].id \in ids
    <3>1. v[i] = [h.view[i] EXCEPT !.pending = TRUE]  BY <2>1
    <3>. QED  BY <1>7, <2>1, <3>1 DEF Messages!Message
  <2>2. CASE h.view[i].id \notin ids
    <3>1. v[i] = h.view[i]  BY <2>2
    <3>. QED  BY <1>7, <2>2, <3>1
  <2>. QED  BY <2>1, <2>2
<1>9. DOMAIN v = DOMAIN h.view  OBVIOUS
<1>10. v \in Seq(Messages!Message)
  <2>0. v \in [DOMAIN h.view -> Messages!Message]  BY <1>8
  <2>1. v \in [1 .. Len(h.view) -> Messages!Message]
    <3>. HIDE DEF v
    <3>. QED  BY <1>0, <2>0
  <2>2. Len(h.view) \in Nat  BY <1>0
  <2>. HIDE DEF v
  <2>. QED  BY <2>1, <2>2
<1>. HIDE DEF v
<1>11. /\ g \in Messages!World /\ g.view = v /\ g.selected = s.selected /\ g.cursor = s.cursor
       /\ ConnectionRests(g, s) /\ WireRests(g, s) /\ LoadsRest(g, s) /\ AsksRest(g, s)
       /\ g.inbox = s.inbox
  BY <1>3, <1>6, <1>10, ShowingIs
<1>12. ConnectionRests(g, h) /\ LoadsRest(g, h) /\ AsksRest(g, h)
  BY <1>3, <1>11 DEF ConnectionRests, LoadsRest, AsksRest
<1>13. g.tries = s.tries /\ g.pend = s.pend /\ g.net = s.net
  BY <1>11 DEF WireRests
<1>. QED  BY <1>1, <1>3, <1>4, <1>8, <1>9, <1>11, <1>12, <1>13

\* g shows what h does and, once, the message of e.
Arrives(g, h, e) ==
    /\ g \in Messages!World
    /\ ConnectionRests(g, h) /\ WireRests(g, h) /\ LoadsRest(g, h) /\ AsksRest(g, h)
    /\ g.inbox = h.inbox /\ g.selected = h.selected /\ g.cursor = h.cursor
    /\ Distinct(g.view)
    /\ \A i \in DOMAIN g.view :
          \/ /\ g.view[i].id = e.id /\ g.view[i].seq = e.seq
             /\ ~g.view[i].pending /\ ~g.view[i].uncertain
          \/ \E j \in DOMAIN h.view : /\ g.view[i] = h.view[j]
                                      /\ e.id \in Mine => h.view[j].id # e.id
    /\ \E i \in DOMAIN g.view : g.view[i].id = e.id
    /\ \A j \in DOMAIN h.view : \E i \in DOMAIN g.view : g.view[i].id = h.view[j].id

\* A message the socket brings is shown once.
LEMMA ArrivedIs ==
    ASSUME NEW h \in Messages!World, NEW e \in Messages!Event, Distinct(h.view)
    PROVE  Arrives(Messages!Arrived(h, e), h, e)
<1>. DEFINE g == Messages!Arrived(h, e)
            m == [id |-> e.id, seq |-> e.seq, pending |-> FALSE, uncertain |-> FALSE]
            known == \E n \in Messages!Shown(h) : n.id = e.id
<1>6. g = Messages!Arrived(h, e)  OBVIOUS
<1>. HIDE DEF g
<1>. SUFFICES Arrives(g, h, e)  BY <1>6
<1>0. h.view \in Seq(Messages!Message)  BY WorldFields
<1>1. m \in Messages!Message /\ m.id = e.id /\ m.seq = e.seq /\ ~m.pending /\ ~m.uncertain
  BY DEF Messages!Message, Messages!Event
<1>2. known <=> \E i \in DOMAIN h.view : h.view[i].id = e.id
  BY <1>0 DEF Messages!Shown
<1>3. CASE e.id \in Mine /\ known
  <2>. DEFINE v == [i \in DOMAIN h.view |-> IF h.view[i].id = e.id THEN m ELSE h.view[i]]
  <2>1. g = [h EXCEPT !.view = v]
    BY <1>3, <1>6 DEF Messages!Arrived, Messages!Mapped
  <2>. HIDE DEF m, known
  <2>2. DOMAIN v = DOMAIN h.view
        /\ \A i \in DOMAIN h.view : v[i] = IF h.view[i].id = e.id THEN m ELSE h.view[i]
    OBVIOUS
  <2>3. v \in Seq(Messages!Message)
    <3>1. \A i \in DOMAIN h.view : v[i] \in Messages!Message  BY <1>0, <1>1, <2>2
    <3>4. v \in [DOMAIN h.view -> Messages!Message]  BY <3>1
    <3>. HIDE DEF v
    <3>2. v \in [1 .. Len(h.view) -> Messages!Message]  BY <1>0, <3>4
    <3>3. Len(h.view) \in Nat  BY <1>0
    <3>. QED  BY <3>2, <3>3
  <2>. HIDE DEF v
  <2>4. /\ g \in Messages!World /\ g.view = v /\ g.selected = h.selected /\ g.cursor = h.cursor
        /\ ConnectionRests(g, h) /\ WireRests(g, h) /\ LoadsRest(g, h) /\ AsksRest(g, h)
        /\ g.inbox = h.inbox
    BY <2>1, <2>3, ShowingIs
  <2>5. \A i \in DOMAIN v : v[i].id = h.view[i].id
    BY <1>1, <2>2
  <2>6. Distinct(v)
    BY <2>2, <2>5 DEF Distinct
  <2>7. \A i \in DOMAIN v :
           \/ v[i].id = e.id /\ v[i].seq = e.seq /\ ~v[i].pending /\ ~v[i].uncertain
           \/ \E j \in DOMAIN h.view : v[i] = h.view[j] /\ (e.id \in Mine => h.view[j].id # e.id)
    BY <1>1, <2>2
  <2>. QED  BY <1>2, <1>3, <2>2, <2>4, <2>5, <2>6, <2>7 DEF Arrives
<1>4. CASE e.id \notin Mine /\ known
  <2>1. g = h
    BY <1>4, <1>6, Zenon DEF Messages!Arrived
  <2>. HIDE DEF m, known
  <2>. QED
    BY <1>2, <1>4, <2>1 DEF ConnectionRests, WireRests, LoadsRest, AsksRest, Arrives
<1>5. CASE ~known
  <2>. DEFINE v == Append(h.view, m)
  <2>1. g = [h EXCEPT !.view = v]
    BY <1>5, <1>6, Zenon DEF Messages!Arrived
  <2>. HIDE DEF m, known
  <2>2. /\ v \in Seq(Messages!Message) /\ DOMAIN v = DOMAIN h.view \cup {Len(h.view) + 1}
        /\ v[Len(h.view) + 1] = m /\ \A i \in DOMAIN h.view : v[i] = h.view[i]
    BY <1>0, <1>1
  <2>. HIDE DEF v
  <2>4. /\ g \in Messages!World /\ g.view = v /\ g.selected = h.selected /\ g.cursor = h.cursor
        /\ ConnectionRests(g, h) /\ WireRests(g, h) /\ LoadsRest(g, h) /\ AsksRest(g, h)
        /\ g.inbox = h.inbox
    BY <2>1, <2>2, ShowingIs
  <2>5. \A i \in DOMAIN h.view : h.view[i].id # e.id
    BY <1>2, <1>5
  <2>6. Distinct(v)
    BY <1>1, <2>2, <2>5 DEF Distinct
  <2>7. \A i \in DOMAIN v :
           \/ v[i].id = e.id /\ v[i].seq = e.seq /\ ~v[i].pending /\ ~v[i].uncertain
           \/ \E j \in DOMAIN h.view : v[i] = h.view[j] /\ (e.id \in Mine => h.view[j].id # e.id)
    BY <1>1, <2>2, <2>5
  <2>. QED  BY <1>1, <2>2, <2>4, <2>6, <2>7 DEF Arrives
<1>. QED  BY <1>3, <1>4, <1>5

-----------------------------------------------------------------------------
(* The user and the connection.                                            *)

\* What the assumptions and the types say, for the steps.
LEMMA Unpacked ==
    ASSUME HomeChatAssumption, MessageInv
    PROVE  /\ view \in Messages!World /\ log \in [Chats -> Seq(Mine \cup Theirs)]
           /\ awaited \subseteq Theirs /\ moves \in 0 .. MaxEffort /\ MaxEffort \in Nat
           /\ Page \in Nat \ {0} /\ Mine \cap Theirs = {}
           /\ \A c \in Chats : log[c] \in Seq(Mine \cup Theirs) /\ Len(log[c]) \in Nat
                                 /\ DOMAIN log[c] = 1 .. Len(log[c])
  BY DEF HomeChatAssumption, Messages!HomeMessagesAssumption, MessageInv, Messages!TypeOK,
         Messages!Ids

\* What is on its way to be shown stays so while the connection and the requests rest.
LEMMA RecoversOn ==
    ASSUME NEW h, NEW g, NEW L, NEW A, NEW B, Recovers(h, L, A),
           ConnectionRests(g, h), AsksRest(g, h), g.selected = h.selected,
           \A x \in Theirs : Covered(h, A, x) => Covered(g, B, x)
    PROVE  Recovers(g, L, B)
<1>1. \A x, k : ToCome(h, x, k) => ToCome(g, x, k)
  BY DEF ToCome, AsksRest
<1>. QED  BY <1>1 DEF Recovers, ConnectionRests, AsksRest

\* An own message is new to every chat and to every request.
LEMMA SendKeeps ==
    ASSUME HomeChatAssumption, MessageInv, NEW m \in Mine, Messages!SendMessage(m)
    PROVE  MessageInv'
<1>. DEFINE s == Messages!Sent(view, {m})
            n == [id |-> m, seq |-> 0, pending |-> TRUE, uncertain |-> FALSE]
            v == Append(view.view, n)
<1>0. /\ view \in Messages!World /\ log \in [Chats -> Seq(Mine \cup Theirs)]
      /\ awaited \subseteq Theirs /\ moves \in 0 .. MaxEffort /\ MaxEffort \in Nat
      /\ Mine \cap Theirs = {}
  BY Unpacked
<1>1. /\ view.state = "ready" /\ view.tries[m] = 0
      /\ log' = log /\ awaited' = awaited /\ moves' = moves
  BY DEF Messages!SendMessage
<1>2. /\ s \in Messages!World
      /\ ConnectionRests(s, view) /\ ScreenRests(s, view) /\ LoadsRest(s, view) /\ AsksRest(s, view)
      /\ s.inbox = view.inbox
      /\ \A i \in Mine : s.tries[i] = IF i \in {m} THEN view.tries[i] + 1 ELSE view.tries[i]
      /\ view.pend \subseteq s.pend /\ \A i \in {m} : \E p \in s.pend : p[1] = i
      /\ \A r \in s.net : r \in view.net \/ (r.id \in {m} /\ r.chat = view.selected)
  <2>1. \A i \in {m} : view.tries[i] <= MaxEffort  BY <1>0, <1>1
  <2>2. {m} \in SUBSET Mine  OBVIOUS
  <2>3. s = Messages!Sent(view, {m})  OBVIOUS
  <2>. HIDE DEF s
  <2>. QED  BY <1>0, <2>1, <2>2, <2>3, SentIs
<1>3. view' = [s EXCEPT !.view = v]
  <2>1. view' = [s EXCEPT !.view = Append(s.view, n)]
    BY DEF Messages!SendMessage
  <2>. HIDE DEF s, n
  <2>. QED  BY <1>2, <2>1 DEF ScreenRests
<1>4. n \in Messages!Message
  BY DEF Messages!Message, Messages!Ids
<1>5. view.view \in Seq(Messages!Message)
  BY <1>0, WorldFields
<1>6. n.id = m /\ n.seq = 0 /\ n.pending /\ ~n.uncertain
  OBVIOUS
<1>. HIDE DEF s, n
<1>7. /\ v \in Seq(Messages!Message) /\ DOMAIN v = DOMAIN view.view \cup {Len(view.view) + 1}
      /\ v[Len(view.view) + 1] = n /\ \A i \in DOMAIN view.view : v[i] = view.view[i]
  BY <1>4, <1>5
<1>. HIDE DEF v
<1>8. /\ view' \in Messages!World /\ view'.view = v /\ view'.selected = view.selected
      /\ view'.cursor = view.cursor /\ view'.inbox = view.inbox
      /\ ConnectionRests(view', view) /\ LoadsRest(view', view) /\ AsksRest(view', view)
      /\ view'.tries = s.tries /\ view'.pend = s.pend /\ view'.net = s.net
  <2>1. /\ view' \in Messages!World /\ view'.view = v /\ view'.selected = s.selected
        /\ view'.cursor = s.cursor /\ view'.inbox = s.inbox
        /\ ConnectionRests(view', s) /\ WireRests(view', s) /\ LoadsRest(view', s)
        /\ AsksRest(view', s)
    BY <1>2, <1>3, <1>7, ShowingIs
  <2>. QED
    BY <1>2, <2>1 DEF ConnectionRests, WireRests, LoadsRest, AsksRest, ScreenRests
<1>9. /\ Logged(log) /\ ViewOf(view.view, view.selected, log) /\ Written(view, log)
      /\ Tried(view, moves) /\ Told(view, log) /\ Fetching(view, log) /\ Timed(view)
      /\ Recovers(view, log, awaited)
  BY DEF MessageInv
<1>10. /\ \A i \in DOMAIN view.view : view.view[i].id # m
       /\ \A c \in Chats : \A i \in DOMAIN log[c] : log[c][i] # m
       /\ \A r \in view.net : r.id # m
  BY <1>1, <1>9 DEF Written
<1>11. Messages!TypeOK'
  BY <1>0, <1>1, <1>8 DEF Messages!TypeOK, Messages!Ids
<1>12. ViewOf(view'.view, view'.selected, log')
  BY <1>1, <1>6, <1>7, <1>8, <1>9, <1>10 DEF ViewOf, Distinct
<1>13. Written(view', log')
  <2>1. \A i \in Mine : view.tries[i] \in Nat  BY <1>0, WorldFields
  <2>2. \A i \in Mine : view'.tries[i] \in Nat /\ view'.tries[i] >= view.tries[i]
    BY <1>2, <1>8, <2>1
  <2>3. view'.tries[m] = 1  BY <1>1, <1>2, <1>8
  <2>4. \A i \in DOMAIN v : v[i].id \in Mine => view'.tries[v[i].id] > 0
    BY <1>6, <1>7, <1>9, <2>1, <2>2, <2>3, <1>8 DEF Written
  <2>5. \A c \in Chats : \A i \in DOMAIN log[c] : log[c][i] \in Mine => view'.tries[log[c][i]] > 0
    BY <1>9, <2>1, <2>2, <1>8 DEF Written
  <2>6. \A r \in view'.net : r.id \in Mine /\ view'.tries[r.id] > 0
    <3>1. \A r \in view.net : r.id \in Mine  BY <1>0, WorldFields DEF Messages!Request
    <3>. QED  BY <1>2, <1>8, <1>9, <2>1, <2>2, <2>3, <3>1 DEF Written
  <2>7. \A r, t \in view'.net : r.id = t.id => r.chat = t.chat
    BY <1>2, <1>8, <1>9, <1>10 DEF Written
  <2>8. \A r \in view'.net : \A c \in Chats : \A i \in DOMAIN log[c] : log[c][i] = r.id => c = r.chat
    BY <1>2, <1>8, <1>9, <1>10 DEF Written
  <2>9. \A r \in view'.net : \A i \in DOMAIN v : v[i].id = r.id => r.chat = view.selected
    BY <1>2, <1>6, <1>7, <1>8, <1>9, <1>10 DEF Written
  <2>. QED  BY <1>1, <1>8, <2>4, <2>5, <2>6, <2>7, <2>8, <2>9 DEF Written
<1>14. Tried(view', moves')
  <2>1. \A i \in Mine : view'.tries[i] <= moves + 1
    BY <1>0, <1>1, <1>2, <1>8, <1>9 DEF Tried
  <2>2. \A i \in DOMAIN view.view : view.view[i].id \in Mine => view'.tries[view.view[i].id] = view.tries[view.view[i].id]
    BY <1>2, <1>8, <1>10
  <2>. QED  BY <1>1, <1>6, <1>7, <1>8, <1>9, <2>1, <2>2 DEF Tried
<1>15. Told(view', log')
  BY <1>1, <1>8, <1>9 DEF Told
<1>16. Fetching(view', log')
  BY <1>1, <1>8, <1>9 DEF Fetching, ConnectionRests, LoadsRest, AsksRest
<1>17. Timed(view')
  <2>1. \A i \in {m} : \E p \in view'.pend : p[1] = i  BY <1>2, <1>8
  <2>2. view.pend \subseteq view'.pend  BY <1>2, <1>8
  <2>. QED  BY <1>6, <1>7, <1>8, <1>9, <2>1, <2>2 DEF Timed
<1>18. Recovers(view', log', awaited')
  BY <1>1, <1>8 DEF Recovers, ConnectionRests
<1>. QED  BY <1>1, <1>9, <1>11, <1>12, <1>13, <1>14, <1>15, <1>16, <1>17, <1>18 DEF MessageInv

\* g is the selection of c, and the list may be there.
LEMMA SelectionKeeps ==
    ASSUME HomeChatAssumption, MessageInv, NEW c \in Chats, NEW s, s = Messages!Selected(view, c),
           NEW g, g.state = s.state, g.established = s.established, g.listing => s.listing,
           ScreenRests(g, s), WireRests(g, s), LoadsRest(g, s), AsksRest(g, s),
           g.inbox = s.inbox, NEW n \in Nat, moves <= n
    PROVE  /\ ViewOf(g.view, g.selected, log) /\ Written(g, log) /\ Tried(g, n) /\ Told(g, log)
           /\ Fetching(g, log) /\ Timed(g) /\ Recovers(g, log, awaited)
<1>0. /\ view \in Messages!World /\ log \in [Chats -> Seq(Mine \cup Theirs)]
      /\ moves \in Nat /\ \A d \in Chats : Len(log[d]) \in Nat /\ DOMAIN log[d] = 1 .. Len(log[d])
  BY Unpacked
<1>1. /\ ConnectionRests(s, view) /\ WireRests(s, view) /\ s.inbox = view.inbox
      /\ s.view = <<>> /\ s.selected = c /\ s.cursor = 0 /\ ~s.cut /\ s.loadID = view.loadID + 1
      /\ NewLoad(s, view, c, 0)
      /\ view.state # "recovering" =>
            s.asks = view.asks /\ s.askID = view.askID /\ s.asking = view.asking
      /\ view.state = "recovering" =>
            /\ s.asking /\ s.askID = view.askID + 1
            /\ NewAsk(s, view, c, 0)
  BY <1>0, SelectedIs
<1>2. /\ ViewOf(view.view, view.selected, log) /\ Written(view, log)
      /\ Tried(view, moves) /\ Told(view, log) /\ Fetching(view, log)
  BY DEF MessageInv
<1>3. /\ g.view = <<>> /\ g.selected = c /\ g.cursor = 0
      /\ g.tries = view.tries /\ g.pend = view.pend /\ g.net = view.net /\ g.inbox = view.inbox
      /\ g.loads = s.loads /\ g.loadID = view.loadID + 1
      /\ g.asks = s.asks /\ g.askID = s.askID /\ g.asking = s.asking /\ g.cut = s.cut
      /\ g.state = view.state /\ g.established = view.established
      /\ g.listing => view.listing
  BY <1>1 DEF ScreenRests, WireRests, LoadsRest, AsksRest, ConnectionRests
<1>4. DOMAIN g.view = {}
  BY <1>3
<1>5. ViewOf(g.view, g.selected, log) /\ Timed(g)
  BY <1>4 DEF ViewOf, Distinct, Timed
<1>6. Written(g, log) /\ Told(g, log)
  BY <1>2, <1>3, <1>4 DEF Written, Told
<1>7. Tried(g, n)
  <2>1. \A m \in Mine : view.tries[m] \in Nat  BY <1>0, WorldFields
  <2>. QED  BY <1>0, <1>2, <1>3, <1>4, <2>1 DEF Tried
<1>8. Fetching(g, log)
  <2>1. /\ view.loadID \in Nat /\ view.askID \in Nat
        /\ \A l \in view.loads : l.id \in Nat
        /\ \A a \in view.asks : a.id \in Nat
    BY <1>0, WorldFields DEF Messages!Load, Messages!Ask
  <2>2. g.cursor <= Len(log[g.selected])  BY <1>0, <1>3
  <2>3. \A l \in g.loads :
          /\ l.id <= g.loadID /\ l.before <= Len(log[l.chat])
          /\ l.at = "answered" => PageOf(l.msgs, l.chat, log) /\ l.next <= Len(log[l.chat])
    <3>1. PICK l \in Messages!Load : l.id = s.loadID /\ l.at = "sent" /\ l.before = 0 /\ s.loads = view.loads \cup {l}
      BY <1>1 DEF NewLoad
    <3>2. l.before <= Len(log[l.chat])  BY <1>0, <3>1 DEF Messages!Load
    <3>. QED  BY <1>1, <1>2, <1>3, <2>1, <3>1, <3>2 DEF Fetching
  <2>4. \A a \in g.asks :
          /\ a.id <= g.askID
          /\ a.at = "answered" => /\ PageOf(a.msgs, a.chat, log)
                                  /\ a.more => a.after + Page <= Len(log[a.chat])
          /\ g.asking /\ a.id = g.askID => a.chat = g.selected
          /\ \A b \in g.asks : b.id = a.id => b = a
    <3>1. CASE view.state # "recovering"
      <4>1. ~view.asking  BY <1>2, <3>1 DEF Fetching
      <4>. QED  BY <1>1, <1>2, <1>3, <3>1, <4>1 DEF Fetching
    <3>2. CASE view.state = "recovering"
      <4>1. PICK a \in Messages!Ask :
                  /\ a.id = s.askID /\ a.at = "sent" /\ a.chat = c /\ a.after = 0
                  /\ s.asks = view.asks \cup {a}
        BY <1>1, <3>2 DEF NewAsk
      <4>2. \A b \in view.asks : b.id < s.askID  BY <1>1, <1>2, <2>1, <3>2 DEF Fetching
      <4>. QED  BY <1>1, <1>2, <1>3, <2>1, <3>2, <4>1, <4>2 DEF Fetching
    <3>. QED  BY <3>1, <3>2
  <2>5. g.asking \/ g.listing => g.state = "recovering"
    <3>1. view.asking \/ view.listing => view.state = "recovering"  BY <1>2 DEF Fetching
    <3>. QED  BY <1>1, <1>3, <3>1, Zenon
  <2>. QED  BY <2>2, <2>3, <2>4, <2>5 DEF Fetching
<1>9. Recovers(g, log, awaited)
  <2>. SUFFICES ASSUME g.state = "recovering", NEW k \in DOMAIN log[g.selected]
       PROVE  ToCome(g, log[g.selected][k], k)
    BY DEF Recovers
  <2>1. k > 0  BY <1>0, <1>3
  <2>2. g.state = view.state  BY <1>3
  <2>3. s.asking /\ NewAsk(s, view, c, 0)  BY <1>1, <2>2
  <2>. QED  BY <1>3, <2>1, <2>3 DEF ToCome, NewAsk
<1>. QED  BY <1>5, <1>6, <1>7, <1>8, <1>9

\* Another chat.
LEMMA SelectKeeps ==
    ASSUME HomeChatAssumption, MessageInv, NEW c \in Chats, Messages!SelectConversation(c)
    PROVE  MessageInv'
<1>0. /\ view \in Messages!World /\ log \in [Chats -> Seq(Mine \cup Theirs)]
      /\ awaited \subseteq Theirs /\ moves \in 0 .. MaxEffort /\ MaxEffort \in Nat
  BY Unpacked
<1>1. /\ view' = Messages!Selected(view, c)
      /\ log' = log /\ awaited' = awaited /\ moves < MaxEffort /\ moves' = moves + 1
  BY DEF Messages!SelectConversation, Messages!Spend
<1>2. view' \in Messages!World
  BY <1>0, <1>1, SelectedIs
<1>3. Messages!TypeOK'
  BY <1>0, <1>1, <1>2 DEF Messages!TypeOK, Messages!Ids
<1>4. /\ ViewOf(view'.view, view'.selected, log) /\ Written(view', log) /\ Tried(view', moves')
      /\ Told(view', log) /\ Fetching(view', log) /\ Timed(view') /\ Recovers(view', log, awaited)
  <2>1. moves' \in Nat /\ moves <= moves'  BY <1>0, <1>1
  <2>. QED
    BY <1>1, <2>1, SelectionKeeps DEF ScreenRests, WireRests, LoadsRest, AsksRest
<1>. QED  BY <1>1, <1>3, <1>4 DEF MessageInv

\* The list of a recovery: the chat is selected again and reconciled from its start.
LEMMA ListKeeps ==
    ASSUME HomeChatAssumption, MessageInv, Messages!ListCame
    PROVE  MessageInv'
<1>. DEFINE s == Messages!Selected(view, view.selected)
<1>0. /\ view \in Messages!World /\ log \in [Chats -> Seq(Mine \cup Theirs)]
      /\ awaited \subseteq Theirs /\ moves \in 0 .. MaxEffort /\ MaxEffort \in Nat
      /\ view.selected \in Chats
  BY Unpacked, WorldFields
<1>1. /\ view' = [s EXCEPT !.listing = FALSE]
      /\ log' = log /\ awaited' = awaited /\ moves' = moves
  BY DEF Messages!ListCame
<1>2. s \in Messages!World
  BY <1>0, SelectedIs
<1>5. s = Messages!Selected(view, view.selected)  OBVIOUS
<1>. HIDE DEF s
<1>6. view' \in Messages!World
  <2>1. FALSE \in BOOLEAN  OBVIOUS
  <2>. QED  BY ZenonT(60), <1>1, <1>2, <2>1 DEF Messages!World
<1>3. Messages!TypeOK'
  BY <1>0, <1>1, <1>6 DEF Messages!TypeOK, Messages!Ids
<1>7. /\ view'.state = s.state /\ view'.established = s.established /\ ~view'.listing
      /\ ScreenRests(view', s) /\ WireRests(view', s) /\ LoadsRest(view', s) /\ AsksRest(view', s)
      /\ view'.inbox = s.inbox
  BY <1>1, <1>2 DEF Messages!World, ScreenRests, WireRests, LoadsRest, AsksRest
<1>4. /\ ViewOf(view'.view, view'.selected, log) /\ Written(view', log) /\ Tried(view', moves)
      /\ Told(view', log) /\ Fetching(view', log) /\ Timed(view') /\ Recovers(view', log, awaited)
  <2>1. moves \in Nat /\ moves <= moves /\ (view'.listing => s.listing)  BY <1>0, <1>7
  <2>. QED  BY <1>0, <1>5, <1>7, <2>1, SelectionKeeps
<1>. QED  BY <1>1, <1>3, <1>4 DEF MessageInv

\* A cursor is a place in the chat.
LEMMA OlderKeeps ==
    ASSUME HomeChatAssumption, MessageInv, Messages!LoadOlderMessages
    PROVE  MessageInv'
<1>0. /\ view \in Messages!World /\ log \in [Chats -> Seq(Mine \cup Theirs)]
      /\ awaited \subseteq Theirs /\ moves \in 0 .. MaxEffort
      /\ view.cursor \in Nat /\ view.loadID \in Nat /\ view.loads \in SUBSET Messages!Load
  BY Unpacked, WorldFields
<1>1. /\ view' = Messages!Loaded(view, view.cursor)
      /\ log' = log /\ awaited' = awaited /\ moves' = moves
  BY DEF Messages!LoadOlderMessages
<1>2. /\ view' \in Messages!World
      /\ ConnectionRests(view', view) /\ ScreenRests(view', view) /\ WireRests(view', view)
      /\ AsksRest(view', view) /\ view'.inbox = view.inbox /\ view'.loadID = view.loadID + 1
      /\ NewLoad(view', view, view.selected, view.cursor)
  BY <1>0, <1>1, LoadedIs
<1>3. /\ Logged(log) /\ ViewOf(view.view, view.selected, log) /\ Written(view, log)
      /\ Tried(view, moves) /\ Told(view, log) /\ Fetching(view, log) /\ Timed(view)
      /\ Recovers(view, log, awaited)
  BY DEF MessageInv
<1>4. Messages!TypeOK'
  BY <1>0, <1>1, <1>2 DEF Messages!TypeOK, Messages!Ids
<1>5. /\ ViewOf(view'.view, view'.selected, log) /\ Written(view', log)
      /\ Tried(view', moves) /\ Told(view', log) /\ Timed(view')
  BY <1>2, <1>3 DEF ScreenRests, WireRests, Written, Tried, Told, Timed
<1>6. Fetching(view', log)
  <2>1. PICK l \in Messages!Load :
          /\ l.id = view'.loadID /\ l.at = "sent" /\ l.chat = view.selected
          /\ l.before = view.cursor /\ view'.loads = view.loads \cup {l}
    BY <1>2 DEF NewLoad
  <2>2. \A k \in view.loads : k.id \in Nat  BY <1>0 DEF Messages!Load
  <2>3. \A k \in view'.loads :
          /\ k.id <= view'.loadID /\ k.before <= Len(log[k.chat])
          /\ k.at = "answered" => PageOf(k.msgs, k.chat, log) /\ k.next <= Len(log[k.chat])
    BY <1>0, <1>2, <1>3, <2>1, <2>2 DEF Fetching
  <2>. QED
    BY <1>2, <1>3, <2>3 DEF Fetching, ScreenRests, AsksRest, ConnectionRests
<1>7. Recovers(view', log, awaited)
  BY <1>2, <1>3, RecoversOn DEF ScreenRests, Covered
<1>. QED  BY <1>1, <1>3, <1>4, <1>5, <1>6, <1>7 DEF MessageInv

\* No reconciliation survives a connection, so the next one is asked for alone.
LEMMA OpensKeeps ==
    ASSUME HomeChatAssumption, MessageInv, Messages!Opens
    PROVE  MessageInv'
<1>. DEFINE h == [view EXCEPT !.state = "recovering"]
            k == [h EXCEPT !.listing = TRUE]
<1>0. /\ view \in Messages!World /\ log \in [Chats -> Seq(Mine \cup Theirs)]
      /\ awaited \subseteq Theirs /\ moves \in 0 .. MaxEffort /\ view.selected \in Chats
      /\ view.askID \in Nat /\ view.asks \in SUBSET Messages!Ask
      /\ view.view \in Seq(Messages!Message)
      /\ \A c \in Chats : Len(log[c]) \in Nat /\ DOMAIN log[c] = 1 .. Len(log[c])
  BY Unpacked, WorldFields
<1>1. /\ view.state = "offline" /\ log' = log /\ awaited' = awaited /\ moves' = moves
      /\ h.established => view' = k
      /\ ~h.established => view' = Messages!Reconcile(h, Messages!Newest(h))
  BY DEF Messages!Opens
<1>2. /\ h \in Messages!World /\ h.state = "recovering" /\ h.established = view.established
      /\ ScreenRests(h, view) /\ WireRests(h, view) /\ LoadsRest(h, view) /\ AsksRest(h, view)
      /\ h.inbox = view.inbox /\ h.listing = view.listing
  <2>1. h \in Messages!World
    <3>1. "recovering" \in {"offline", "recovering", "ready"}  OBVIOUS
    <3>. QED  BY ZenonT(60), <1>0, <3>1 DEF Messages!World
  <2>. QED
    BY <1>0, <2>1 DEF Messages!World, ScreenRests, WireRests, LoadsRest, AsksRest
<1>. HIDE DEF h
<1>3. /\ k \in Messages!World /\ k.state = "recovering" /\ k.established = h.established
      /\ ScreenRests(k, h) /\ WireRests(k, h) /\ LoadsRest(k, h) /\ AsksRest(k, h)
      /\ k.inbox = h.inbox /\ k.listing
  <2>1. k \in Messages!World
    <3>1. TRUE \in BOOLEAN  OBVIOUS
    <3>. QED  BY ZenonT(60), <1>2, <3>1 DEF Messages!World
  <2>. QED
    BY <1>2, <2>1 DEF Messages!World, ScreenRests, WireRests, LoadsRest, AsksRest
<1>. HIDE DEF k
<1>4. /\ Logged(log) /\ ViewOf(view.view, view.selected, log) /\ Written(view, log)
      /\ Tried(view, moves) /\ Told(view, log) /\ Fetching(view, log) /\ Timed(view)
      /\ Recovers(view, log, awaited)
  BY DEF MessageInv
<1>5. ~view.asking /\ ~view.listing
  BY <1>1, <1>4 DEF Fetching
<1>6. CASE h.established
  <2>1. view' = k  BY <1>1, <1>6
  <2>2. Messages!TypeOK'
    BY <1>0, <1>1, <1>3, <2>1 DEF Messages!TypeOK, Messages!Ids
  <2>3. /\ ViewOf(k.view, k.selected, log) /\ Written(k, log)
        /\ Tried(k, moves) /\ Told(k, log) /\ Timed(k)
    BY <1>2, <1>3, <1>4 DEF ScreenRests, WireRests, Written, Tried, Told, Timed
  <2>4. Fetching(k, log)
    BY <1>2, <1>3, <1>4, <1>5 DEF Fetching, ScreenRests, LoadsRest, AsksRest
  <2>5. Recovers(k, log, awaited)
    BY <1>3 DEF Recovers
  <2>. QED  BY <1>1, <1>4, <2>1, <2>2, <2>3, <2>4, <2>5 DEF MessageInv
<1>7. CASE ~h.established
  <2>0. Messages!Newest(h) \in Nat
    <3>1. h.view = view.view /\ h.selected = view.selected  BY <1>2 DEF ScreenRests
    <3>2. \A i \in DOMAIN h.view : h.view[i].seq <= Len(log[view.selected])
      <4>. TAKE i \in DOMAIN h.view
      <4>1. h.view[i].seq \in Nat  BY <1>0, <3>1, ViewFields
      <4>2. h.view[i].seq # 0 => h.view[i].seq \in DOMAIN log[view.selected]
        BY <1>4, <3>1 DEF ViewOf, Placed
      <4>. QED  BY <1>0, <4>1, <4>2
    <3>. QED  BY <1>0, <1>2, <3>2, NewestIs
  <2>1. view' = Messages!Reconcile(h, Messages!Newest(h))  BY <1>1, <1>7
  <2>2. /\ view' \in Messages!World
        /\ ConnectionRests(view', h) /\ ScreenRests(view', h) /\ WireRests(view', h)
        /\ LoadsRest(view', h) /\ view'.inbox = h.inbox /\ view'.askID = h.askID + 1
        /\ view'.asking /\ NewAsk(view', h, h.selected, Messages!Newest(h))
    BY <1>2, <2>0, <2>1, ReconcileIs
  <2>3. /\ view'.state = "recovering" /\ view'.established = view.established
        /\ ScreenRests(view', view) /\ WireRests(view', view) /\ LoadsRest(view', view)
        /\ view'.inbox = view.inbox /\ view'.askID = view.askID + 1
        /\ view'.asking /\ NewAsk(view', view, view.selected, Messages!Newest(h))
    BY <1>2, <2>2
    DEF ConnectionRests, ScreenRests, WireRests, LoadsRest, AsksRest, NewAsk
  <2>4. Messages!TypeOK'
    BY <1>0, <1>1, <2>2 DEF Messages!TypeOK, Messages!Ids
  <2>5. /\ ViewOf(view'.view, view'.selected, log) /\ Written(view', log)
        /\ Tried(view', moves) /\ Told(view', log) /\ Timed(view')
    BY <1>4, <2>3 DEF ScreenRests, WireRests, Written, Tried, Told, Timed
  <2>6. Fetching(view', log)
    <3>1. PICK a \in Messages!Ask :
            /\ a.id = view'.askID /\ a.at = "sent" /\ a.chat = view.selected
            /\ view'.asks = view.asks \cup {a}
      BY <2>3 DEF NewAsk
    <3>2. \A b \in view.asks : b.id \in Nat /\ b.id < view'.askID
      BY <1>0, <1>4, <2>3 DEF Messages!Ask, Fetching
    <3>3. \A b \in view'.asks :
            /\ b.id <= view'.askID
            /\ b.at = "answered" => /\ PageOf(b.msgs, b.chat, log)
                                    /\ b.more => b.after + Page <= Len(log[b.chat])
            /\ view'.asking /\ b.id = view'.askID => b.chat = view.selected
            /\ \A d \in view'.asks : d.id = b.id => d = b
      BY <1>0, <1>4, <2>3, <3>1, <3>2 DEF Fetching
    <3>. QED  BY <1>4, <2>3, <3>3 DEF Fetching, ScreenRests, LoadsRest
  <2>7. Recovers(view', log, awaited)
    BY <1>2, <1>7, <2>3 DEF Recovers
  <2>. QED  BY <1>1, <1>4, <2>4, <2>5, <2>6, <2>7 DEF MessageInv
<1>. QED  BY <1>6, <1>7

\* A replay of what h shows, when h differs from the view in its connection only.
LEMMA ReplayKeeps ==
    ASSUME HomeChatAssumption, MessageInv, NEW h \in Messages!World,
           h.state = "ready", ScreenRests(h, view), WireRests(h, view), LoadsRest(h, view),
           AsksRest(h, view), h.inbox = view.inbox, ~h.asking, ~h.listing,
           NEW g, g = Messages!Replayed(h)
    PROVE  /\ g \in Messages!World /\ g.state = "ready" /\ DOMAIN g.view = DOMAIN view.view
           /\ \A i \in DOMAIN view.view : g.view[i].id = view.view[i].id
           /\ ViewOf(g.view, g.selected, log) /\ Written(g, log) /\ Tried(g, moves)
           /\ Told(g, log) /\ Fetching(g, log) /\ Timed(g) /\ Recovers(g, log, awaited)
<1>0. /\ view \in Messages!World /\ log \in [Chats -> Seq(Mine \cup Theirs)]
      /\ moves \in 0 .. MaxEffort /\ MaxEffort \in Nat
      /\ view.view \in Seq(Messages!Message)
  BY Unpacked, WorldFields
<1>1. /\ Logged(log) /\ ViewOf(view.view, view.selected, log) /\ Written(view, log)
      /\ Tried(view, moves) /\ Told(view, log) /\ Fetching(view, log) /\ Timed(view)
  BY DEF MessageInv
<1>2. /\ h.view = view.view /\ h.selected = view.selected /\ h.cursor = view.cursor
      /\ h.tries = view.tries /\ h.pend = view.pend /\ h.net = view.net
  BY DEF ScreenRests, WireRests
<1>3. \A m \in Mine : view.tries[m] \in Nat
  BY <1>0, WorldFields
<1>4. \A m \in Mine : Again(view.view, m) => view.tries[m] <= moves
  BY <1>1 DEF Again, Tried
<1>5. /\ g \in Messages!World
      /\ ConnectionRests(g, h) /\ LoadsRest(g, h) /\ AsksRest(g, h)
      /\ g.inbox = h.inbox /\ g.selected = h.selected /\ g.cursor = h.cursor
      /\ \A m \in Mine :
            g.tries[m] = IF Again(h.view, m) THEN h.tries[m] + 1 ELSE h.tries[m]
      /\ h.pend \subseteq g.pend
      /\ \A m \in Mine : Again(h.view, m) => \E p \in g.pend : p[1] = m
      /\ \A r \in g.net : \/ r \in h.net
                          \/ Again(h.view, r.id) /\ r.chat = h.selected
      /\ DOMAIN g.view = DOMAIN h.view
      /\ \A i \in DOMAIN h.view :
            /\ g.view[i].id = h.view[i].id /\ g.view[i].seq = h.view[i].seq
            /\ g.view[i].uncertain = h.view[i].uncertain
            /\ g.view[i].pending <=> h.view[i].pending \/ Again(h.view, h.view[i].id)
  <2>1. \A m \in Mine : Again(h.view, m) => h.tries[m] <= MaxEffort
    BY <1>0, <1>2, <1>3, <1>4
  <2>. QED  BY <1>0, <2>1, ReplayedIs
<1>6. /\ g.selected = view.selected /\ g.cursor = view.cursor /\ g.inbox = view.inbox
      /\ g.state = "ready" /\ ~g.asking /\ ~g.listing
      /\ g.loads = view.loads /\ g.loadID = view.loadID
      /\ g.asks = view.asks /\ g.askID = view.askID
  BY <1>2, <1>5 DEF ConnectionRests, LoadsRest, AsksRest
<1>7. /\ DOMAIN g.view = DOMAIN view.view
      /\ \A i \in DOMAIN view.view : g.view[i].id = view.view[i].id /\ g.view[i].seq = view.view[i].seq
  BY <1>2, <1>5
<1>8. ViewOf(g.view, g.selected, log)
  BY <1>1, <1>6, <1>7 DEF ViewOf, Distinct
<1>9. Written(g, log)
  <2>1. \A m \in Mine : g.tries[m] \in Nat /\ g.tries[m] >= view.tries[m]
    BY <1>2, <1>3, <1>5
  <2>2. \A r \in g.net : \/ r \in view.net
                         \/ Again(view.view, r.id) /\ r.chat = view.selected
    BY <1>2, <1>5
  <2>3. \A i \in DOMAIN g.view : g.view[i].id \in Mine => g.tries[g.view[i].id] > 0
    BY <1>1, <1>3, <1>7, <2>1 DEF Written
  <2>4. \A c \in Chats : \A i \in DOMAIN log[c] : log[c][i] \in Mine => g.tries[log[c][i]] > 0
    BY <1>1, <1>3, <2>1 DEF Written
  <2>5. \A r \in view.net : r.id \in Mine
    BY <1>0, WorldFields DEF Messages!Request
  <2>6. \A m : Again(view.view, m) =>
           /\ m \in Mine /\ view.tries[m] > 0
           /\ \A s \in view.net : s.id = m => s.chat = view.selected
           /\ \A c \in Chats : \A i \in DOMAIN log[c] : log[c][i] = m => c = view.selected
    BY <1>1 DEF Again, Written, ViewOf
  <2>7. \A r \in g.net : g.tries[r.id] > 0
    BY <1>1, <1>3, <2>1, <2>2, <2>5, <2>6 DEF Written
  <2>8. \A r, s \in g.net : s.id = r.id => s.chat = r.chat
    BY <1>1, <2>2, <2>6 DEF Written
  <2>9. \A r \in g.net : \A c \in Chats : \A i \in DOMAIN log[c] : log[c][i] = r.id => c = r.chat
    BY <1>1, <2>2, <2>6 DEF Written
  <2>10. \A r \in g.net : \A i \in DOMAIN g.view : g.view[i].id = r.id => r.chat = g.selected
    BY <1>1, <1>6, <1>7, <2>2 DEF Written
  <2>. QED  BY <2>3, <2>4, <2>7, <2>8, <2>9, <2>10 DEF Written
<1>10. Tried(g, moves)
  <2>1. \A m \in Mine : g.tries[m] <= moves + 1
    BY <1>0, <1>1, <1>2, <1>3, <1>4, <1>5 DEF Tried
  <2>2. ASSUME NEW i \in DOMAIN g.view, g.view[i].id \in Mine, g.view[i].uncertain,
               ~g.view[i].pending
        PROVE  FALSE
    <3>1. view.view[i].uncertain /\ ~view.view[i].pending /\ view.view[i].id \in Mine
      BY <1>2, <1>5, <1>7, <2>2
    <3>2. Again(view.view, view.view[i].id)  BY <1>7, <3>1 DEF Again
    <3>. QED  BY <1>2, <1>5, <1>7, <2>2, <3>2
  <2>. QED  BY <2>1, <2>2 DEF Tried
<1>11. Told(g, log)
  BY <1>1, <1>6 DEF Told
<1>12. Fetching(g, log)
  BY <1>1, <1>6 DEF Fetching
<1>13. Timed(g)
  <2>. SUFFICES ASSUME NEW i \in DOMAIN g.view, g.view[i].pending
       PROVE  \E p \in g.pend : p[1] = g.view[i].id
    BY DEF Timed
  <2>1. CASE view.view[i].pending
    BY <1>1, <1>2, <1>5, <1>7, <2>1 DEF Timed
  <2>2. CASE Again(view.view, view.view[i].id)
    <3>1. view.view[i].id \in Mine  BY <2>2 DEF Again
    <3>. QED  BY <1>2, <1>5, <1>7, <2>2, <3>1
  <2>. QED  BY <1>2, <1>5, <1>7, <2>1, <2>2
<1>14. Recovers(g, log, awaited)
  BY <1>6 DEF Recovers
<1>. QED  BY <1>5, <1>6, <1>7, <1>8, <1>9, <1>10, <1>11, <1>12, <1>13, <1>14

\* What a step into "ready" loses of the chat is on its way, and the invariant is kept.
LEMMA ReadyKeeps ==
    ASSUME HomeChatAssumption, MessageInv, Messages!Ready
    PROVE  MessageInv' /\ Messages!RecoveryIsComplete
<1>. DEFINE h == [view EXCEPT !.state = "ready", !.established = TRUE]
<1>0. /\ view \in Messages!World /\ log \in [Chats -> Seq(Mine \cup Theirs)]
      /\ awaited \subseteq Theirs /\ moves \in 0 .. MaxEffort
      /\ view.view \in Seq(Messages!Message) /\ view.selected \in Chats
  BY Unpacked, WorldFields
<1>1. /\ view.state = "recovering" /\ ~view.listing /\ ~view.asking
      /\ view' = Messages!Replayed(h)
      /\ log' = log /\ awaited' = awaited /\ moves' = moves
  BY DEF Messages!Ready
<1>2. /\ h \in Messages!World /\ h.state = "ready" /\ h.listing = view.listing
      /\ ScreenRests(h, view) /\ WireRests(h, view) /\ LoadsRest(h, view) /\ AsksRest(h, view)
      /\ h.inbox = view.inbox
  <2>1. h \in Messages!World
    <3>1. "ready" \in {"offline", "recovering", "ready"} /\ TRUE \in BOOLEAN  OBVIOUS
    <3>. QED  BY ZenonT(60), <1>0, <3>1 DEF Messages!World
  <2>. QED
    BY <1>0, <2>1 DEF Messages!World, ScreenRests, WireRests, LoadsRest, AsksRest
<1>. HIDE DEF h
<1>3. ~h.asking /\ ~h.listing
  BY <1>1, <1>2 DEF AsksRest
<1>4. /\ view' \in Messages!World /\ DOMAIN view'.view = DOMAIN view.view
      /\ \A i \in DOMAIN view.view : view'.view[i].id = view.view[i].id
      /\ ViewOf(view'.view, view'.selected, log) /\ Written(view', log) /\ Tried(view', moves)
      /\ Told(view', log) /\ Fetching(view', log) /\ Timed(view')
      /\ Recovers(view', log, awaited)
  BY <1>1, <1>2, <1>3, ReplayKeeps
<1>5. Messages!TypeOK'
  BY <1>0, <1>1, <1>4 DEF Messages!TypeOK, Messages!Ids
<1>6. MessageInv'
  BY <1>1, <1>4, <1>5 DEF MessageInv
<1>7. Messages!RecoveryIsComplete
  <2>. SUFFICES ASSUME view.established, ~view.cut,
                       NEW x \in Theirs \cap Messages!Range(log[view.selected])
       PROVE  \/ \E m \in Messages!Shown(view') : m.id = x
              \/ x \in awaited
              \/ \E e \in view.inbox : e.id = x
    BY DEF Messages!RecoveryIsComplete
  <2>1. PICK k \in DOMAIN log[view.selected] : log[view.selected][k] = x
    BY DEF Messages!Range
  <2>2. Recovers(view, log, awaited)  BY DEF MessageInv
  <2>3. Covered(view, awaited, x)
    BY <1>1, <2>1, <2>2 DEF Recovers, ToCome
  <2>4. CASE \E i \in DOMAIN view.view : view.view[i].id = x
    <3>1. PICK i \in DOMAIN view'.view : view'.view[i].id = x  BY <1>4, <2>4
    <3>2. view'.view \in Seq(Messages!Message)  BY <1>4, WorldFields
    <3>3. view'.view[i] \in Messages!Shown(view')  BY <3>2 DEF Messages!Shown
    <3>. QED  BY <3>1, <3>3
  <2>. QED  BY <2>3, <2>4 DEF Covered
<1>. QED  BY <1>6, <1>7

\* A later snapshot.
LEMMA ReadyAgainKeeps ==
    ASSUME HomeChatAssumption, MessageInv, Messages!ReadyAgain
    PROVE  MessageInv'
<1>0. /\ view \in Messages!World /\ log \in [Chats -> Seq(Mine \cup Theirs)]
      /\ awaited \subseteq Theirs /\ moves \in 0 .. MaxEffort
  BY Unpacked
<1>1. /\ view.state = "ready" /\ view' = Messages!Replayed(view)
      /\ log' = log /\ awaited' = awaited /\ moves' = moves
  BY DEF Messages!ReadyAgain
<1>2. ~view.asking /\ ~view.listing
  BY <1>1 DEF MessageInv, Fetching
<1>3. /\ ScreenRests(view, view) /\ WireRests(view, view) /\ LoadsRest(view, view)
      /\ AsksRest(view, view)
  BY DEF ScreenRests, WireRests, LoadsRest, AsksRest
<1>4. /\ view' \in Messages!World
      /\ ViewOf(view'.view, view'.selected, log) /\ Written(view', log) /\ Tried(view', moves)
      /\ Told(view', log) /\ Fetching(view', log) /\ Timed(view')
      /\ Recovers(view', log, awaited)
  BY <1>0, <1>1, <1>2, <1>3, ReplayKeeps
<1>5. Messages!TypeOK'
  BY <1>0, <1>1, <1>4 DEF Messages!TypeOK, Messages!Ids
<1>. QED  BY <1>1, <1>4, <1>5 DEF MessageInv

\* What is lost with a connection is lost altogether.
LEMMA DropKeeps ==
    ASSUME HomeChatAssumption, MessageInv, Messages!Drop
    PROVE  MessageInv'
<1>. DEFINE net == {[r EXCEPT !.live = FALSE] : r \in view.net}
<1>0. /\ view \in Messages!World /\ log \in [Chats -> Seq(Mine \cup Theirs)]
      /\ awaited \subseteq Theirs /\ moves \in 0 .. MaxEffort /\ MaxEffort \in Nat
      /\ view.net \in SUBSET Messages!Request
  BY Unpacked, WorldFields
<1>1. /\ view' = [view EXCEPT !.state = "offline", !.listing = FALSE, !.asking = FALSE,
                              !.asks = {}, !.inbox = {}, !.net = net]
      /\ log' = log /\ awaited' = awaited /\ moves < MaxEffort /\ moves' = moves + 1
  BY DEF Messages!Drop, Messages!Spend
<1>2. \A r \in net : /\ r \in Messages!Request
                     /\ \E s \in view.net : s.id = r.id /\ s.chat = r.chat
  <2>. SUFFICES ASSUME NEW s \in view.net, NEW r, r = [s EXCEPT !.live = FALSE]
       PROVE  r \in Messages!Request /\ s.id = r.id /\ s.chat = r.chat
    OBVIOUS
  <2>. QED  BY <1>0 DEF Messages!Request
<1>. HIDE DEF net
<1>3. view' \in Messages!World
  <2>1. /\ "offline" \in {"offline", "recovering", "ready"} /\ FALSE \in BOOLEAN
        /\ {} \in SUBSET Messages!Ask /\ {} \in SUBSET Messages!Event
        /\ net \in SUBSET Messages!Request
    BY <1>2
  <2>. QED  BY ZenonT(60), <1>0, <1>1, <2>1 DEF Messages!World
<1>4. /\ view'.state = "offline" /\ ~view'.listing /\ ~view'.asking /\ view'.asks = {}
      /\ view'.inbox = {} /\ view'.net = net /\ ScreenRests(view', view)
      /\ LoadsRest(view', view) /\ view'.tries = view.tries /\ view'.pend = view.pend
  BY <1>0, <1>1 DEF Messages!World, ScreenRests, LoadsRest
<1>5. /\ Logged(log) /\ ViewOf(view.view, view.selected, log) /\ Written(view, log)
      /\ Tried(view, moves) /\ Fetching(view, log) /\ Timed(view)
  BY DEF MessageInv
<1>6. Messages!TypeOK'
  BY <1>0, <1>1, <1>3 DEF Messages!TypeOK, Messages!Ids
<1>7. ViewOf(view'.view, view'.selected, log) /\ Told(view', log) /\ Timed(view')
  BY <1>4, <1>5 DEF ScreenRests, Told, Timed
<1>8. Written(view', log)
  BY <1>2, <1>4, <1>5 DEF Written, ScreenRests
<1>9. Tried(view', moves')
  <2>1. \A m \in Mine : view.tries[m] \in Nat  BY <1>0, WorldFields
  <2>. QED  BY <1>0, <1>1, <1>4, <1>5, <2>1 DEF Tried, ScreenRests
<1>10. Fetching(view', log)
  BY <1>4, <1>5 DEF Fetching, ScreenRests, LoadsRest
<1>11. Recovers(view', log, awaited)
  BY <1>4 DEF Recovers
<1>. QED  BY <1>1, <1>5, <1>6, <1>7, <1>8, <1>9, <1>10, <1>11 DEF MessageInv

-----------------------------------------------------------------------------
(* The services.                                                           *)

\* M is L with one more message in chat c.
Grown(M, L, c, x) ==
    /\ M \in [Chats -> Seq(Mine \cup Theirs)]
    /\ \A d \in Chats :
          /\ Len(L[d]) \in Nat /\ Len(M[d]) \in Nat /\ Len(L[d]) <= Len(M[d])
          /\ DOMAIN L[d] = 1 .. Len(L[d]) /\ DOMAIN M[d] = 1 .. Len(M[d])
          /\ \A k \in DOMAIN L[d] : k \in DOMAIN M[d] /\ M[d][k] = L[d][k]
          /\ \A k \in DOMAIN M[d] :
                \/ k \in DOMAIN L[d]
                \/ d = c /\ k = Len(L[d]) + 1 /\ M[d][k] = x
    /\ Len(L[c]) + 1 \in DOMAIN M[c] /\ M[c][Len(L[c]) + 1] = x

\* A chat is extended at its end.
LEMMA AppendGrows ==
    ASSUME NEW L \in [Chats -> Seq(Mine \cup Theirs)], NEW c \in Chats,
           NEW x \in Mine \cup Theirs, NEW M, M = [L EXCEPT ![c] = Append(L[c], x)]
    PROVE  Grown(M, L, c, x)
<1>1. \A d \in Chats : L[d] \in Seq(Mine \cup Theirs)
  OBVIOUS
<1>2. /\ M \in [Chats -> Seq(Mine \cup Theirs)] /\ M[c] = Append(L[c], x)
      /\ \A d \in Chats : d # c => M[d] = L[d]
  OBVIOUS
<1>3. \A d \in Chats :
          /\ Len(L[d]) \in Nat /\ Len(M[d]) \in Nat /\ Len(L[d]) <= Len(M[d])
          /\ DOMAIN L[d] = 1 .. Len(L[d]) /\ DOMAIN M[d] = 1 .. Len(M[d])
          /\ \A k \in DOMAIN L[d] : k \in DOMAIN M[d] /\ M[d][k] = L[d][k]
          /\ \A k \in DOMAIN M[d] :
                \/ k \in DOMAIN L[d]
                \/ d = c /\ k = Len(L[d]) + 1 /\ M[d][k] = x
  <2>. TAKE d \in Chats
  <2>1. CASE d # c  BY <1>1, <1>2, <2>1
  <2>2. CASE d = c  BY <1>1, <1>2, <2>2
  <2>. QED  BY <2>1, <2>2
<1>4. Len(L[c]) + 1 \in DOMAIN M[c] /\ M[c][Len(L[c]) + 1] = x
  BY <1>1, <1>2
<1>. QED  BY <1>2, <1>3, <1>4 DEF Grown

\* What is in a chat stays at its place.
LEMMA GrownKeeps ==
    ASSUME NEW h \in Messages!World, NEW L, NEW M, NEW c \in Chats, NEW x,
           Grown(M, L, c, x), Logged(L), Page \in Nat,
           \A d \in Chats : \A k \in DOMAIN L[d] : L[d][k] # x
    PROVE  /\ Logged(M)
           /\ Told(h, L) => Told(h, M)
           /\ Fetching(h, L) => Fetching(h, M)
           /\ \A d \in Chats : \A q, id : Placed(L, d, q, id) => Placed(M, d, q, id)
<1>1. \A d \in Chats : \A q, id : Placed(L, d, q, id) => Placed(M, d, q, id)
  BY DEF Grown, Placed
<1>2. Logged(M)
  <2>1. \A d, e \in Chats : \A i \in DOMAIN M[d], j \in DOMAIN M[e] :
           M[d][i] = M[e][j] => d = e /\ i = j
    <3>. SUFFICES ASSUME NEW d \in Chats, NEW e \in Chats, NEW i \in DOMAIN M[d],
                         NEW j \in DOMAIN M[e], M[d][i] = M[e][j]
         PROVE  d = e /\ i = j
      OBVIOUS
    <3>1. CASE i \in DOMAIN L[d] /\ j \in DOMAIN L[e]
      BY <3>1 DEF Grown, Logged
    <3>2. CASE i \notin DOMAIN L[d] \/ j \notin DOMAIN L[e]
      BY <3>2 DEF Grown
    <3>. QED  BY <3>1, <3>2
  <2>. QED  BY <2>1 DEF Grown, Logged, Messages!Ids
<1>3. \A d \in Chats : \A msgs : PageOf(msgs, d, L) => PageOf(msgs, d, M)
  BY <1>1 DEF PageOf
<1>4. Told(h, L) => Told(h, M)
  <2>1. \A e \in h.inbox : e.chat \in Chats
    BY WorldFields DEF Messages!Event
  <2>. QED  BY <1>1, <2>1 DEF Told
<1>5. ASSUME Fetching(h, L)  PROVE Fetching(h, M)
  <2>1. /\ h.selected \in Chats /\ h.cursor \in Nat
        /\ \A l \in h.loads : l.chat \in Chats /\ l.before \in Nat /\ l.next \in Nat
        /\ \A a \in h.asks : a.chat \in Chats /\ a.after \in Nat
    BY WorldFields DEF Messages!Load, Messages!Ask
  <2>2. \A d \in Chats : \A n \in Nat : n <= Len(L[d]) => n <= Len(M[d])
    BY DEF Grown
  <2>3. h.cursor <= Len(M[h.selected])
    BY <1>5, <2>1, <2>2 DEF Fetching
  <2>4. \A l \in h.loads :
          /\ l.id <= h.loadID /\ l.before <= Len(M[l.chat])
          /\ l.at = "answered" => PageOf(l.msgs, l.chat, M) /\ l.next <= Len(M[l.chat])
    BY <1>3, <1>5, <2>1, <2>2 DEF Fetching
  <2>5. \A a \in h.asks :
          /\ a.id <= h.askID
          /\ a.at = "answered" => PageOf(a.msgs, a.chat, M)
          /\ h.asking /\ a.id = h.askID => a.chat = h.selected
          /\ \A b \in h.asks : b.id = a.id => b = a
    BY <1>3, <1>5, <2>1 DEF Fetching
  <2>6. \A a \in h.asks : a.at = "answered" /\ a.more => a.after + Page <= Len(M[a.chat])
    <3>. SUFFICES ASSUME NEW a \in h.asks, a.at = "answered", a.more
         PROVE  a.after + Page <= Len(M[a.chat])
      OBVIOUS
    <3>1. a.after + Page <= Len(L[a.chat])  BY <1>5 DEF Fetching
    <3>2. a.after + Page \in Nat  BY <2>1
    <3>. QED  BY <2>1, <2>2, <3>1, <3>2
  <2>7. h.asking \/ h.listing => h.state = "recovering"
    BY <1>5 DEF Fetching
  <2>. QED  BY <2>3, <2>4, <2>5, <2>6, <2>7 DEF Fetching
<1>. QED  BY <1>1, <1>2, <1>4, <1>5

\* Where a message is in a chat, or would be.
LEMMA PositionIs ==
    ASSUME NEW c, NEW m
    PROVE  \/ /\ \A i \in DOMAIN log[c] : log[c][i] # m
              /\ Messages!Position(c, m) = Len(log[c]) + 1
           \/ Placed(log, c, Messages!Position(c, m), m)
  BY DEF Messages!Position, Placed

\* A message of a chat was sent to that chat, and that is where it is stored.
LEMMA AcceptKeeps ==
    ASSUME HomeChatAssumption, MessageInv, NEW r \in view.net, Messages!ServerAccepts(r)
    PROVE  MessageInv'
<1>. DEFINE at == Messages!Position(r.chat, r.id)
            e == [kind |-> "accepted", id |-> r.id, try |-> r.try, seq |-> at, chat |-> r.chat]
            came == IF r.live THEN {e} ELSE {}
            inbox == view.inbox \cup came
            net == view.net \ {r}
<1>0. /\ view \in Messages!World /\ log \in [Chats -> Seq(Mine \cup Theirs)]
      /\ awaited \subseteq Theirs /\ moves \in 0 .. MaxEffort
      /\ view.net \in SUBSET Messages!Request /\ view.inbox \in SUBSET Messages!Event
      /\ view.view \in Seq(Messages!Message) /\ view.selected \in Chats
      /\ Mine \cap Theirs = {} /\ Page \in Nat
      /\ \A c \in Chats : Len(log[c]) \in Nat /\ DOMAIN log[c] = 1 .. Len(log[c])
  BY Unpacked, WorldFields
<1>1. r.id \in Mine /\ r.chat \in Chats /\ r.try \in Nat
  BY <1>0 DEF Messages!Request
<1>2. /\ Logged(log) /\ ViewOf(view.view, view.selected, log) /\ Written(view, log)
      /\ Tried(view, moves) /\ Told(view, log) /\ Fetching(view, log) /\ Timed(view)
      /\ Recovers(view, log, awaited)
  BY DEF MessageInv
<1>3. /\ log' = [log EXCEPT ![r.chat] = IF at <= Len(log[r.chat]) THEN log[r.chat]
                                        ELSE Append(log[r.chat], r.id)]
      /\ view' = [view EXCEPT !.net = net, !.inbox = inbox]
      /\ awaited' = awaited /\ moves' = moves
  BY DEF Messages!ServerAccepts
<1>4. /\ log' \in [Chats -> Seq(Mine \cup Theirs)] /\ Logged(log')
      /\ Told(view, log') /\ Fetching(view, log')
      /\ \A d \in Chats : \A q, id : Placed(log, d, q, id) => Placed(log', d, q, id)
      /\ \A d \in Chats : \A k \in DOMAIN log'[d] :
            \/ k \in DOMAIN log[d] /\ log'[d][k] = log[d][k]
            \/ d = r.chat /\ log'[d][k] = r.id
      /\ Placed(log', r.chat, at, r.id) /\ at \in Nat
  <2>1. CASE Placed(log, r.chat, at, r.id)
    <3>1. at <= Len(log[r.chat]) /\ at \in Nat  BY <1>0, <1>1, <2>1 DEF Placed
    <3>2. log' = log  BY <1>0, <1>3, <3>1
    <3>. QED  BY <1>0, <1>2, <2>1, <3>1, <3>2
  <2>2. CASE (\A i \in DOMAIN log[r.chat] : log[r.chat][i] # r.id) /\ at = Len(log[r.chat]) + 1
    <3>1. ~(at <= Len(log[r.chat])) /\ at \in Nat  BY <1>0, <1>1, <2>2
    <3>2. log' = [log EXCEPT ![r.chat] = Append(log[r.chat], r.id)]  BY <1>3, <3>1
    <3>3. Grown(log', log, r.chat, r.id)
      BY <1>0, <1>1, <3>2, AppendGrows
    <3>4. \A d \in Chats : \A k \in DOMAIN log[d] : log[d][k] # r.id
      BY <1>1, <1>2, <2>2 DEF Written
    <3>5. /\ Logged(log') /\ Told(view, log') /\ Fetching(view, log')
          /\ \A d \in Chats : \A q, id : Placed(log, d, q, id) => Placed(log', d, q, id)
      BY <1>0, <1>1, <1>2, <3>3, <3>4, GrownKeeps
    <3>. QED  BY <1>1, <2>2, <3>1, <3>3, <3>5 DEF Grown, Placed
  <2>. HIDE DEF at
  <2>3. at = Messages!Position(r.chat, r.id)  BY DEF at
  <2>. QED  BY <2>1, <2>2, <2>3, PositionIs
<1>5. e \in Messages!Event /\ e.kind # "rejected" /\ Placed(log', e.chat, e.seq, e.id)
  <2>. HIDE DEF at
  <2>. QED  BY <1>1, <1>4 DEF Messages!Event, Messages!Ids
<1>. HIDE DEF at, e
<1>6. inbox \in SUBSET Messages!Event /\ view.inbox \subseteq inbox
      /\ \A f \in inbox : f \in view.inbox \/ f = e
  BY <1>0, <1>5
<1>7. net \in SUBSET Messages!Request /\ net \subseteq view.net
  BY <1>0
<1>. HIDE DEF came, inbox, net
<1>8. view' \in Messages!World
  BY ZenonT(60), <1>0, <1>3, <1>6, <1>7 DEF Messages!World
<1>9. /\ ConnectionRests(view', view) /\ ScreenRests(view', view) /\ LoadsRest(view', view)
      /\ AsksRest(view', view) /\ view'.tries = view.tries /\ view'.pend = view.pend
      /\ view'.net = net /\ view'.inbox = inbox
  BY <1>0, <1>3 DEF Messages!World, ConnectionRests, ScreenRests, LoadsRest, AsksRest
<1>10. Messages!TypeOK'
  BY <1>0, <1>3, <1>4, <1>8 DEF Messages!TypeOK, Messages!Ids
<1>11. ViewOf(view'.view, view'.selected, log')
  <2>1. \A i \in DOMAIN view.view : view.view[i].seq # 0 =>
           Placed(log', view.selected, view.view[i].seq, view.view[i].id)
    BY <1>0, <1>2, <1>4 DEF ViewOf
  <2>2. \A i \in DOMAIN view.view : \A d \in Chats \ {view.selected} :
           \A k \in DOMAIN log'[d] : log'[d][k] # view.view[i].id
    BY <1>1, <1>2, <1>4 DEF ViewOf, Written
  <2>. QED  BY <1>2, <1>9, <2>1, <2>2 DEF ViewOf, ScreenRests
<1>12. Written(view', log')
  <2>1. \A d \in Chats : \A k \in DOMAIN log'[d] : log'[d][k] \in Mine => view.tries[log'[d][k]] > 0
    BY <1>1, <1>2, <1>4 DEF Written
  <2>2. \A s \in net : \A d \in Chats : \A k \in DOMAIN log'[d] : log'[d][k] = s.id => d = s.chat
    BY <1>1, <1>2, <1>4, <1>7 DEF Written
  <2>. QED  BY <1>2, <1>7, <1>9, <2>1, <2>2 DEF Written, ScreenRests
<1>13. Tried(view', moves') /\ Timed(view')
  BY <1>2, <1>3, <1>9 DEF Tried, Timed, ScreenRests
<1>14. Told(view', log')
  BY <1>4, <1>5, <1>6, <1>9 DEF Told
<1>15. Fetching(view', log')
  BY <1>4, <1>9 DEF Fetching, ConnectionRests, ScreenRests, LoadsRest, AsksRest
<1>16. Recovers(view', log', awaited')
  <2>1. \A x : Covered(view, awaited, x) => Covered(view', awaited, x)
    BY <1>6, <1>9 DEF Covered, ScreenRests
  <2>2. \A x, k : ToCome(view, x, k) => ToCome(view', x, k)
    BY <1>9 DEF ToCome, AsksRest
  <2>3. \A k \in DOMAIN log'[view.selected] : log'[view.selected][k] \in Theirs =>
           k \in DOMAIN log[view.selected] /\ log'[view.selected][k] = log[view.selected][k]
    BY <1>0, <1>1, <1>4
  <2>. QED
    BY <1>2, <1>3, <1>9, <2>1, <2>2, <2>3 DEF Recovers, ConnectionRests, ScreenRests, AsksRest
<1>. QED
  BY <1>4, <1>10, <1>11, <1>12, <1>13, <1>14, <1>15, <1>16 DEF MessageInv

\* A rejection names an own message.
LEMMA RejectKeeps ==
    ASSUME HomeChatAssumption, MessageInv, NEW r \in view.net, Messages!ServerRejects(r)
    PROVE  MessageInv'
<1>. DEFINE e == [kind |-> "rejected", id |-> r.id, try |-> r.try, seq |-> 0, chat |-> r.chat]
            inbox == view.inbox \cup {e}
            net == view.net \ {r}
<1>0. /\ view \in Messages!World /\ log \in [Chats -> Seq(Mine \cup Theirs)]
      /\ awaited \subseteq Theirs /\ moves \in 0 .. MaxEffort /\ MaxEffort \in Nat
      /\ view.net \in SUBSET Messages!Request /\ view.inbox \in SUBSET Messages!Event
  BY Unpacked, WorldFields
<1>1. /\ view' = [view EXCEPT !.net = net, !.inbox = inbox]
      /\ log' = log /\ awaited' = awaited /\ moves < MaxEffort /\ moves' = moves + 1
  BY DEF Messages!ServerRejects, Messages!Spend
<1>2. e \in Messages!Event /\ e.kind = "rejected" /\ e.id \in Mine
  BY <1>0 DEF Messages!Event, Messages!Request, Messages!Ids
<1>. HIDE DEF e
<1>3. /\ inbox \in SUBSET Messages!Event /\ view.inbox \subseteq inbox
      /\ \A f \in inbox : f \in view.inbox \/ f = e
      /\ net \in SUBSET Messages!Request /\ net \subseteq view.net
  BY <1>0, <1>2
<1>. HIDE DEF inbox, net
<1>4. view' \in Messages!World
  BY ZenonT(60), <1>0, <1>1, <1>3 DEF Messages!World
<1>5. /\ ConnectionRests(view', view) /\ ScreenRests(view', view) /\ LoadsRest(view', view)
      /\ AsksRest(view', view) /\ view'.tries = view.tries /\ view'.pend = view.pend
      /\ view'.net = net /\ view'.inbox = inbox
  BY <1>0, <1>1 DEF Messages!World, ConnectionRests, ScreenRests, LoadsRest, AsksRest
<1>6. /\ Logged(log) /\ ViewOf(view.view, view.selected, log) /\ Written(view, log)
      /\ Tried(view, moves) /\ Told(view, log) /\ Fetching(view, log) /\ Timed(view)
      /\ Recovers(view, log, awaited)
  BY DEF MessageInv
<1>7. Messages!TypeOK'
  BY <1>0, <1>1, <1>4 DEF Messages!TypeOK, Messages!Ids
<1>8. /\ ViewOf(view'.view, view'.selected, log) /\ Timed(view')
      /\ Fetching(view', log)
  BY <1>5, <1>6 DEF Timed, Fetching, ConnectionRests, ScreenRests, LoadsRest, AsksRest
<1>9. Written(view', log)
  BY <1>3, <1>5, <1>6 DEF Written, ScreenRests
<1>10. Tried(view', moves')
  <2>1. \A m \in Mine : view.tries[m] \in Nat  BY <1>0, WorldFields
  <2>. QED  BY <1>0, <1>1, <1>5, <1>6, <2>1 DEF Tried, ScreenRests
<1>11. Told(view', log)
  BY <1>2, <1>3, <1>5, <1>6 DEF Told
<1>12. Recovers(view', log, awaited)
  <2>1. \A x : Covered(view, awaited, x) => Covered(view', awaited, x)
    BY <1>3, <1>5 DEF Covered, ScreenRests
  <2>. QED  BY <1>5, <1>6, <2>1, RecoversOn DEF ScreenRests
<1>. QED  BY <1>1, <1>6, <1>7, <1>8, <1>9, <1>10, <1>11, <1>12 DEF MessageInv

\* A message of a peer is new to every chat and waits to be delivered.
LEMMA PeerKeeps ==
    ASSUME HomeChatAssumption, MessageInv, NEW c \in Chats, NEW m \in Theirs,
           Messages!PeerSends(c, m)
    PROVE  MessageInv'
<1>0. /\ view \in Messages!World /\ log \in [Chats -> Seq(Mine \cup Theirs)]
      /\ awaited \subseteq Theirs /\ moves \in 0 .. MaxEffort
      /\ view.net \in SUBSET Messages!Request /\ view.selected \in Chats
      /\ view.view \in Seq(Messages!Message) /\ Mine \cap Theirs = {} /\ Page \in Nat
  BY Unpacked, WorldFields
<1>1. /\ \A d \in Chats : m \notin Messages!Range(log[d])
      /\ log' = [log EXCEPT ![c] = Append(log[c], m)]
      /\ awaited' = awaited \cup {m} /\ view' = view /\ moves' = moves
  BY DEF Messages!PeerSends
<1>2. /\ Logged(log) /\ ViewOf(view.view, view.selected, log) /\ Written(view, log)
      /\ Tried(view, moves) /\ Told(view, log) /\ Fetching(view, log) /\ Timed(view)
      /\ Recovers(view, log, awaited)
  BY DEF MessageInv
<1>3. \A d \in Chats : \A k \in DOMAIN log[d] : log[d][k] # m
  BY <1>1 DEF Messages!Range
<1>4. Grown(log', log, c, m)
  BY <1>0, <1>1, AppendGrows
<1>5. /\ Logged(log') /\ Told(view, log') /\ Fetching(view, log')
      /\ \A d \in Chats : \A q, id : Placed(log, d, q, id) => Placed(log', d, q, id)
  BY <1>0, <1>2, <1>3, <1>4, GrownKeeps
<1>6. \A d \in Chats : \A k \in DOMAIN log'[d] :
         \/ k \in DOMAIN log[d] /\ log'[d][k] = log[d][k]
         \/ log'[d][k] = m
  BY <1>4 DEF Grown
<1>7. Messages!TypeOK'
  <2>1. log' \in [Chats -> Seq(Mine \cup Theirs)]  BY <1>4 DEF Grown
  <2>. QED  BY <1>0, <1>1, <2>1 DEF Messages!TypeOK, Messages!Ids
<1>8. \A i \in DOMAIN view.view : view.view[i].id # m
  BY <1>0, <1>2, <1>3 DEF ViewOf, Placed
<1>9. ViewOf(view.view, view.selected, log')
  <2>1. \A i \in DOMAIN view.view : view.view[i].seq # 0 =>
           Placed(log', view.selected, view.view[i].seq, view.view[i].id)
    BY <1>0, <1>2, <1>5 DEF ViewOf
  <2>2. \A i \in DOMAIN view.view : \A d \in Chats \ {view.selected} :
           \A k \in DOMAIN log'[d] : log'[d][k] # view.view[i].id
    BY <1>2, <1>6, <1>8 DEF ViewOf
  <2>. QED  BY <1>2, <2>1, <2>2 DEF ViewOf
<1>10. Written(view, log')
  <2>1. \A d \in Chats : \A k \in DOMAIN log'[d] : log'[d][k] \in Mine => view.tries[log'[d][k]] > 0
    <3>. SUFFICES ASSUME NEW d \in Chats, NEW k \in DOMAIN log'[d], log'[d][k] \in Mine
         PROVE  view.tries[log'[d][k]] > 0
      OBVIOUS
    <3>1. log'[d][k] # m  BY <1>0
    <3>2. k \in DOMAIN log[d] /\ log'[d][k] = log[d][k]  BY <1>6, <3>1
    <3>. QED  BY <1>2, <3>2 DEF Written
  <2>2. \A s \in view.net : s.id \in Mine  BY <1>0 DEF Messages!Request
  <2>3. \A s \in view.net : \A d \in Chats : \A k \in DOMAIN log'[d] : log'[d][k] = s.id => d = s.chat
    BY <1>0, <1>2, <1>6, <2>2 DEF Written
  <2>. QED  BY <1>2, <2>1, <2>3 DEF Written
<1>11. Recovers(view, log', awaited')
  <2>1. \A x : Covered(view, awaited, x) => Covered(view, awaited', x)
    BY <1>1 DEF Covered
  <2>2. Covered(view, awaited', m)
    BY <1>1 DEF Covered
  <2>. QED  BY <1>0, <1>2, <1>6, <2>1, <2>2 DEF Recovers
<1>. QED  BY <1>1, <1>2, <1>5, <1>7, <1>9, <1>10, <1>11 DEF MessageInv

\* What is delivered is stored, and on its way when its row goes.
LEMMA DeliverKeeps ==
    ASSUME HomeChatAssumption, MessageInv, NEW c \in Chats, NEW m \in Theirs,
           Messages!Deliver(c, m)
    PROVE  MessageInv'
<1>. DEFINE at == Messages!Position(c, m)
            e == [kind |-> "created", id |-> m, try |-> 0, seq |-> at, chat |-> c]
            inbox == view.inbox \cup {e}
<1>0. /\ view \in Messages!World /\ log \in [Chats -> Seq(Mine \cup Theirs)]
      /\ awaited \subseteq Theirs /\ moves \in 0 .. MaxEffort /\ MaxEffort \in Nat
      /\ view.inbox \in SUBSET Messages!Event
      /\ \A d \in Chats : Len(log[d]) \in Nat /\ DOMAIN log[d] = 1 .. Len(log[d])
  BY Unpacked, WorldFields
<1>1. /\ m \in Messages!Range(log[c])
      /\ view' = [view EXCEPT !.inbox = inbox] /\ log' = log
      /\ awaited' \subseteq awaited /\ awaited \subseteq awaited' \cup {m}
      /\ (moves' = moves \/ (moves < MaxEffort /\ moves' = moves + 1))
  BY DEF Messages!Deliver, Messages!Spend
<1>2. Placed(log, c, at, m)
  <2>1. \E k \in DOMAIN log[c] : log[c][k] = m  BY <1>1 DEF Messages!Range
  <2>. QED  BY <2>1, PositionIs
<1>3. at \in Nat
  BY <1>0, <1>2 DEF Placed
<1>4. /\ e \in Messages!Event /\ e.kind # "rejected" /\ Placed(log, e.chat, e.seq, e.id)
      /\ e.id = m
  <2>. HIDE DEF at
  <2>. QED  BY <1>2, <1>3 DEF Messages!Event, Messages!Ids
<1>. HIDE DEF at, e
<1>5. inbox \in SUBSET Messages!Event /\ view.inbox \subseteq inbox /\ e \in inbox
      /\ \A f \in inbox : f \in view.inbox \/ f = e
  BY <1>0, <1>4
<1>. HIDE DEF inbox
<1>6. view' \in Messages!World
  BY ZenonT(60), <1>0, <1>1, <1>5 DEF Messages!World
<1>7. /\ ConnectionRests(view', view) /\ ScreenRests(view', view) /\ WireRests(view', view)
      /\ LoadsRest(view', view) /\ AsksRest(view', view) /\ view'.inbox = inbox
  BY <1>0, <1>1 DEF Messages!World, ConnectionRests, ScreenRests, WireRests, LoadsRest, AsksRest
<1>8. /\ Logged(log) /\ ViewOf(view.view, view.selected, log) /\ Written(view, log)
      /\ Tried(view, moves) /\ Told(view, log) /\ Fetching(view, log) /\ Timed(view)
      /\ Recovers(view, log, awaited)
  BY DEF MessageInv
<1>9. Messages!TypeOK'
  BY <1>0, <1>1, <1>6 DEF Messages!TypeOK, Messages!Ids
<1>10. /\ ViewOf(view'.view, view'.selected, log) /\ Timed(view') /\ Written(view', log)
       /\ Fetching(view', log)
  BY <1>7, <1>8
  DEF Timed, Written, Fetching, ConnectionRests, ScreenRests, WireRests, LoadsRest, AsksRest
<1>11. Tried(view', moves')
  <2>1. \A i \in Mine : view.tries[i] \in Nat  BY <1>0, WorldFields
  <2>. QED  BY <1>0, <1>1, <1>7, <1>8, <2>1 DEF Tried, ScreenRests, WireRests
<1>12. Told(view', log)
  BY <1>4, <1>5, <1>7, <1>8 DEF Told
<1>13. Recovers(view', log, awaited')
  <2>1. \A x : Covered(view, awaited, x) => Covered(view', awaited', x)
    BY <1>1, <1>4, <1>5, <1>7 DEF Covered, ScreenRests
  <2>. QED  BY <1>7, <1>8, <2>1, RecoversOn DEF ScreenRests
<1>. QED  BY <1>1, <1>8, <1>9, <1>10, <1>11, <1>12, <1>13 DEF MessageInv

-----------------------------------------------------------------------------
(* The pages of history and of a reconciliation.                           *)

\* s has what chat c of L has from first to last.
Copies(s, L, c, first, last) ==
    /\ s \in Seq(Messages!Message) /\ PageOf(s, c, L)
    /\ \A k \in first .. last : \E i \in DOMAIN s : s[i].id = L[c][k]

\* A page has what is stored at its places.
LEMMA StoredIs ==
    ASSUME log \in [Chats -> Seq(Mine \cup Theirs)], NEW c \in Chats,
           NEW first \in Nat \ {0}, NEW last \in Nat, last <= Len(log[c])
    PROVE  Copies(Messages!Stored(c, first, last), log, c, first, last)
<1>. DEFINE s == Messages!Stored(c, first, last)
            n == IF first <= last THEN last - first + 1 ELSE 0
            row(i) == [id |-> log[c][first + i - 1], seq |-> first + i - 1,
                       pending |-> FALSE, uncertain |-> FALSE]
<1>1. n \in Nat /\ 1 .. last - first + 1 = 1 .. n
  OBVIOUS
<1>2. s = [i \in 1 .. n |-> row(i)]
  BY <1>1 DEF Messages!Stored
<1>3. \A i \in 1 .. n : first + i - 1 \in DOMAIN log[c] /\ first + i - 1 \in Nat
  <2>1. log[c] \in Seq(Mine \cup Theirs)  OBVIOUS
  <2>2. DOMAIN log[c] = 1 .. Len(log[c]) /\ Len(log[c]) \in Nat  BY <2>1
  <2>. QED  BY <2>2
<1>4. \A i \in 1 .. n :
         /\ row(i) \in Messages!Message /\ row(i).id = log[c][first + i - 1]
         /\ row(i).seq = first + i - 1 /\ ~row(i).pending /\ ~row(i).uncertain
  <2>1. log[c] \in Seq(Mine \cup Theirs)  OBVIOUS
  <2>2. \A i \in DOMAIN log[c] : log[c][i] \in Mine \cup Theirs  BY <2>1
  <2>. QED  BY <1>3, <2>2 DEF Messages!Message, Messages!Ids
<1>5. \A k \in first .. last : k - first + 1 \in 1 .. n /\ first + (k - first + 1) - 1 = k
  OBVIOUS
<1>. HIDE DEF n, row, s
<1>6. s \in [1 .. n -> Messages!Message] /\ DOMAIN s = 1 .. n
      /\ \A i \in 1 .. n : s[i] = row(i)
  BY <1>2, <1>4
<1>7. s \in Seq(Messages!Message)
  BY <1>1, <1>6
<1>8. PageOf(s, c, log)
  <2>1. \A i \in DOMAIN s : /\ s[i].seq > 0 /\ Placed(log, c, s[i].seq, s[i].id)
                            /\ ~s[i].pending /\ ~s[i].uncertain
    BY <1>3, <1>4, <1>6 DEF Placed
  <2>2. \A i, j \in DOMAIN s : s[i].seq = s[j].seq => i = j
    <3>. SUFFICES ASSUME NEW i \in DOMAIN s, NEW j \in DOMAIN s, s[i].seq = s[j].seq
         PROVE  i = j
      OBVIOUS
    <3>1. first + i - 1 = first + j - 1  BY <1>4, <1>6
    <3>. QED  BY <1>1, <1>6, <3>1
  <2>. QED  BY <2>1, <2>2 DEF PageOf
<1>9. \A k \in first .. last : \E i \in DOMAIN s : s[i].id = log[c][k]
  <2>. TAKE k \in first .. last
  <2>1. k - first + 1 \in DOMAIN s /\ s[k - first + 1].id = log[c][k]
    BY <1>4, <1>5, <1>6
  <2>. QED  BY <2>1
<1>. QED  BY <1>7, <1>8, <1>9 DEF s, Copies

\* v may take the place of the view, and has all it shows and the page.
Fits(v, msgs) ==
    /\ v \in Seq(Messages!Message) /\ ViewOf(v, view.selected, log)
    /\ \A i \in DOMAIN v : v[i].id \in Mine => view.tries[v[i].id] > 0
    /\ \A r \in view.net : \A i \in DOMAIN v : v[i].id = r.id => r.chat = view.selected
    /\ \A i \in DOMAIN v : v[i].id \in Mine /\ v[i].uncertain /\ ~v[i].pending
                             => view.tries[v[i].id] <= moves
    /\ \A i \in DOMAIN v : v[i].pending => \E p \in view.pend : p[1] = v[i].id
    /\ \A i \in DOMAIN view.view : \E k \in DOMAIN v : v[k].id = view.view[i].id
    /\ \A i \in DOMAIN msgs : \E k \in DOMAIN v : v[k].id = msgs[i].id

\* A page of the chat that is selected can be merged into its view.
LEMMA MergeKeeps ==
    ASSUME HomeChatAssumption, MessageInv, NEW msgs \in Seq(Messages!Message),
           PageOf(msgs, view.selected, log)
    PROVE  Fits(Messages!Merged(view.view, msgs), msgs)
<1>. DEFINE v == Messages!Merged(view.view, msgs)
<1>8. v = Messages!Merged(view.view, msgs)  OBVIOUS
<1>. HIDE DEF v
<1>0. view.view \in Seq(Messages!Message) /\ view.selected \in Chats
  BY Unpacked, WorldFields
<1>1. /\ Logged(log) /\ ViewOf(view.view, view.selected, log) /\ Written(view, log)
      /\ Tried(view, moves) /\ Timed(view)
  BY DEF MessageInv
<1>2. Distinct(msgs)
  <2>. SUFFICES ASSUME NEW i \in DOMAIN msgs, NEW j \in DOMAIN msgs, msgs[i].id = msgs[j].id
       PROVE  i = j
    BY DEF Distinct
  <2>1. /\ Placed(log, view.selected, msgs[i].seq, msgs[i].id)
        /\ Placed(log, view.selected, msgs[j].seq, msgs[j].id)
    BY DEF PageOf
  <2>2. msgs[i].seq = msgs[j].seq
    BY <1>0, <1>1, <2>1 DEF Placed, Logged
  <2>. QED  BY <2>2 DEF PageOf
<1>3. /\ v \in Seq(Messages!Message) /\ Distinct(v)
      /\ \A k \in DOMAIN v : \/ \E i \in DOMAIN msgs : msgs[i] = v[k]
                             \/ \E i \in DOMAIN view.view : view.view[i] = v[k]
      /\ \A i \in DOMAIN msgs : \E k \in DOMAIN v : msgs[i] = v[k]
      /\ \A i \in DOMAIN view.view : \E k \in DOMAIN v : view.view[i].id = v[k].id
  <2>1. Distinct(view.view)  BY <1>1 DEF ViewOf
  <2>2. MergeOf(v, view.view, msgs)  BY <1>0, <1>8, <1>2, <2>1, MergedIs
  <2>. QED  BY <2>2 DEF MergeOf
<1>4. \A i \in DOMAIN msgs :
         /\ msgs[i].seq # 0 /\ Placed(log, view.selected, msgs[i].seq, msgs[i].id)
         /\ ~msgs[i].pending /\ ~msgs[i].uncertain
         /\ \A d \in Chats \ {view.selected} : \A k \in DOMAIN log[d] : log[d][k] # msgs[i].id
         /\ msgs[i].id \in Mine => view.tries[msgs[i].id] > 0
         /\ \A r \in view.net : msgs[i].id = r.id => r.chat = view.selected
  <2>. TAKE i \in DOMAIN msgs
  <2>1. /\ msgs[i].seq > 0 /\ Placed(log, view.selected, msgs[i].seq, msgs[i].id)
        /\ ~msgs[i].pending /\ ~msgs[i].uncertain
    BY DEF PageOf
  <2>2. PICK q \in DOMAIN log[view.selected] : log[view.selected][q] = msgs[i].id
    BY <2>1 DEF Placed
  <2>. QED  BY <1>0, <1>1, <2>1, <2>2 DEF Logged, Written
<1>5. ViewOf(v, view.selected, log)
  <2>1. \A k \in DOMAIN v :
           /\ v[k].seq # 0 => Placed(log, view.selected, v[k].seq, v[k].id)
           /\ v[k].seq = 0 => v[k].id \in Mine
           /\ \A d \in Chats \ {view.selected} : \A q \in DOMAIN log[d] : log[d][q] # v[k].id
    <3>. TAKE k \in DOMAIN v
    <3>1. CASE \E i \in DOMAIN msgs : msgs[i] = v[k]  BY <1>4, <3>1
    <3>2. CASE \E i \in DOMAIN view.view : view.view[i] = v[k]  BY <1>1, <3>2 DEF ViewOf
    <3>. QED  BY <1>3, <3>1, <3>2
  <2>. QED  BY <1>3, <2>1 DEF ViewOf
<1>6. \A k \in DOMAIN v :
         /\ v[k].id \in Mine => view.tries[v[k].id] > 0
         /\ \A r \in view.net : v[k].id = r.id => r.chat = view.selected
  <2>. TAKE k \in DOMAIN v
  <2>1. CASE \E i \in DOMAIN msgs : msgs[i] = v[k]  BY <1>4, <2>1
  <2>2. CASE \E i \in DOMAIN view.view : view.view[i] = v[k]  BY <1>1, <2>2 DEF Written
  <2>. QED  BY <1>3, <2>1, <2>2
<1>7. \A k \in DOMAIN v :
         /\ v[k].id \in Mine /\ v[k].uncertain /\ ~v[k].pending => view.tries[v[k].id] <= moves
         /\ v[k].pending => \E p \in view.pend : p[1] = v[k].id
  <2>. TAKE k \in DOMAIN v
  <2>1. CASE \E i \in DOMAIN msgs : msgs[i] = v[k]
    <3>1. ~v[k].pending /\ ~v[k].uncertain  BY <1>4, <2>1
    <3>. QED  BY <3>1
  <2>2. CASE \E i \in DOMAIN view.view : view.view[i] = v[k]
    <3>1. PICK i \in DOMAIN view.view : view.view[i] = v[k]  BY <2>2
    <3>2. view.view[i].id \in Mine /\ view.view[i].uncertain /\ ~view.view[i].pending
             => view.tries[view.view[i].id] <= moves
      BY <1>1 DEF Tried
    <3>3. view.view[i].pending => \E p \in view.pend : p[1] = view.view[i].id
      BY <1>1 DEF Timed
    <3>. QED  BY <3>1, <3>2, <3>3
  <2>. QED  BY <1>3, <2>1, <2>2
<1>. QED  BY <1>8, <1>3, <1>5, <1>6, <1>7 DEF Fits

\* The newest messages before a cursor are copied from the chat.
LEMMA LoadsKeeps ==
    ASSUME HomeChatAssumption, MessageInv, NEW l \in view.loads, Messages!ServerLoads(l)
    PROVE  MessageInv'
<1>. DEFINE last == IF l.before = 0 THEN Len(log[l.chat]) ELSE l.before - 1
            first == IF last > Page THEN last - Page + 1 ELSE 1
            msgs == Messages!Stored(l.chat, first, last)
            next == IF first > 1 THEN first ELSE 0
            k == [l EXCEPT !.at = "answered", !.msgs = msgs, !.next = next]
            loads == (view.loads \ {l}) \cup {k}
<1>0. /\ view \in Messages!World /\ log \in [Chats -> Seq(Mine \cup Theirs)]
      /\ awaited \subseteq Theirs /\ moves \in 0 .. MaxEffort /\ Page \in Nat \ {0}
      /\ view.loads \in SUBSET Messages!Load /\ view.selected \in Chats
      /\ \A d \in Chats : Len(log[d]) \in Nat /\ DOMAIN log[d] = 1 .. Len(log[d])
  BY Unpacked, WorldFields
<1>1. /\ view' = [view EXCEPT !.loads = loads]
      /\ log' = log /\ awaited' = awaited /\ moves' = moves
  BY DEF Messages!ServerLoads
<1>2. /\ Logged(log) /\ ViewOf(view.view, view.selected, log) /\ Written(view, log)
      /\ Tried(view, moves) /\ Told(view, log) /\ Fetching(view, log) /\ Timed(view)
      /\ Recovers(view, log, awaited)
  BY DEF MessageInv
<1>3. l \in Messages!Load /\ l.chat \in Chats /\ l.before \in Nat /\ l.id \in Nat
      /\ l.before <= Len(log[l.chat]) /\ l.id <= view.loadID
  BY <1>0, <1>2 DEF Messages!Load, Fetching
<1>4. last \in Nat /\ last <= Len(log[l.chat])
  BY <1>0, <1>3
<1>5. first \in Nat \ {0} /\ next \in Nat /\ next <= Len(log[l.chat])
  <2>. HIDE DEF last
  <2>. QED  BY <1>0, <1>3, <1>4
<1>6. msgs \in Seq(Messages!Message) /\ PageOf(msgs, l.chat, log)
  <2>1. msgs = Messages!Stored(l.chat, first, last)  OBVIOUS
  <2>. HIDE DEF msgs, first, last, next
  <2>2. Copies(msgs, log, l.chat, first, last)
    BY <1>0, <1>3, <1>4, <1>5, <2>1, StoredIs
  <2>. QED  BY <2>2 DEF Copies
<1>. HIDE DEF msgs, next, first, last
<1>7. /\ k \in Messages!Load /\ k.id = l.id /\ k.chat = l.chat /\ k.before = l.before
      /\ k.msgs = msgs /\ k.next = next
  BY <1>3, <1>5, <1>6 DEF Messages!Load
<1>. HIDE DEF k
<1>8. /\ loads \in SUBSET Messages!Load
      /\ \A j \in loads : j \in view.loads \/ j = k
  BY <1>0, <1>7
<1>. HIDE DEF loads
<1>9. view' \in Messages!World
  BY ZenonT(60), <1>0, <1>1, <1>8 DEF Messages!World
<1>10. /\ ConnectionRests(view', view) /\ ScreenRests(view', view) /\ WireRests(view', view)
       /\ AsksRest(view', view) /\ view'.inbox = view.inbox /\ view'.loads = loads
       /\ view'.loadID = view.loadID
  BY <1>0, <1>1 DEF Messages!World, ConnectionRests, ScreenRests, WireRests, AsksRest
<1>11. Messages!TypeOK'
  BY <1>0, <1>1, <1>9 DEF Messages!TypeOK, Messages!Ids
<1>12. /\ ViewOf(view'.view, view'.selected, log) /\ Written(view', log)
       /\ Tried(view', moves) /\ Told(view', log) /\ Timed(view')
  BY <1>2, <1>10 DEF ScreenRests, WireRests, Written, Tried, Told, Timed
<1>13. Fetching(view', log)
  <2>1. \A j \in loads :
          /\ j.id <= view.loadID /\ j.before <= Len(log[j.chat])
          /\ j.at = "answered" => PageOf(j.msgs, j.chat, log) /\ j.next <= Len(log[j.chat])
    BY <1>2, <1>3, <1>5, <1>6, <1>7, <1>8 DEF Fetching
  <2>. QED
    BY <1>2, <1>10, <2>1 DEF Fetching, ConnectionRests, ScreenRests, AsksRest
<1>14. Recovers(view', log, awaited)
  BY <1>2, <1>10, RecoversOn DEF ScreenRests, Covered
<1>. QED  BY <1>1, <1>2, <1>11, <1>12, <1>13, <1>14 DEF MessageInv

\* The answer has what is after the cursor, or says that there is more.
LEMMA ReconcilesKeeps ==
    ASSUME HomeChatAssumption, MessageInv, NEW a \in view.asks, Messages!ServerReconciles(a)
    PROVE  MessageInv'
<1>. DEFINE last == IF Len(log[a.chat]) > a.after + Page THEN a.after + Page
                                                         ELSE Len(log[a.chat])
            msgs == Messages!Stored(a.chat, a.after + 1, last)
            more == last < Len(log[a.chat])
            b == [a EXCEPT !.at = "answered", !.msgs = msgs, !.more = more]
            inquiries == (view.asks \ {a}) \cup {b}
<1>0. /\ view \in Messages!World /\ log \in [Chats -> Seq(Mine \cup Theirs)]
      /\ awaited \subseteq Theirs /\ moves \in 0 .. MaxEffort /\ Page \in Nat \ {0}
      /\ view.asks \in SUBSET Messages!Ask /\ view.selected \in Chats
      /\ \A d \in Chats : Len(log[d]) \in Nat /\ DOMAIN log[d] = 1 .. Len(log[d])
  BY Unpacked, WorldFields
<1>1. /\ a.at = "sent" /\ view' = [view EXCEPT !.asks = inquiries]
      /\ log' = log /\ awaited' = awaited /\ moves' = moves
  BY DEF Messages!ServerReconciles
<1>2. /\ Logged(log) /\ ViewOf(view.view, view.selected, log) /\ Written(view, log)
      /\ Tried(view, moves) /\ Told(view, log) /\ Fetching(view, log) /\ Timed(view)
      /\ Recovers(view, log, awaited)
  BY DEF MessageInv
<1>3. a \in Messages!Ask /\ a.chat \in Chats /\ a.after \in Nat /\ a.id \in Nat
  BY <1>0 DEF Messages!Ask
<1>4. /\ last \in Nat /\ last <= Len(log[a.chat]) /\ more \in BOOLEAN
      /\ more => a.after + Page <= Len(log[a.chat])
      /\ \A k \in DOMAIN log[a.chat] :
            k > a.after => k \in a.after + 1 .. last \/ (more /\ k > a.after + Page)
  BY <1>0, <1>3
<1>5. /\ msgs \in Seq(Messages!Message) /\ PageOf(msgs, a.chat, log)
      /\ \A k \in a.after + 1 .. last : \E i \in DOMAIN msgs : msgs[i].id = log[a.chat][k]
  <2>1. msgs = Messages!Stored(a.chat, a.after + 1, last) /\ a.after + 1 \in Nat \ {0}
    BY <1>3
  <2>. HIDE DEF msgs, last
  <2>2. Copies(msgs, log, a.chat, a.after + 1, last)
    BY <1>0, <1>3, <1>4, <2>1, StoredIs
  <2>. QED  BY <2>2 DEF Copies
<1>. HIDE DEF msgs, more, last
<1>6. /\ b \in Messages!Ask /\ b.id = a.id /\ b.chat = a.chat /\ b.after = a.after
      /\ b.at = "answered" /\ b.msgs = msgs /\ b.more = more
  BY <1>3, <1>4, <1>5 DEF Messages!Ask
<1>. HIDE DEF b
<1>7. /\ inquiries \in SUBSET Messages!Ask /\ b \in inquiries
      /\ \A d \in inquiries : (d \in view.asks /\ d # a) \/ d = b
      /\ \A d \in view.asks : d # a => d \in inquiries
  BY <1>0, <1>6
<1>. HIDE DEF inquiries
<1>8. view' \in Messages!World
  BY ZenonT(60), <1>0, <1>1, <1>7 DEF Messages!World
<1>9. /\ ConnectionRests(view', view) /\ ScreenRests(view', view) /\ WireRests(view', view)
      /\ LoadsRest(view', view) /\ view'.inbox = view.inbox /\ view'.asks = inquiries
      /\ view'.askID = view.askID /\ view'.asking = view.asking /\ view'.cut = view.cut
  BY <1>0, <1>1 DEF Messages!World, ConnectionRests, ScreenRests, WireRests, LoadsRest
<1>10. Messages!TypeOK'
  BY <1>0, <1>1, <1>8 DEF Messages!TypeOK, Messages!Ids
<1>11. /\ ViewOf(view'.view, view'.selected, log) /\ Written(view', log)
       /\ Tried(view', moves) /\ Told(view', log) /\ Timed(view')
  BY <1>2, <1>9 DEF ScreenRests, WireRests, Written, Tried, Told, Timed
<1>12. Fetching(view', log)
  <2>1. \A d \in view.asks : d.id = a.id => d = a
    BY <1>2 DEF Fetching
  <2>2. \A d \in inquiries :
          /\ d.id <= view.askID
          /\ d.at = "answered" => /\ PageOf(d.msgs, d.chat, log)
                                  /\ d.more => d.after + Page <= Len(log[d.chat])
          /\ view.asking /\ d.id = view.askID => d.chat = view.selected
    BY <1>2, <1>4, <1>5, <1>6, <1>7 DEF Fetching
  <2>3. \A d, e \in inquiries : e.id = d.id => e = d
    BY <1>2, <1>6, <1>7, <2>1 DEF Fetching
  <2>. QED
    BY <1>2, <1>9, <2>2, <2>3 DEF Fetching, ConnectionRests, ScreenRests, LoadsRest
<1>13. Recovers(view', log, awaited)
  <2>1. \A x : Covered(view, awaited, x) => Covered(view', awaited, x)
    BY <1>9 DEF Covered, ScreenRests
  <2>2. ASSUME NEW k \in DOMAIN log[view.selected], ToCome(view, log[view.selected][k], k)
        PROVE  ToCome(view', log[view.selected][k], k)
    <3>1. view.asking  BY <2>2 DEF ToCome
    <3>2. PICK d \in view.asks :
            /\ d.id = view.askID
            /\ \/ d.at = "sent" /\ k > d.after
               \/ d.at = "answered" /\ \E i \in DOMAIN d.msgs : d.msgs[i].id = log[view.selected][k]
               \/ d.at = "answered" /\ d.more /\ k > d.after + Page
      BY <2>2 DEF ToCome
    <3>3. CASE d # a
      <4>1. d \in inquiries  BY <1>7, <3>3
      <4>. QED  BY <1>9, <3>1, <3>2, <4>1 DEF ToCome
    <3>4. CASE d = a
      <4>1. a.chat = view.selected  BY <1>2, <3>1, <3>2, <3>4 DEF Fetching
      <4>2. k > a.after  BY <1>1, <3>2, <3>4
      <4>3. \/ \E i \in DOMAIN msgs : msgs[i].id = log[view.selected][k]
            \/ more /\ k > a.after + Page
        BY <1>4, <1>5, <4>1, <4>2
      <4>4. \/ \E i \in DOMAIN b.msgs : b.msgs[i].id = log[view.selected][k]
            \/ b.more /\ k > b.after + Page
        BY <1>6, <4>3
      <4>. QED  BY <1>6, <1>7, <1>9, <3>1, <3>2, <3>4, <4>4 DEF ToCome
    <3>. QED  BY <3>3, <3>4
  <2>. QED  BY <1>2, <1>9, <2>1, <2>2 DEF Recovers, ConnectionRests, ScreenRests
<1>. QED  BY <1>1, <1>2, <1>10, <1>11, <1>12, <1>13 DEF MessageInv

\* A page that fails is not waited for any more.
LEMMA FailsKeeps ==
    ASSUME HomeChatAssumption, MessageInv, NEW l \in view.loads, Messages!HistoryFails(l)
    PROVE  MessageInv'
<1>. DEFINE loading == view.loading /\ ~Messages!IsCurrentLoad(l)
            loads == view.loads \ {l}
<1>0. /\ view \in Messages!World /\ log \in [Chats -> Seq(Mine \cup Theirs)]
      /\ awaited \subseteq Theirs /\ moves \in 0 .. MaxEffort /\ MaxEffort \in Nat
      /\ view.loads \in SUBSET Messages!Load
  BY Unpacked, WorldFields
<1>1. /\ view' = [view EXCEPT !.loads = loads, !.loading = loading]
      /\ log' = log /\ awaited' = awaited /\ moves < MaxEffort /\ moves' = moves + 1
  BY DEF Messages!HistoryFails, Messages!Spend
<1>2. /\ Logged(log) /\ ViewOf(view.view, view.selected, log) /\ Written(view, log)
      /\ Tried(view, moves) /\ Told(view, log) /\ Fetching(view, log) /\ Timed(view)
      /\ Recovers(view, log, awaited)
  BY DEF MessageInv
<1>3. loads \in SUBSET Messages!Load /\ loads \subseteq view.loads /\ loading \in BOOLEAN
  BY <1>0
<1>. HIDE DEF loads, loading
<1>4. view' \in Messages!World
  BY ZenonT(60), <1>0, <1>1, <1>3 DEF Messages!World
<1>5. /\ ConnectionRests(view', view) /\ ScreenRests(view', view) /\ WireRests(view', view)
      /\ AsksRest(view', view) /\ view'.inbox = view.inbox /\ view'.loads = loads
      /\ view'.loadID = view.loadID
  BY <1>0, <1>1 DEF Messages!World, ConnectionRests, ScreenRests, WireRests, AsksRest
<1>6. Messages!TypeOK'
  BY <1>0, <1>1, <1>4 DEF Messages!TypeOK, Messages!Ids
<1>7. /\ ViewOf(view'.view, view'.selected, log) /\ Written(view', log)
      /\ Told(view', log) /\ Timed(view')
  BY <1>2, <1>5 DEF ScreenRests, WireRests, Written, Told, Timed
<1>8. Tried(view', moves')
  <2>1. \A i \in Mine : view.tries[i] \in Nat  BY <1>0, WorldFields
  <2>. QED  BY <1>0, <1>1, <1>2, <1>5, <2>1 DEF Tried, ScreenRests, WireRests
<1>9. Fetching(view', log)
  BY <1>2, <1>3, <1>5 DEF Fetching, ConnectionRests, ScreenRests, AsksRest
<1>10. Recovers(view', log, awaited)
  BY <1>2, <1>5, RecoversOn DEF ScreenRests, Covered
<1>. QED  BY <1>1, <1>2, <1>6, <1>7, <1>8, <1>9, <1>10 DEF MessageInv

\* An answer of a chat that was left is dropped, one of the chat selected is merged.
LEMMA CameKeeps ==
    ASSUME HomeChatAssumption, MessageInv, NEW l \in view.loads, Messages!HistoryCame(l)
    PROVE  MessageInv'
<1>. DEFINE loads == view.loads \ {l}
            v == Messages!Merged(view.view, l.msgs)
            current == Messages!IsCurrentLoad(l)
<1>0. /\ view \in Messages!World /\ log \in [Chats -> Seq(Mine \cup Theirs)]
      /\ awaited \subseteq Theirs /\ moves \in 0 .. MaxEffort
      /\ view.loads \in SUBSET Messages!Load
  BY Unpacked, WorldFields
<1>1. /\ l.at = "answered" /\ log' = log /\ awaited' = awaited /\ moves' = moves
      /\ current => view' = [view EXCEPT !.loads = loads, !.view = v, !.cursor = l.next,
                                         !.loading = FALSE]
      /\ ~current => view' = [view EXCEPT !.loads = loads]
  BY <1>0 DEF Messages!HistoryCame, Messages!World
<1>2. /\ Logged(log) /\ ViewOf(view.view, view.selected, log) /\ Written(view, log)
      /\ Tried(view, moves) /\ Told(view, log) /\ Fetching(view, log) /\ Timed(view)
      /\ Recovers(view, log, awaited)
  BY DEF MessageInv
<1>3. loads \in SUBSET Messages!Load /\ loads \subseteq view.loads
  BY <1>0
<1>4. CASE ~current
  <2>. HIDE DEF loads, current
  <2>1. view' = [view EXCEPT !.loads = loads]  BY <1>1, <1>4
  <2>2. view' \in Messages!World
    BY ZenonT(60), <1>0, <1>3, <2>1 DEF Messages!World
  <2>3. /\ ConnectionRests(view', view) /\ ScreenRests(view', view) /\ WireRests(view', view)
        /\ AsksRest(view', view) /\ view'.inbox = view.inbox /\ view'.loads = loads
        /\ view'.loadID = view.loadID
    BY <1>0, <2>1 DEF Messages!World, ConnectionRests, ScreenRests, WireRests, AsksRest
  <2>4. Messages!TypeOK'
    BY <1>0, <1>1, <2>2 DEF Messages!TypeOK, Messages!Ids
  <2>5. /\ ViewOf(view'.view, view'.selected, log) /\ Written(view', log)
        /\ Told(view', log) /\ Timed(view') /\ Tried(view', moves)
    BY <1>2, <2>3 DEF ScreenRests, WireRests, Written, Told, Timed, Tried
  <2>6. Fetching(view', log)
    BY <1>2, <1>3, <2>3 DEF Fetching, ConnectionRests, ScreenRests, AsksRest
  <2>7. Recovers(view', log, awaited)
    BY <1>2, <2>3, RecoversOn DEF ScreenRests, Covered
  <2>. QED  BY <1>1, <1>2, <2>4, <2>5, <2>6, <2>7 DEF MessageInv
<1>5. CASE current
  <2>1. /\ l.msgs \in Seq(Messages!Message) /\ l.next \in Nat /\ l.chat = view.selected
        /\ PageOf(l.msgs, view.selected, log) /\ l.next <= Len(log[view.selected])
    BY <1>0, <1>1, <1>2, <1>5 DEF Messages!Load, Messages!IsCurrentLoad, Fetching
  <2>2. v = Messages!Merged(view.view, l.msgs)  OBVIOUS
  <2>. HIDE DEF loads, current, v
  <2>3. Fits(v, l.msgs)
    BY <2>1, <2>2, MergeKeeps
  <2>4. view' = [view EXCEPT !.loads = loads, !.view = v, !.cursor = l.next, !.loading = FALSE]
    BY <1>1, <1>5
  <2>5. view' \in Messages!World
    <3>1. FALSE \in BOOLEAN  OBVIOUS
    <3>. QED  BY ZenonT(60), <1>0, <1>3, <2>1, <2>3, <2>4, <3>1 DEF Messages!World, Fits
  <2>6. /\ ConnectionRests(view', view) /\ WireRests(view', view) /\ AsksRest(view', view)
        /\ view'.inbox = view.inbox /\ view'.loads = loads /\ view'.loadID = view.loadID
        /\ view'.view = v /\ view'.cursor = l.next /\ view'.selected = view.selected
    BY <1>0, <2>4 DEF Messages!World, ConnectionRests, WireRests, AsksRest
  <2>7. Messages!TypeOK'
    BY <1>0, <1>1, <2>5 DEF Messages!TypeOK, Messages!Ids
  <2>8. Written(view', log) /\ Tried(view', moves) /\ Timed(view') /\ Told(view', log)
    BY <1>2, <2>3, <2>6 DEF Written, Tried, Timed, Told, WireRests, Fits
  <2>9. Fetching(view', log)
    BY <1>2, <1>3, <2>1, <2>6 DEF Fetching, ConnectionRests, AsksRest
  <2>10. Recovers(view', log, awaited)
    <3>1. \A x : Covered(view, awaited, x) => Covered(view', awaited, x)
      BY <2>3, <2>6 DEF Covered, Fits
    <3>. QED  BY <1>2, <2>6, <3>1, RecoversOn
  <2>. QED  BY <1>1, <1>2, <2>3, <2>6, <2>7, <2>8, <2>9, <2>10 DEF MessageInv, Fits
<1>. QED  BY <1>4, <1>5

\* The page that is waited for is merged; what is not in it is in the next.
LEMMA ReconciledKeeps ==
    ASSUME HomeChatAssumption, MessageInv, NEW a \in view.asks, Messages!Reconciled(a)
    PROVE  MessageInv'
<1>. DEFINE rest == view.asks \ {a}
            v == Messages!Merged(view.view, a.msgs)
            cursor == IF a.more THEN a.after + Page ELSE 0
            current == a.id = view.askID /\ view.asking
            h == [view EXCEPT !.asks = rest]
            g == [h EXCEPT !.asking = FALSE, !.view = v, !.cursor = cursor]
<1>0. /\ view \in Messages!World /\ log \in [Chats -> Seq(Mine \cup Theirs)]
      /\ awaited \subseteq Theirs /\ moves \in 0 .. MaxEffort /\ Page \in Nat \ {0}
      /\ view.asks \in SUBSET Messages!Ask /\ view.selected \in Chats /\ view.askID \in Nat
      /\ \A d \in Chats : Len(log[d]) \in Nat /\ DOMAIN log[d] = 1 .. Len(log[d])
  BY Unpacked, WorldFields
<1>1. /\ a.at = "answered" /\ log' = log /\ awaited' = awaited /\ moves' = moves
      /\ ~current => view' = h
      /\ current /\ a.more => view' = Messages!Reconcile(g, a.after + Page)
      /\ current /\ ~a.more => view' = g
  <2>1. h.view = view.view  BY <1>0 DEF Messages!World
  <2>2. /\ a.at = "answered" /\ log' = log /\ awaited' = awaited /\ moves' = moves
        /\ view' = CASE a.id # view.askID \/ ~view.asking -> h
                     [] a.id = view.askID /\ view.asking /\ a.more ->
                           Messages!Reconcile(g, a.after + Page)
                     [] OTHER -> g
    <3>. HIDE DEF rest
    <3>. QED  BY <2>1 DEF Messages!Reconciled, rest
  <2>. HIDE DEF h, g
  <2>. QED  BY <2>2
<1>2. /\ Logged(log) /\ ViewOf(view.view, view.selected, log) /\ Written(view, log)
      /\ Tried(view, moves) /\ Told(view, log) /\ Fetching(view, log) /\ Timed(view)
      /\ Recovers(view, log, awaited)
  BY DEF MessageInv
<1>3. rest \in SUBSET Messages!Ask /\ rest \subseteq view.asks /\ a \notin rest
      /\ \A d \in view.asks : d = a \/ d \in rest
  BY <1>0
<1>4. /\ a \in Messages!Ask /\ a.msgs \in Seq(Messages!Message) /\ a.after \in Nat
      /\ a.more \in BOOLEAN
  BY <1>0 DEF Messages!Ask
<1>. HIDE DEF rest
<1>5. /\ h \in Messages!World
      /\ ConnectionRests(h, view) /\ ScreenRests(h, view) /\ WireRests(h, view)
      /\ LoadsRest(h, view) /\ h.inbox = view.inbox /\ h.asks = rest
      /\ h.askID = view.askID /\ h.asking = view.asking /\ h.cut = view.cut
  <2>1. h \in Messages!World
    BY ZenonT(60), <1>0, <1>3 DEF Messages!World
  <2>. QED
    BY <1>0, <2>1 DEF Messages!World, ConnectionRests, ScreenRests, WireRests, LoadsRest
<1>. HIDE DEF h
<1>6. CASE ~current
  <2>0. \A d \in view.asks : view.asking /\ d.id = view.askID => d \in rest
    BY <1>3, <1>6
  <2>. HIDE DEF current
  <2>1. view' = h  BY <1>1, <1>6
  <2>2. Messages!TypeOK'
    BY <1>0, <1>1, <1>5, <2>1 DEF Messages!TypeOK, Messages!Ids
  <2>3. /\ ViewOf(h.view, h.selected, log) /\ Written(h, log) /\ Tried(h, moves)
        /\ Told(h, log) /\ Timed(h)
    BY <1>2, <1>5 DEF ScreenRests, WireRests, Written, Tried, Told, Timed
  <2>4. Fetching(h, log)
    BY <1>2, <1>3, <1>5 DEF Fetching, ConnectionRests, ScreenRests, LoadsRest
  <2>5. Recovers(h, log, awaited)
    <3>1. \A x : Covered(view, awaited, x) => Covered(h, awaited, x)
      BY <1>5 DEF Covered, ScreenRests
    <3>2. \A x, k : ToCome(view, x, k) => ToCome(h, x, k)
      BY <1>5, <2>0 DEF ToCome
    <3>. QED  BY <1>2, <1>5, <3>1, <3>2 DEF Recovers, ConnectionRests, ScreenRests
  <2>. QED  BY <1>1, <1>2, <2>1, <2>2, <2>3, <2>4, <2>5 DEF MessageInv
<1>7. CASE current
  <2>1. /\ a.id = view.askID /\ view.asking /\ a.chat = view.selected
        /\ PageOf(a.msgs, view.selected, log) /\ view.state = "recovering"
        /\ a.more => a.after + Page <= Len(log[view.selected])
        /\ \A d \in rest : d.id # a.id
    BY <1>1, <1>2, <1>3, <1>7 DEF Fetching
  <2>2. Fits(v, a.msgs)
    <3>1. v = Messages!Merged(view.view, a.msgs)  OBVIOUS
    <3>. HIDE DEF v
    <3>. QED  BY <1>4, <2>1, <3>1, MergeKeeps
  <2>3. cursor \in Nat /\ cursor <= Len(log[view.selected])
    BY <1>0, <1>4, <2>1
  <2>. HIDE DEF v, cursor
  <2>4. g \in Messages!World
    <3>1. FALSE \in BOOLEAN  OBVIOUS
    <3>. QED  BY ZenonT(60), <1>5, <2>2, <2>3, <3>1 DEF Messages!World, Fits
  <2>5. /\ g.state = "recovering" /\ g.established = view.established
        /\ g.listing = view.listing /\ g.view = v /\ g.cursor = cursor
        /\ g.selected = view.selected /\ WireRests(g, view) /\ LoadsRest(g, view)
        /\ g.inbox = view.inbox /\ g.asks = rest /\ g.askID = view.askID /\ ~g.asking
        /\ g.cut = view.cut
    <3>1. /\ ConnectionRests(g, h) /\ WireRests(g, h) /\ LoadsRest(g, h)
          /\ g.view = v /\ g.cursor = cursor /\ g.selected = h.selected /\ g.inbox = h.inbox
          /\ g.asks = h.asks /\ g.askID = h.askID /\ g.asking = FALSE /\ g.cut = h.cut
      BY <1>5 DEF Messages!World, ConnectionRests, WireRests, LoadsRest
    <3>. HIDE DEF g
    <3>. QED
      BY <1>5, <2>1, <3>1 DEF ConnectionRests, ScreenRests, WireRests, LoadsRest
  <2>. HIDE DEF g
  <2>6. /\ ViewOf(g.view, g.selected, log) /\ Written(g, log) /\ Tried(g, moves)
        /\ Told(g, log) /\ Timed(g)
    BY <1>2, <2>2, <2>5 DEF Written, Tried, Told, Timed, WireRests, Fits
  <2>7. Fetching(g, log)
    BY <1>2, <1>3, <2>3, <2>5 DEF Fetching, LoadsRest
  <2>8. \A x : Covered(view, awaited, x) => Covered(g, awaited, x)
    BY <2>2, <2>5 DEF Covered, Fits
  <2>9. ASSUME NEW k, NEW x, ToCome(view, x, k), ~Covered(g, awaited, x)
        PROVE  a.more /\ k > a.after + Page
    <3>1. PICK d \in view.asks :
            /\ d.id = view.askID
            /\ \/ d.at = "sent" /\ k > d.after
               \/ d.at = "answered" /\ \E i \in DOMAIN d.msgs : d.msgs[i].id = x
               \/ d.at = "answered" /\ d.more /\ k > d.after + Page
      BY <2>9 DEF ToCome
    <3>2. d = a  BY <1>3, <2>1, <3>1
    <3>3. ~ \E i \in DOMAIN a.msgs : a.msgs[i].id = x
      BY <2>2, <2>5, <2>9 DEF Covered, Fits
    <3>. QED  BY <1>1, <3>1, <3>2, <3>3
  <2>10. \A k \in DOMAIN log[view.selected] :
            view.established /\ ~view.listing /\ ~view.cut /\ log[view.selected][k] \in Theirs =>
               \/ Covered(view, awaited, log[view.selected][k])
               \/ ToCome(view, log[view.selected][k], k)
    BY <1>2, <2>1 DEF Recovers
  <2>11. CASE ~a.more
    <3>1. view' = g  BY <1>1, <1>7, <2>11
    <3>2. Messages!TypeOK'
      BY <1>0, <1>1, <2>4, <3>1 DEF Messages!TypeOK, Messages!Ids
    <3>3. Recovers(g, log, awaited)
      BY <2>5, <2>8, <2>9, <2>10, <2>11 DEF Recovers
    <3>. QED  BY <1>1, <1>2, <2>6, <2>7, <3>1, <3>2, <3>3 DEF MessageInv
  <2>12. CASE a.more
    <3>1. view' = Messages!Reconcile(g, a.after + Page)  BY <1>1, <1>7, <2>12
    <3>2. a.after + Page \in Nat  BY <1>0, <1>4
    <3>3. /\ view' \in Messages!World
          /\ ConnectionRests(view', g) /\ ScreenRests(view', g) /\ WireRests(view', g)
          /\ LoadsRest(view', g) /\ view'.inbox = g.inbox /\ view'.cut = g.cut
          /\ view'.askID = g.askID + 1 /\ view'.asking
          /\ NewAsk(view', g, g.selected, a.after + Page)
      BY <2>4, <2>5, <3>1, <3>2, ReconcileIs
    <3>4. PICK b \in Messages!Ask :
            /\ b.id = view'.askID /\ b.at = "sent" /\ b.chat = view.selected
            /\ b.after = a.after + Page /\ view'.asks = rest \cup {b}
      BY <2>5, <3>3 DEF NewAsk
    <3>5. Messages!TypeOK'
      BY <1>0, <1>1, <3>3 DEF Messages!TypeOK, Messages!Ids
    <3>6. /\ ViewOf(view'.view, view'.selected, log) /\ Written(view', log)
          /\ Tried(view', moves) /\ Told(view', log) /\ Timed(view')
      BY <2>6, <3>3 DEF ScreenRests, WireRests, Written, Tried, Told, Timed
    <3>7. Fetching(view', log)
      <4>1. view'.askID = view.askID + 1 /\ view'.selected = view.selected
        BY <2>5, <3>3 DEF ScreenRests
      <4>2. \A d \in rest : d.id \in Nat /\ d.id <= view.askID
        BY <1>2, <1>3 DEF Messages!Ask, Fetching
      <4>3. \A d \in view'.asks :
              /\ d.id <= view'.askID
              /\ d.at = "answered" => /\ PageOf(d.msgs, d.chat, log)
                                      /\ d.more => d.after + Page <= Len(log[d.chat])
              /\ view'.asking /\ d.id = view'.askID => d.chat = view'.selected
              /\ \A e \in view'.asks : e.id = d.id => e = d
        BY <1>0, <1>2, <1>3, <3>4, <4>1, <4>2 DEF Fetching
      <4>4. view'.state = "recovering"
        BY <2>5, <3>3 DEF ConnectionRests
      <4>. QED  BY <2>7, <3>3, <4>3, <4>4 DEF Fetching, ScreenRests, LoadsRest
    <3>8. Recovers(view', log, awaited)
      <4>1. \A x : Covered(g, awaited, x) => Covered(view', awaited, x)
        BY <3>3 DEF Covered, ScreenRests
      <4>2. \A x, k : k > a.after + Page => ToCome(view', x, k)
        BY <3>3, <3>4 DEF ToCome
      <4>. QED
        BY <2>5, <2>8, <2>9, <2>10, <3>3, <4>1, <4>2
        DEF Recovers, ConnectionRests, ScreenRests
    <3>. QED  BY <1>1, <1>2, <3>5, <3>6, <3>7, <3>8 DEF MessageInv
  <2>. QED  BY <2>11, <2>12
<1>. QED  BY <1>6, <1>7

\* A rejected reconciliation promises nothing more.
LEMMA RejectedPageKeeps ==
    ASSUME HomeChatAssumption, MessageInv, NEW a \in view.asks, Messages!ReconcileRejected(a)
    PROVE  MessageInv'
<1>. DEFINE rest == view.asks \ {a}
            h == [view EXCEPT !.asks = rest, !.asking = FALSE, !.cut = TRUE]
<1>0. /\ view \in Messages!World /\ log \in [Chats -> Seq(Mine \cup Theirs)]
      /\ awaited \subseteq Theirs /\ moves \in 0 .. MaxEffort /\ MaxEffort \in Nat
      /\ view.asks \in SUBSET Messages!Ask /\ view.loads \in SUBSET Messages!Load
      /\ view.selected \in Chats /\ view.loadID \in Nat
      /\ \A d \in Chats : Len(log[d]) \in Nat
  BY Unpacked, WorldFields
<1>1. /\ view' = Messages!Loaded(h, 0)
      /\ log' = log /\ awaited' = awaited /\ moves < MaxEffort /\ moves' = moves + 1
  BY DEF Messages!ReconcileRejected, Messages!Spend
<1>2. /\ Logged(log) /\ ViewOf(view.view, view.selected, log) /\ Written(view, log)
      /\ Tried(view, moves) /\ Told(view, log) /\ Fetching(view, log) /\ Timed(view)
  BY DEF MessageInv
<1>3. rest \in SUBSET Messages!Ask /\ rest \subseteq view.asks
  BY <1>0
<1>. HIDE DEF rest
<1>4. /\ h \in Messages!World
      /\ ConnectionRests(h, view) /\ ScreenRests(h, view) /\ WireRests(h, view)
      /\ LoadsRest(h, view) /\ h.inbox = view.inbox /\ h.asks = rest
      /\ h.askID = view.askID /\ ~h.asking /\ h.cut
  <2>1. h \in Messages!World
    <3>1. FALSE \in BOOLEAN /\ TRUE \in BOOLEAN  OBVIOUS
    <3>. QED  BY ZenonT(60), <1>0, <1>3, <3>1 DEF Messages!World
  <2>. QED
    BY <1>0, <2>1 DEF Messages!World, ConnectionRests, ScreenRests, WireRests, LoadsRest
<1>. HIDE DEF h
<1>5. /\ view' \in Messages!World
      /\ ConnectionRests(view', h) /\ ScreenRests(view', h) /\ WireRests(view', h)
      /\ AsksRest(view', h) /\ view'.inbox = h.inbox /\ view'.loadID = h.loadID + 1
      /\ NewLoad(view', h, h.selected, 0)
  BY <1>1, <1>4, LoadedIs
<1>6. Messages!TypeOK'
  BY <1>0, <1>1, <1>5 DEF Messages!TypeOK, Messages!Ids
<1>7. /\ ViewOf(view'.view, view'.selected, log) /\ Written(view', log)
      /\ Told(view', log) /\ Timed(view')
  BY <1>2, <1>4, <1>5 DEF ScreenRests, WireRests, Written, Told, Timed
<1>8. Tried(view', moves')
  <2>1. \A i \in Mine : view.tries[i] \in Nat  BY <1>0, WorldFields
  <2>. QED  BY <1>0, <1>1, <1>2, <1>4, <1>5, <2>1 DEF Tried, ScreenRests, WireRests
<1>9. Fetching(view', log)
  <2>1. PICK l \in Messages!Load :
          /\ l.id = view'.loadID /\ l.at = "sent" /\ l.chat = view.selected /\ l.before = 0
          /\ view'.loads = view.loads \cup {l}
    BY <1>4, <1>5 DEF NewLoad, ScreenRests, LoadsRest
  <2>2. \A k \in view.loads : k.id \in Nat  BY <1>0 DEF Messages!Load
  <2>3. view'.loadID = view.loadID + 1  BY <1>4, <1>5 DEF LoadsRest
  <2>4. \A k \in view'.loads :
          /\ k.id <= view'.loadID /\ k.before <= Len(log[k.chat])
          /\ k.at = "answered" => PageOf(k.msgs, k.chat, log) /\ k.next <= Len(log[k.chat])
    BY <1>0, <1>2, <2>1, <2>2, <2>3 DEF Fetching
  <2>5. /\ view'.selected = view.selected /\ view'.cursor = view.cursor
        /\ view'.asks = rest /\ view'.askID = view.askID /\ ~view'.asking
        /\ view'.state = view.state /\ view'.listing = view.listing
    BY <1>4, <1>5 DEF ScreenRests, AsksRest, ConnectionRests
  <2>. QED  BY <1>2, <1>3, <2>4, <2>5 DEF Fetching
<1>10. Recovers(view', log, awaited)
  BY <1>4, <1>5 DEF Recovers, AsksRest
<1>. QED  BY <1>1, <1>2, <1>6, <1>7, <1>8, <1>9, <1>10 DEF MessageInv

-----------------------------------------------------------------------------
(* What the socket brings, and the timers.                                 *)

\* A message of another chat is not in the view; one of this chat takes its place there,
\* or comes last, and ends the timer that was for it.
LEMMA MessageKeeps ==
    ASSUME HomeChatAssumption, MessageInv, NEW e \in view.inbox, Messages!MessageCame(e)
    PROVE  MessageInv'
<1>. DEFINE inbox == view.inbox \ {e}
            pend == view.pend \ {<<e.id, e.try>>}
            h == [view EXCEPT !.inbox = inbox, !.pend = pend]
<1>0. /\ view \in Messages!World /\ log \in [Chats -> Seq(Mine \cup Theirs)]
      /\ awaited \subseteq Theirs /\ moves \in 0 .. MaxEffort
      /\ view.inbox \in SUBSET Messages!Event /\ view.selected \in Chats
      /\ view.view \in Seq(Messages!Message) /\ view.pend \in SUBSET (Mine \X Nat)
      /\ Mine \cap Theirs = {}
      /\ \A d \in Chats : DOMAIN log[d] = 1 .. Len(log[d])
  BY Unpacked, WorldFields
<1>1. /\ Logged(log) /\ ViewOf(view.view, view.selected, log) /\ Written(view, log)
      /\ Tried(view, moves) /\ Told(view, log) /\ Fetching(view, log) /\ Timed(view)
      /\ Recovers(view, log, awaited)
  BY DEF MessageInv
<1>2. /\ e \in Messages!Event /\ e.chat \in Chats /\ e.kind # "rejected"
      /\ Placed(log, e.chat, e.seq, e.id)
  BY <1>0, <1>1 DEF Messages!Event, Messages!MessageCame, Told
<1>3. /\ inbox \in SUBSET Messages!Event /\ inbox \subseteq view.inbox
      /\ \A f \in view.inbox : f = e \/ f \in inbox
      /\ pend \in SUBSET (Mine \X Nat)
      /\ \A p \in view.pend : p[1] # e.id => p \in pend
  BY <1>0
<1>4. /\ log' = log /\ awaited' = awaited /\ moves' = moves
      /\ e.chat = h.selected => view' = Messages!Arrived(h, e)
      /\ e.chat # h.selected => view' = h
  BY DEF Messages!MessageCame
<1>. HIDE DEF inbox, pend
<1>5. /\ h \in Messages!World
      /\ ConnectionRests(h, view) /\ ScreenRests(h, view) /\ LoadsRest(h, view)
      /\ AsksRest(h, view) /\ h.inbox = inbox /\ h.tries = view.tries /\ h.pend = pend
      /\ h.net = view.net
  <2>1. h \in Messages!World
    BY ZenonT(60), <1>0, <1>3 DEF Messages!World
  <2>. QED
    BY <1>0, <2>1 DEF Messages!World, ConnectionRests, ScreenRests, LoadsRest, AsksRest
<1>. HIDE DEF h
<1>6. h.view = view.view /\ h.selected = view.selected /\ h.cursor = view.cursor
  BY <1>5 DEF ScreenRests
<1>7. CASE e.chat # view.selected
  <2>1. view' = h  BY <1>4, <1>6, <1>7
  <2>2. \A i \in DOMAIN view.view : view.view[i].id # e.id
    BY <1>1, <1>2, <1>7 DEF ViewOf, Placed
  <2>3. Messages!TypeOK'
    BY <1>0, <1>4, <1>5, <2>1 DEF Messages!TypeOK, Messages!Ids
  <2>4. /\ ViewOf(h.view, h.selected, log) /\ Written(h, log) /\ Tried(h, moves)
    BY <1>1, <1>5, <1>6 DEF Written, Tried
  <2>5. Told(h, log)
    BY <1>1, <1>3, <1>5 DEF Told
  <2>6. Fetching(h, log)
    BY <1>1, <1>5, <1>6 DEF Fetching, ConnectionRests, LoadsRest, AsksRest
  <2>7. Timed(h)
    BY <1>1, <1>3, <1>5, <1>6, <2>2 DEF Timed
  <2>8. Recovers(h, log, awaited)
    <3>1. \A k \in DOMAIN log[view.selected] :
             Covered(view, awaited, log[view.selected][k]) =>
                Covered(h, awaited, log[view.selected][k])
      <4>1. \A k \in DOMAIN log[view.selected] : log[view.selected][k] # e.id
        BY <1>0, <1>1, <1>2, <1>7 DEF Logged, Placed
      <4>. QED  BY <1>3, <1>5, <1>6, <4>1 DEF Covered
    <3>2. \A x, k : ToCome(view, x, k) => ToCome(h, x, k)
      BY <1>5 DEF ToCome, AsksRest
    <3>. QED
      BY <1>1, <1>5, <1>6, <3>1, <3>2 DEF Recovers, ConnectionRests, AsksRest
  <2>. QED  BY <1>1, <1>4, <2>1, <2>3, <2>4, <2>5, <2>6, <2>7, <2>8 DEF MessageInv
<1>8. CASE e.chat = view.selected
  <2>1. Arrives(view', h, e)
    <3>1. Distinct(h.view)  BY <1>1, <1>6 DEF ViewOf
    <3>2. view' = Messages!Arrived(h, e)  BY <1>4, <1>6, <1>8
    <3>. QED  BY <1>2, <1>5, <3>1, <3>2, ArrivedIs
  <2>2. /\ view'.tries = view.tries /\ view'.pend = pend /\ view'.net = view.net
        /\ view'.inbox = inbox /\ view'.selected = view.selected /\ view'.cursor = view.cursor
        /\ ConnectionRests(view', view) /\ LoadsRest(view', view) /\ AsksRest(view', view)
    BY <1>5, <1>6, <2>1 DEF ConnectionRests, WireRests, LoadsRest, AsksRest, Arrives
  <2>3. \A i \in DOMAIN view'.view :
           \/ /\ view'.view[i].id = e.id /\ view'.view[i].seq = e.seq
              /\ ~view'.view[i].pending /\ ~view'.view[i].uncertain
           \/ \E j \in DOMAIN view.view : /\ view'.view[i] = view.view[j]
                                          /\ e.id \in Mine => view.view[j].id # e.id
    BY <1>6, <2>1 DEF Arrives
  <2>4. /\ e.seq # 0
        /\ \A d \in Chats \ {view.selected} : \A k \in DOMAIN log[d] : log[d][k] # e.id
        /\ e.id \in Mine => view.tries[e.id] > 0
        /\ \A r \in view.net : e.id = r.id => r.chat = view.selected
    <3>1. e.seq \in DOMAIN log[view.selected] /\ log[view.selected][e.seq] = e.id
      BY <1>2, <1>8 DEF Placed
    <3>2. e.seq # 0  BY <1>0, <3>1
    <3>. QED  BY <1>0, <1>1, <3>1, <3>2 DEF Logged, Written
  <2>5. Messages!TypeOK'
    BY <1>0, <1>4, <2>1 DEF Messages!TypeOK, Messages!Ids, Arrives
  <2>6. ViewOf(view'.view, view'.selected, log)
    <3>1. \A i \in DOMAIN view'.view :
             /\ view'.view[i].seq # 0 =>
                   Placed(log, view.selected, view'.view[i].seq, view'.view[i].id)
             /\ view'.view[i].seq = 0 => view'.view[i].id \in Mine
             /\ \A d \in Chats \ {view.selected} : \A k \in DOMAIN log[d] :
                   log[d][k] # view'.view[i].id
      <4>. TAKE i \in DOMAIN view'.view
      <4>1. CASE view'.view[i].id = e.id /\ view'.view[i].seq = e.seq
        BY <1>2, <1>8, <2>4, <4>1
      <4>2. CASE \E j \in DOMAIN view.view : view'.view[i] = view.view[j]
        BY <1>1, <4>2 DEF ViewOf
      <4>. QED  BY <2>3, <4>1, <4>2
    <3>. QED  BY <2>1, <2>2, <3>1 DEF ViewOf, Arrives
  <2>7. Written(view', log)
    <3>1. \A i \in DOMAIN view'.view :
             /\ view'.view[i].id \in Mine => view.tries[view'.view[i].id] > 0
             /\ \A r \in view.net : view'.view[i].id = r.id => r.chat = view.selected
      <4>. TAKE i \in DOMAIN view'.view
      <4>1. CASE view'.view[i].id = e.id  BY <2>4, <4>1
      <4>2. CASE \E j \in DOMAIN view.view : view'.view[i] = view.view[j]
        BY <1>1, <4>2 DEF Written
      <4>. QED  BY <2>3, <4>1, <4>2
    <3>. QED  BY <1>1, <2>2, <3>1 DEF Written
  <2>8. Tried(view', moves)
    <3>1. ASSUME NEW i \in DOMAIN view'.view, view'.view[i].id \in Mine,
                 view'.view[i].uncertain, ~view'.view[i].pending
          PROVE  view.tries[view'.view[i].id] <= moves
      <4>1. PICK j \in DOMAIN view.view : view'.view[i] = view.view[j]  BY <2>3, <3>1
      <4>. QED  BY <1>1, <3>1, <4>1 DEF Tried
    <3>. QED  BY <1>1, <2>2, <3>1 DEF Tried
  <2>9. Told(view', log)
    BY <1>1, <1>3, <2>2 DEF Told
  <2>10. Fetching(view', log)
    BY <1>1, <2>2 DEF Fetching, ConnectionRests, LoadsRest, AsksRest
  <2>11. Timed(view')
    <3>1. ASSUME NEW i \in DOMAIN view'.view, view'.view[i].pending
          PROVE  \E p \in pend : p[1] = view'.view[i].id
      <4>1. PICK j \in DOMAIN view.view :
               /\ view'.view[i] = view.view[j]
               /\ e.id \in Mine => view.view[j].id # e.id
        BY <2>3, <3>1
      <4>2. PICK p \in view.pend : p[1] = view.view[j].id
        BY <1>1, <3>1, <4>1 DEF Timed
      <4>3. p[1] \in Mine  BY <1>0, <4>2
      <4>4. p[1] # e.id  BY <4>1, <4>2, <4>3
      <4>. QED  BY <1>3, <4>1, <4>2, <4>4
    <3>. QED  BY <2>2, <3>1 DEF Timed
  <2>12. Recovers(view', log, awaited)
    <3>1. \A x : Covered(view, awaited, x) => Covered(view', awaited, x)
      BY <1>3, <1>6, <2>1, <2>2 DEF Covered, Arrives
    <3>. QED  BY <1>1, <2>2, <3>1, RecoversOn
  <2>. QED
    BY <1>1, <1>4, <2>5, <2>6, <2>7, <2>8, <2>9, <2>10, <2>11, <2>12 DEF MessageInv
<1>. QED  BY <1>7, <1>8

\* With its timer goes the message.
LEMMA RejectedKeeps ==
    ASSUME HomeChatAssumption, MessageInv, NEW e \in view.inbox, Messages!MessageRejected(e)
    PROVE  MessageInv'
<1>. DEFINE inbox == view.inbox \ {e}
            pend == view.pend \ {<<e.id, e.try>>}
            v == Messages!Without(view.view, e.id)
            known == <<e.id, e.try>> \in view.pend
<1>0. /\ view \in Messages!World /\ log \in [Chats -> Seq(Mine \cup Theirs)]
      /\ awaited \subseteq Theirs /\ moves \in 0 .. MaxEffort
      /\ view.inbox \in SUBSET Messages!Event
      /\ view.view \in Seq(Messages!Message) /\ view.pend \in SUBSET (Mine \X Nat)
      /\ Mine \cap Theirs = {}
  BY Unpacked, WorldFields
<1>1. /\ Logged(log) /\ ViewOf(view.view, view.selected, log) /\ Written(view, log)
      /\ Tried(view, moves) /\ Told(view, log) /\ Fetching(view, log) /\ Timed(view)
      /\ Recovers(view, log, awaited)
  BY DEF MessageInv
<1>2. /\ e.id \in Mine /\ log' = log /\ awaited' = awaited /\ moves' = moves
      /\ known => view' = [view EXCEPT !.inbox = inbox, !.pend = pend, !.view = v]
      /\ ~known => view' = [view EXCEPT !.inbox = inbox]
  BY <1>0, <1>1 DEF Messages!MessageRejected, Messages!World, Told
<1>3. /\ inbox \in SUBSET Messages!Event /\ inbox \subseteq view.inbox
      /\ \A f \in view.inbox : f = e \/ f \in inbox
      /\ pend \in SUBSET (Mine \X Nat)
      /\ \A p \in view.pend : p[1] # e.id => p \in pend
  BY <1>0
<1>4. /\ v \in Seq(Messages!Message) /\ Distinct(v)
      /\ \A k \in DOMAIN v : \E i \in DOMAIN view.view :
            view.view[i].id # e.id /\ view.view[i] = v[k]
      /\ \A i \in DOMAIN view.view : view.view[i].id # e.id =>
            \E k \in DOMAIN v : view.view[i] = v[k]
  <2>1. Distinct(view.view)  BY <1>1 DEF ViewOf
  <2>. HIDE DEF v
  <2>2. v = Messages!Without(view.view, e.id)  BY DEF v
  <2>. QED  BY <1>0, <2>1, <2>2, WithoutIs
<1>. HIDE DEF inbox, pend, v, known
<1>5. CASE ~known
  <2>1. view' = [view EXCEPT !.inbox = inbox]  BY <1>2, <1>5
  <2>2. view' \in Messages!World
    BY ZenonT(60), <1>0, <1>3, <2>1 DEF Messages!World
  <2>3. /\ ConnectionRests(view', view) /\ ScreenRests(view', view) /\ WireRests(view', view)
        /\ LoadsRest(view', view) /\ AsksRest(view', view) /\ view'.inbox = inbox
    BY <1>0, <2>1
    DEF Messages!World, ConnectionRests, ScreenRests, WireRests, LoadsRest, AsksRest
  <2>4. Messages!TypeOK'
    BY <1>0, <1>2, <2>2 DEF Messages!TypeOK, Messages!Ids
  <2>5. /\ ViewOf(view'.view, view'.selected, log) /\ Written(view', log)
        /\ Tried(view', moves) /\ Timed(view') /\ Fetching(view', log)
    BY <1>1, <2>3
    DEF ConnectionRests, ScreenRests, WireRests, LoadsRest, AsksRest, Written, Tried, Timed,
        Fetching
  <2>6. Told(view', log)
    BY <1>1, <1>3, <2>3 DEF Told
  <2>7. Recovers(view', log, awaited)
    <3>1. \A x \in Theirs : Covered(view, awaited, x) => Covered(view', awaited, x)
      BY <1>0, <1>2, <1>3, <2>3 DEF Covered, ScreenRests
    <3>. QED  BY <1>1, <2>3, <3>1, RecoversOn DEF ScreenRests
  <2>. QED  BY <1>1, <1>2, <2>4, <2>5, <2>6, <2>7 DEF MessageInv
<1>6. CASE known
  <2>1. view' = [view EXCEPT !.inbox = inbox, !.pend = pend, !.view = v]  BY <1>2, <1>6
  <2>2. view' \in Messages!World
    BY ZenonT(60), <1>0, <1>3, <1>4, <2>1 DEF Messages!World
  <2>3. /\ ConnectionRests(view', view) /\ LoadsRest(view', view) /\ AsksRest(view', view)
        /\ view'.inbox = inbox /\ view'.pend = pend /\ view'.view = v
        /\ view'.selected = view.selected /\ view'.cursor = view.cursor
        /\ view'.tries = view.tries /\ view'.net = view.net
    BY <1>0, <2>1 DEF Messages!World, ConnectionRests, LoadsRest, AsksRest
  <2>4. Messages!TypeOK'
    BY <1>0, <1>2, <2>2 DEF Messages!TypeOK, Messages!Ids
  <2>5. ViewOf(v, view.selected, log)
    BY <1>1, <1>4 DEF ViewOf
  <2>6. Written(view', log)
    BY <1>1, <1>4, <2>3 DEF Written
  <2>7. Tried(view', moves)
    BY <1>1, <1>4, <2>3 DEF Tried
  <2>8. Timed(view')
    BY <1>1, <1>3, <1>4, <2>3 DEF Timed
  <2>9. Fetching(view', log)
    BY <1>1, <2>3 DEF Fetching, ConnectionRests, LoadsRest, AsksRest
  <2>10. Told(view', log)
    BY <1>1, <1>3, <2>3 DEF Told
  <2>11. Recovers(view', log, awaited)
    <3>1. \A x \in Theirs : Covered(view, awaited, x) => Covered(view', awaited, x)
      BY <1>0, <1>2, <1>3, <1>4, <2>3 DEF Covered
    <3>. QED  BY <1>1, <2>3, <3>1, RecoversOn
  <2>. QED
    BY <1>1, <1>2, <2>3, <2>4, <2>5, <2>6, <2>7, <2>8, <2>9, <2>10, <2>11 DEF MessageInv
<1>. QED  BY <1>5, <1>6

\* With its timer goes the pending sign, and one more move allows one more request.
LEMMA TimesOutKeeps ==
    ASSUME HomeChatAssumption, MessageInv, NEW p \in view.pend, Messages!TimesOut(p)
    PROVE  MessageInv'
<1>17. PICK m : m = p[1]  OBVIOUS
<1>. DEFINE pend == view.pend \ {p}
            late(n) == [n EXCEPT !.pending = FALSE, !.uncertain = TRUE]
            v == [i \in DOMAIN view.view |->
                    IF view.view[i].id = m THEN late(view.view[i]) ELSE view.view[i]]
<1>0. /\ view \in Messages!World /\ log \in [Chats -> Seq(Mine \cup Theirs)]
      /\ awaited \subseteq Theirs /\ moves \in 0 .. MaxEffort /\ MaxEffort \in Nat
      /\ view.view \in Seq(Messages!Message) /\ view.pend \in SUBSET (Mine \X Nat)
  BY Unpacked, WorldFields
<1>1. /\ Logged(log) /\ ViewOf(view.view, view.selected, log) /\ Written(view, log)
      /\ Tried(view, moves) /\ Told(view, log) /\ Fetching(view, log) /\ Timed(view)
      /\ Recovers(view, log, awaited)
  BY DEF MessageInv
<1>2. /\ log' = log /\ awaited' = awaited /\ moves < MaxEffort /\ moves' = moves + 1
      /\ view' = [view EXCEPT !.pend = pend, !.view = v]
  <2>. DEFINE h == [view EXCEPT !.pend = pend]
  <2>1. h.view = view.view  BY <1>0 DEF Messages!World
  <2>2. view' = [h EXCEPT !.view = [i \in DOMAIN h.view |->
                    IF h.view[i].id \in {p[1]} THEN late(h.view[i]) ELSE h.view[i]]]
    BY DEF Messages!TimesOut, Messages!Mapped
  <2>3. view' = [h EXCEPT !.view = v]
    <3>. HIDE DEF h, late
    <3>1. \A n : n \in {p[1]} <=> n = m  BY <1>17
    <3>2. v = [i \in DOMAIN h.view |-> IF h.view[i].id \in {p[1]} THEN late(h.view[i])
                                                               ELSE h.view[i]]
      BY <2>1, <3>1
    <3>. QED  BY <2>2, <3>2
  <2>4. /\ log' = log /\ awaited' = awaited /\ moves < MaxEffort /\ moves' = moves + 1
    BY DEF Messages!TimesOut, Messages!Spend
  <2>. HIDE DEF v, pend
  <2>. QED  BY <2>3, <2>4
<1>3. pend \in SUBSET (Mine \X Nat) /\ \A q \in view.pend : q = p \/ q \in pend
  BY <1>0
<1>4. \A i \in DOMAIN view.view : view.view[i] \in Messages!Message
  BY <1>0
<1>18. \A n \in Messages!Message :
          /\ late(n) \in Messages!Message /\ late(n).id = n.id /\ late(n).seq = n.seq
          /\ ~late(n).pending
  BY DEF Messages!Message
<1>. HIDE DEF late
<1>5. \A i \in DOMAIN view.view :
         /\ v[i] \in Messages!Message /\ v[i].id = view.view[i].id
         /\ v[i].seq = view.view[i].seq
         /\ view.view[i].id = m => ~v[i].pending
         /\ view.view[i].id # m => v[i] = view.view[i]
  <2>. TAKE i \in DOMAIN view.view
  <2>1. CASE view.view[i].id = m
    <3>1. v[i] = late(view.view[i])  BY <2>1
    <3>. QED  BY <1>4, <1>18, <2>1, <3>1
  <2>2. CASE view.view[i].id # m
    <3>1. v[i] = view.view[i]  BY <2>2
    <3>. QED  BY <1>4, <2>2, <3>1
  <2>. QED  BY <2>1, <2>2
<1>6. DOMAIN v = DOMAIN view.view  OBVIOUS
<1>7. v \in Seq(Messages!Message)
  <2>0. v \in [DOMAIN view.view -> Messages!Message]  BY <1>5
  <2>1. v \in [1 .. Len(view.view) -> Messages!Message]
    <3>. HIDE DEF v
    <3>. QED  BY <1>0, <2>0
  <2>2. Len(view.view) \in Nat  BY <1>0
  <2>. HIDE DEF v
  <2>. QED  BY <2>1, <2>2
<1>. HIDE DEF v, pend
<1>8. view' \in Messages!World
  BY ZenonT(60), <1>0, <1>2, <1>3, <1>7 DEF Messages!World
<1>9. /\ ConnectionRests(view', view) /\ LoadsRest(view', view) /\ AsksRest(view', view)
      /\ view'.inbox = view.inbox /\ view'.pend = pend /\ view'.view = v
      /\ view'.selected = view.selected /\ view'.cursor = view.cursor
      /\ view'.tries = view.tries /\ view'.net = view.net
  BY <1>0, <1>2 DEF Messages!World, ConnectionRests, LoadsRest, AsksRest
<1>10. Messages!TypeOK'
  BY <1>0, <1>2, <1>8 DEF Messages!TypeOK, Messages!Ids
<1>11. ViewOf(v, view.selected, log)
  BY <1>1, <1>5, <1>6 DEF ViewOf, Distinct
<1>12. Written(view', log)
  BY <1>1, <1>5, <1>6, <1>9 DEF Written
<1>13. Tried(view', moves')
  <2>1. \A i \in Mine : view.tries[i] \in Nat /\ view.tries[i] <= moves + 1
    BY <1>0, <1>1, WorldFields DEF Tried
  <2>. QED  BY <1>0, <1>2, <1>9, <2>1 DEF Tried
<1>14. Timed(view')
  BY <1>17, <1>1, <1>3, <1>5, <1>6, <1>9 DEF Timed
<1>15. Told(view', log) /\ Fetching(view', log)
  BY <1>1, <1>9 DEF Told, Fetching, ConnectionRests, LoadsRest, AsksRest
<1>16. Recovers(view', log, awaited)
  <2>1. \A x : Covered(view, awaited, x) => Covered(view', awaited, x)
    BY <1>5, <1>6, <1>9 DEF Covered
  <2>. QED  BY <1>1, <1>9, <2>1, RecoversOn
<1>. QED
  BY <1>1, <1>2, <1>9, <1>10, <1>11, <1>12, <1>13, <1>14, <1>15, <1>16 DEF MessageInv

-----------------------------------------------------------------------------
(* Every step.                                                             *)

\* At first nothing is shown, stored or sent.
LEMMA MessagesStart ==
    ASSUME HomeChatAssumption, Messages!Init
    PROVE  MessageInv
<1>0. MaxEffort \in Nat
  BY DEF HomeChatAssumption, Messages!HomeMessagesAssumption
<1>1. PICK c \in Chats : view = Messages!Selected(Messages!Fresh(c), c)
  BY DEF Messages!Init
<1>2. log = [d \in Chats |-> <<>>] /\ awaited = {} /\ moves = 0
  BY DEF Messages!Init
<1>. DEFINE f == Messages!Fresh(c)
<1>3. /\ f \in Messages!World /\ f.state = "offline" /\ f.view = <<>> /\ f.loads = {}
      /\ f.asks = {} /\ ~f.asking /\ ~f.listing /\ f.net = {} /\ f.pend = {} /\ f.inbox = {}
      /\ f.loadID = 0 /\ f.askID = 0 /\ \A m \in Mine : f.tries[m] = 0
  <2>1. [m \in Mine |-> 0] \in [Mine -> 0 .. MaxEffort + 1]  BY <1>0
  <2>2. <<>> \in Seq(Messages!Message)  OBVIOUS
  <2>3. f \in Messages!World  BY <2>1, <2>2 DEF Messages!Fresh, Messages!World
  <2>. QED  BY <2>3 DEF Messages!Fresh
<1>4. view = Messages!Selected(f, c)
  BY <1>1
<1>. HIDE DEF f
<1>5. /\ view \in Messages!World
      /\ ConnectionRests(view, f) /\ WireRests(view, f) /\ view.inbox = f.inbox
      /\ view.view = <<>> /\ view.selected = c /\ view.cursor = 0 /\ view.loadID = f.loadID + 1
      /\ NewLoad(view, f, c, 0)
      /\ view.asks = f.asks /\ view.askID = f.askID /\ view.asking = f.asking
  BY <1>3, <1>4, SelectedIs
<1>6. /\ view.state = "offline" /\ ~view.listing /\ ~view.asking /\ view.asks = {}
      /\ view.net = {} /\ view.pend = {} /\ view.inbox = {} /\ view.askID = 0
      /\ \A m \in Mine : view.tries[m] = 0
  BY <1>3, <1>5 DEF ConnectionRests, WireRests
<1>7. \A d \in Chats : log[d] = <<>> /\ DOMAIN log[d] = {} /\ Len(log[d]) = 0
  BY <1>2
<1>8. Messages!TypeOK
  <2>1. log \in [Chats -> Seq(Mine \cup Theirs)]  BY <1>2
  <2>. QED  BY <1>0, <1>2, <1>5, <2>1 DEF Messages!TypeOK, Messages!Ids
<1>9. Logged(log)
  BY <1>7, <1>8 DEF Logged, Messages!TypeOK
<1>10. DOMAIN view.view = {}
  BY <1>5
<1>11. /\ ViewOf(view.view, view.selected, log) /\ Written(view, log) /\ Told(view, log)
       /\ Timed(view) /\ Recovers(view, log, awaited)
  BY <1>6, <1>7, <1>10 DEF ViewOf, Distinct, Written, Told, Timed, Recovers
<1>12. Tried(view, moves)
  BY <1>2, <1>6, <1>10 DEF Tried
<1>13. Fetching(view, log)
  <2>1. PICK l \in Messages!Load :
          /\ l.id = view.loadID /\ l.at = "sent" /\ l.chat = c /\ l.before = 0
          /\ view.loads = {l}
    BY <1>3, <1>5 DEF NewLoad
  <2>. QED  BY <1>3, <1>5, <1>6, <1>7, <2>1 DEF Fetching
<1>. QED  BY <1>8, <1>9, <1>11, <1>12, <1>13 DEF MessageInv

\* The invariant is about these variables alone.
LEMMA MessagesRest ==
    ASSUME MessageInv, UNCHANGED messageVars
    PROVE  MessageInv'
<1>1. view' = view /\ log' = log /\ awaited' = awaited /\ moves' = moves
  BY DEF messageVars
<1>2. Messages!TypeOK'
  BY <1>1 DEF MessageInv, Messages!TypeOK
<1>. QED  BY <1>1, <1>2 DEF MessageInv

\* Each step of the messages keeps it.
LEMMA MessagesStep ==
    ASSUME HomeChatAssumption, MessageInv, Messages!Next
    PROVE  MessageInv'
<1>1. ASSUME NEW m \in Mine, Messages!SendMessage(m)  PROVE MessageInv'
  BY <1>1, SendKeeps
<1>2. ASSUME NEW c \in Chats, Messages!SelectConversation(c)  PROVE MessageInv'
  BY <1>2, SelectKeeps
<1>3. CASE Messages!LoadOlderMessages
  BY <1>3, OlderKeeps
<1>4. CASE Messages!Opens
  BY <1>4, OpensKeeps
<1>5. CASE Messages!ListCame
  BY <1>5, ListKeeps
<1>6. CASE Messages!Ready
  BY <1>6, ReadyKeeps
<1>7. CASE Messages!ReadyAgain
  BY <1>7, ReadyAgainKeeps
<1>8. CASE Messages!Drop
  BY <1>8, DropKeeps
<1>9. ASSUME NEW r \in view.net, Messages!ServerAccepts(r)  PROVE MessageInv'
  BY <1>9, AcceptKeeps
<1>10. ASSUME NEW r \in view.net, Messages!ServerRejects(r)  PROVE MessageInv'
  BY <1>10, RejectKeeps
<1>11. ASSUME NEW c \in Chats, NEW m \in Theirs, Messages!PeerSends(c, m)  PROVE MessageInv'
  BY <1>11, PeerKeeps
<1>12. ASSUME NEW c \in Chats, NEW m \in Theirs, Messages!Deliver(c, m)  PROVE MessageInv'
  BY <1>12, DeliverKeeps
<1>13. ASSUME NEW l \in view.loads, Messages!ServerLoads(l)  PROVE MessageInv'
  BY <1>13, LoadsKeeps
<1>14. ASSUME NEW l \in view.loads, Messages!HistoryCame(l)  PROVE MessageInv'
  BY <1>14, CameKeeps
<1>15. ASSUME NEW l \in view.loads, Messages!HistoryFails(l)  PROVE MessageInv'
  BY <1>15, FailsKeeps
<1>16. ASSUME NEW a \in view.asks, Messages!ServerReconciles(a)  PROVE MessageInv'
  BY <1>16, ReconcilesKeeps
<1>17. ASSUME NEW a \in view.asks, Messages!Reconciled(a)  PROVE MessageInv'
  BY <1>17, ReconciledKeeps
<1>18. ASSUME NEW a \in view.asks, Messages!ReconcileRejected(a)  PROVE MessageInv'
  BY <1>18, RejectedPageKeeps
<1>19. ASSUME NEW e \in view.inbox, Messages!MessageCame(e)  PROVE MessageInv'
  BY <1>19, MessageKeeps
<1>20. ASSUME NEW e \in view.inbox, Messages!MessageRejected(e)  PROVE MessageInv'
  BY <1>20, RejectedKeeps
<1>21. ASSUME NEW p \in view.pend, Messages!TimesOut(p)  PROVE MessageInv'
  BY <1>21, TimesOutKeeps
<1>. QED
  BY <1>1, <1>2, <1>3, <1>4, <1>5, <1>6, <1>7, <1>8, <1>9, <1>10, <1>11, <1>12, <1>13, <1>14,
     <1>15, <1>16, <1>17, <1>18, <1>19, <1>20, <1>21
  DEF Messages!Next

\* A recovering connection is ready by the snapshot alone.
LEMMA OthersKeepRecovering ==
    ASSUME HomeChatAssumption, MessageInv, Messages!Next,
           view.state = "recovering", view'.state = "ready"
    PROVE  Messages!Ready
<1>0. view \in Messages!World
  BY Unpacked
<1>1. ASSUME NEW m \in Mine, Messages!SendMessage(m)  PROVE FALSE
  BY <1>1 DEF Messages!SendMessage
<1>2. ASSUME NEW c \in Chats, Messages!SelectConversation(c)  PROVE FALSE
  <2>1. ConnectionRests(view', view)
    BY <1>0, <1>2, SelectedIs DEF Messages!SelectConversation
  <2>. QED  BY <2>1 DEF ConnectionRests
<1>3. CASE Messages!LoadOlderMessages
  <2>1. view.cursor \in Nat  BY <1>0, WorldFields
  <2>2. ConnectionRests(view', view)
    BY <1>0, <1>3, <2>1, LoadedIs DEF Messages!LoadOlderMessages
  <2>. QED  BY <2>2 DEF ConnectionRests
<1>4. CASE Messages!Opens
  BY <1>4 DEF Messages!Opens
<1>5. CASE Messages!ListCame
  <2>. DEFINE s == Messages!Selected(view, view.selected)
  <2>1. view.selected \in Chats  BY <1>0, WorldFields
  <2>2. s \in Messages!World /\ ConnectionRests(s, view)  BY <1>0, <2>1, SelectedIs
  <2>3. view' = [s EXCEPT !.listing = FALSE]  BY <1>5 DEF Messages!ListCame
  <2>. HIDE DEF s
  <2>. QED  BY <2>2, <2>3 DEF ConnectionRests, Messages!World
<1>7. CASE Messages!ReadyAgain
  BY <1>7 DEF Messages!ReadyAgain
<1>8. CASE Messages!Drop
  BY <1>0, <1>8 DEF Messages!Drop, Messages!World
<1>9. ASSUME NEW r \in view.net, Messages!ServerAccepts(r)  PROVE FALSE
  BY <1>0, <1>9 DEF Messages!ServerAccepts, Messages!World
<1>10. ASSUME NEW r \in view.net, Messages!ServerRejects(r)  PROVE FALSE
  BY <1>0, <1>10 DEF Messages!ServerRejects, Messages!World
<1>11. ASSUME NEW c \in Chats, NEW m \in Theirs, Messages!PeerSends(c, m)  PROVE FALSE
  BY <1>11 DEF Messages!PeerSends
<1>12. ASSUME NEW c \in Chats, NEW m \in Theirs, Messages!Deliver(c, m)  PROVE FALSE
  BY <1>0, <1>12 DEF Messages!Deliver, Messages!World
<1>13. ASSUME NEW l \in view.loads, Messages!ServerLoads(l)  PROVE FALSE
  BY <1>0, <1>13 DEF Messages!ServerLoads, Messages!World
<1>14. ASSUME NEW l \in view.loads, Messages!HistoryCame(l)  PROVE FALSE
  BY <1>0, <1>14 DEF Messages!HistoryCame, Messages!World
<1>15. ASSUME NEW l \in view.loads, Messages!HistoryFails(l)  PROVE FALSE
  BY <1>0, <1>15 DEF Messages!HistoryFails, Messages!World
<1>16. ASSUME NEW a \in view.asks, Messages!ServerReconciles(a)  PROVE FALSE
  BY <1>0, <1>16 DEF Messages!ServerReconciles, Messages!World
<1>17. ASSUME NEW a \in view.asks, Messages!Reconciled(a)  PROVE FALSE
  BY <1>0, <1>17 DEF Messages!Reconciled, Messages!Reconcile, Messages!World
<1>18. ASSUME NEW a \in view.asks, Messages!ReconcileRejected(a)  PROVE FALSE
  BY <1>0, <1>18 DEF Messages!ReconcileRejected, Messages!Loaded, Messages!World
<1>19. ASSUME NEW e \in view.inbox, Messages!MessageCame(e)  PROVE FALSE
  BY <1>0, <1>19 DEF Messages!MessageCame, Messages!Arrived, Messages!Mapped, Messages!World
<1>20. ASSUME NEW e \in view.inbox, Messages!MessageRejected(e)  PROVE FALSE
  BY <1>0, <1>20 DEF Messages!MessageRejected, Messages!World
<1>21. ASSUME NEW p \in view.pend, Messages!TimesOut(p)  PROVE FALSE
  BY <1>0, <1>21 DEF Messages!TimesOut, Messages!Mapped, Messages!World
<1>. QED
  BY <1>1, <1>2, <1>3, <1>4, <1>5, <1>7, <1>8, <1>9, <1>10, <1>11, <1>12, <1>13, <1>14,
     <1>15, <1>16, <1>17, <1>18, <1>19, <1>20, <1>21
  DEF Messages!Next

\* What the invariant says of the view.
LEMMA MessagesAgree ==
    ASSUME HomeChatAssumption, MessageInv
    PROVE  ChatAgrees
<1>0. /\ view.view \in Seq(Messages!Message) /\ view.selected \in Chats
  BY Unpacked, WorldFields
<1>1. ViewOf(view.view, view.selected, log) /\ Timed(view)
  BY DEF MessageInv
<1>2. \A m \in Messages!Shown(view) : \E i \in DOMAIN view.view : view.view[i] = m
  BY <1>0 DEF Messages!Shown
<1>3. Messages!ShownOnce
  BY <1>1 DEF ViewOf, Distinct, Messages!ShownOnce
<1>4. Messages!ViewIsOfChat
  <2>. SUFFICES ASSUME NEW m \in Messages!Shown(view)
       PROVE  /\ m.seq # 0 => m.seq \in DOMAIN log[view.selected] /\ log[view.selected][m.seq] = m.id
              /\ \A c \in Chats \ {view.selected} : m.id \notin Messages!Range(log[c])
    BY DEF Messages!ViewIsOfChat
  <2>1. PICK i \in DOMAIN view.view : view.view[i] = m  BY <1>2
  <2>. QED  BY <1>1, <2>1 DEF ViewOf, Placed, Messages!Range
<1>5. Messages!PendingIsTimed
  <2>. SUFFICES ASSUME NEW m \in Messages!Shown(view), m.pending
       PROVE  \E p \in view.pend : p[1] = m.id
    BY DEF Messages!PendingIsTimed
  <2>1. PICK i \in DOMAIN view.view : view.view[i] = m  BY <1>2
  <2>. QED  BY <1>1, <2>1 DEF Timed
<1>. QED  BY <1>3, <1>4, <1>5 DEF ChatAgrees

\* The other parts leave it alone.
LEMMA MessagesKept ==
    ASSUME HomeChatAssumption, MessageInv, [Next]_homeVars
    PROVE  MessageInv' /\ [Messages!RecoveryIsComplete]_messageVars
<1>1. CASE UNCHANGED messageVars
  BY <1>1, MessagesRest
<1>2. CASE Messages!Next
  <2>1. MessageInv'  BY <1>2, MessagesStep
  <2>2. CASE Messages!Ready
    BY <2>1, <2>2, ReadyKeeps
  <2>3. CASE ~(view.state = "recovering" /\ view'.state = "ready")
    <3>1. Messages!RecoveryIsComplete  BY <2>3 DEF Messages!RecoveryIsComplete
    <3>. QED  BY <2>1, <3>1
  <2>. QED  BY <1>2, <2>2, <2>3, OthersKeepRecovering
<1>. QED  BY <1>1, <1>2 DEF Next, homeVars

\* Of the messages that are sent, repeated, stored, loaded and reconciled, the view
\* shows each once and those of the open chat alone, and says of one that it is being
\* sent only while a timer will end that, for any chats, messages and page size and any
\* number of faults (home.component.ts:1907, :1972).
THEOREM ChatHolds == HomeChatAssumption => (Spec => []ChatAgrees)
<1>. SUFFICES ASSUME HomeChatAssumption  PROVE Spec => []ChatAgrees
  OBVIOUS
<1>1. Init => MessageInv
  BY MessagesStart DEF Init
<1>2. MessageInv /\ [Next]_homeVars => MessageInv'
  BY MessagesKept
<1>3. MessageInv => ChatAgrees
  BY MessagesAgree
<1>. QED  BY <1>1, <1>2, <1>3, PTL DEF Spec

\* Whatever was delivered to the socket that died, a recovery that is over has every
\* message of a peer on the screen or on its way, unless a reconciliation of the chat
\* was rejected (home.component.ts:1341).
THEOREM RecoveriesComplete == HomeChatAssumption => (Spec => RecoveryIsComplete)
<1>. SUFFICES ASSUME HomeChatAssumption  PROVE Spec => RecoveryIsComplete
  OBVIOUS
<1>1. Init => MessageInv
  BY MessagesStart DEF Init
<1>2. MessageInv /\ [Next]_homeVars => MessageInv' /\ [Messages!RecoveryIsComplete]_messageVars
  BY MessagesKept
<1>. QED  BY <1>1, <1>2, PTL DEF Spec, RecoveryIsComplete
=============================================================================
