------------------------------- MODULE Session -------------------------------
(***************************************************************************)
(* Signing in and out in one tab of the frontend: the access token of      *)
(* auth.service.ts, the one refresh of a page that its guards and          *)
(* resolvers share, the interceptor that ends the session at a 401, and    *)
(* the pages the router shows. Tokens are numbered as the auth service     *)
(* issues them; token 0 is none. All are of one account.                   *)
(***************************************************************************)
EXTENDS Integers, FiniteSets

CONSTANTS
    MaxTokens,      \* tokens the auth service issues
    MaxEffort       \* moves of the user, expiries and lost answers

SessionAssumption == {MaxTokens, MaxEffort} \subseteq Nat

VARIABLES
    tab,        \* the page, see Tab
    out,        \* requests on their way
    cookie,     \* the refresh token the browser holds
    auth,       \* what the auth service takes for valid
    signedOut,  \* whether the user has signed out with no login on its way, and not tried
                \* to sign in since
    refreshes,  \* refresh requests since the page was loaded
    lost,       \* whether since then an answer was lost, or a login was refused in Home
    spent       \* of MaxEffort

vars == <<tab, out, cookie, auth, signedOut, refreshes, lost, spent>>

Token == 0 .. MaxTokens
Pages == {"none", "login", "home"}      \* "login" is that of /login and of /sign-up
Kinds == {"refresh", "login", "logout", "data"}
Request == [id : Nat, kind : Kinds, bears : Token, reply : {"none", "ok", "denied", "lost"},
            grants : Token]

\* The outcome of restore() is not asked for, awaited, null, or the token it brought. A
\* navigation waits for it (going), and then for the code of Home (entering).
Tab == [token : Token, restore : {"undefined", "asked", "null", "token"}, page : Pages,
        going : Pages, entering : BOOLEAN]

TypeOK ==
    /\ tab \in Tab /\ IsFiniteSet(out) /\ out \subseteq Request /\ cookie \in Token
    /\ auth \in [access : SUBSET Token, refresh : SUBSET Token, issued : Token]
    /\ {signedOut, lost} \subseteq BOOLEAN /\ refreshes \in Nat /\ spent \in 0 .. MaxEffort

Spend == spent < MaxEffort /\ spent' = spent + 1

\* A request is sent with the token of the moment, a refresh with the cookie.
FreeId == CHOOSE i \in 0 .. Cardinality(out) : \A r \in out : r.id # i
Sent(kind, t) ==
    out \cup {[id |-> FreeId, kind |-> kind, bears |-> t, reply |-> "none", grants |-> 0]}

(* The router, the guards and the interceptor.                             *)

\* AuthGuard and AuthResolver: with a session both lead to Home, without one to /login.
Navigated(t, to) ==
    CASE t.token # 0 \/ t.restore = "token" -> [t EXCEPT !.going = "none", !.entering = TRUE]
      [] t.token = 0 /\ t.restore = "null" ->
            [t EXCEPT !.going = "none", !.entering = FALSE, !.page = "login"]
      [] OTHER -> [t EXCEPT !.going = to, !.entering = FALSE, !.restore = "asked"]

\* The refresh request a navigation causes.
Asks(t) == t.token = 0 /\ t.restore = "undefined"

\* Faulty: the outcome of the last restore is forgotten.
ForgottenAsWell(t) == [t EXCEPT !.token = 0, !.restore = "undefined"]

\* logout, as far as the page goes.
Forgotten(t) == [t EXCEPT !.token = 0, !.restore = "null"]

\* Faulty: Home stays when its requests are denied.
DeniedQuietly(t, r) == Forgotten(t)

\* The interceptor at a 401: off a public page it leads to /login.
Denied(t, r) ==
    IF r.kind \in {"refresh", "login"} \/ t.page = "login" THEN Forgotten(t)
    ELSE Navigated(Forgotten(t), "login")

(* The page is loaded: a first navigation begins.                          *)

Loaded(to) == [token |-> 0, restore |-> "asked", page |-> "none", going |-> to,
               entering |-> FALSE]
FirstRequest(c) == [id |-> 0, kind |-> "refresh", bears |-> c, reply |-> "none", grants |-> 0]

Init ==
    /\ \E to \in {"login", "home"} : tab = Loaded(to)
    /\ out = {FirstRequest(0)} /\ cookie = 0
    /\ auth = [access |-> {}, refresh |-> {}, issued |-> 0]
    /\ signedOut = FALSE /\ refreshes = 1 /\ lost = FALSE /\ spent = 0

\* A reload ends all requests: those the service has not handled it never does.
Reload(to) ==
    /\ Spend
    /\ tab' = Loaded(to) /\ out' = {FirstRequest(cookie)} /\ refreshes' = 1
    /\ signedOut' = FALSE /\ lost' = FALSE
    /\ UNCHANGED <<cookie, auth>>

\* The user opens a page of the application.
Navigate(to) ==
    /\ to # tab.page /\ to # tab.going /\ Spend
    /\ tab' = Navigated(tab, to)
    /\ out' = IF Asks(tab) THEN Sent("refresh", cookie) ELSE out
    /\ refreshes' = refreshes + (IF Asks(tab) THEN 1 ELSE 0)
    /\ UNCHANGED <<cookie, auth, signedOut, lost>>

\* The code of Home is there; its first requests go out.
EnterHome ==
    /\ tab.entering
    /\ tab' = [tab EXCEPT !.entering = FALSE, !.page = "home"]
    /\ out' = Sent("data", tab.token)
    /\ UNCHANGED <<cookie, auth, signedOut, refreshes, lost, spent>>

(* The user.                                                               *)

\* A login, or a registration that is approved at once. The component that disables its
\* form is a new one after a visit to the other page, and the request of the old goes on.
Login ==
    /\ tab.page = "login" /\ Spend
    /\ out' = Sent("login", 0) /\ signedOut' = FALSE
    /\ UNCHANGED <<tab, cookie, auth, refreshes, lost>>

Logout ==
    /\ tab.token # 0 /\ Spend
    /\ tab' = Forgotten(tab)
    /\ out' = Sent("logout", tab.token) /\ signedOut' = (\A r \in out : r.kind # "login")
    /\ UNCHANGED <<cookie, auth, refreshes, lost>>

\* Home polls, pages and searches.
HomeAsks ==
    /\ tab.page = "home" /\ Spend
    /\ out' = Sent("data", tab.token)
    /\ UNCHANGED <<tab, cookie, auth, signedOut, refreshes, lost>>

(* The auth service.                                                       *)

Replied(r, reply, n) == (out \ {r}) \cup {[r EXCEPT !.reply = reply, !.grants = n]}

\* A token for a right password, or for a refresh token that is not used yet.
Issue(r) ==
    /\ r.reply = "none" /\ auth.issued < MaxTokens
    /\ r.kind = "login" \/ (r.kind = "refresh" /\ r.bears \in auth.refresh)
    /\ LET n == auth.issued + 1
       IN  /\ auth' = [access |-> auth.access \cup {n}, issued |-> n,
                       refresh |-> (auth.refresh \ {r.bears}) \cup {n}]
           /\ out' = Replied(r, "ok", n)
    /\ UNCHANGED <<tab, cookie, signedOut, refreshes, lost, spent>>

\* Every session of the account is revoked.
Revoke(r) ==
    /\ r.reply = "none" /\ r.kind = "logout" /\ r.bears \in auth.access
    /\ auth' = [auth EXCEPT !.access = {}, !.refresh = {}]
    /\ out' = Replied(r, "ok", 0)
    /\ UNCHANGED <<tab, cookie, signedOut, refreshes, lost, spent>>

Serve(r) ==
    /\ r.reply = "none" /\ r.kind = "data" /\ r.bears \in auth.access
    /\ out' = Replied(r, "ok", 0)
    /\ UNCHANGED <<tab, cookie, auth, signedOut, refreshes, lost, spent>>

Deny(r) ==
    /\ r.reply = "none"
    /\ CASE r.kind = "login" -> TRUE
         [] r.kind = "refresh" -> r.bears \notin auth.refresh
         [] OTHER -> r.bears \notin auth.access
    /\ out' = Replied(r, "denied", 0)
    /\ UNCHANGED <<tab, cookie, auth, signedOut, refreshes, lost, spent>>

\* The request or its answer is lost.
Lose(r) ==
    /\ r.reply # "lost" /\ Spend
    /\ out' = Replied(r, "lost", 0) /\ lost' = TRUE
    /\ UNCHANGED <<tab, cookie, auth, signedOut, refreshes>>

Expire(n) ==
    /\ n \in auth.access /\ Spend
    /\ auth' = [auth EXCEPT !.access = @ \ {n}]
    /\ UNCHANGED <<tab, out, cookie, signedOut, refreshes, lost>>

(* What comes back.                                                        *)

\* A token is accepted, the header asks for the profile, and what waited goes on. A login
\* leads to Home, where the page may be already.
Accepted(r) ==
    /\ r.reply = "ok" /\ r.grants # 0
    /\ cookie' = r.grants
    /\ tab' = LET t == [tab EXCEPT !.token = r.grants,
                                   !.restore = IF r.kind = "login" THEN "undefined"
                                               ELSE IF @ = "asked" THEN "token" ELSE @]
              IN  IF t.page # "home" /\ (r.kind = "login" \/ t.going # "none")
                  THEN Navigated(t, "home") ELSE t
    /\ out' = (out \ {r}) \cup {[r EXCEPT !.kind = "data", !.bears = r.grants, !.reply = "none",
                                          !.grants = 0]}
    /\ UNCHANGED <<auth, signedOut, refreshes, lost, spent>>

\* Faulty: a failed refresh has an outcome of its own.
UnrestoredOddly(t) == [t EXCEPT !.restore = "failed", !.going = "none", !.page = "login"]

\* Faulty: a refresh that fails leaves the page waiting.
UnrestoredForGood(t) == t

\* catchError of restore: who waits goes to /login.
Unrestored(t) ==
    LET u == [t EXCEPT !.restore = "null"]
    IN  IF u.going # "none" THEN Navigated(u, u.going) ELSE u

RefreshFails(r) ==
    /\ r.kind = "refresh" /\ r.reply \in {"denied", "lost"}
    /\ tab' = Unrestored(IF r.reply = "denied" THEN Denied(tab, r) ELSE tab)
    /\ out' = out \ {r}
    /\ UNCHANGED <<cookie, auth, signedOut, refreshes, lost, spent>>

\* The interceptor at a login that is refused ends whatever session there is, and leads
\* nowhere: Home may be left without one.
LoginFails(r) ==
    /\ r.kind = "login" /\ r.reply \in {"denied", "lost"}
    /\ tab' = IF r.reply = "denied" THEN Denied(tab, r) ELSE tab
    /\ out' = out \ {r}
    /\ lost' = (lost \/ (r.reply = "denied" /\ tab.page = "home" /\ tab.token # 0))
    /\ UNCHANGED <<cookie, auth, signedOut, refreshes, spent>>

\* Whatever the answer of a logout, the user is led to /login.
LoggedOut(r) ==
    /\ r.kind = "logout" /\ r.reply # "none"
    /\ cookie' = IF r.reply = "ok" THEN 0 ELSE cookie
    /\ tab' = Navigated(IF r.reply = "denied" THEN Denied(tab, r) ELSE tab, "login")
    /\ out' = IF Asks(tab) /\ r.reply # "denied" THEN (out \ {r}) \cup {[r EXCEPT
                   !.kind = "refresh", !.bears = cookie', !.reply = "none"]} ELSE out \ {r}
    /\ refreshes' = refreshes + (IF Asks(tab) /\ r.reply # "denied" THEN 1 ELSE 0)
    /\ UNCHANGED <<auth, signedOut, lost, spent>>

DataCame(r) ==
    /\ r.kind = "data" /\ r.reply # "none"
    /\ tab' = IF r.reply = "denied" THEN Denied(tab, r) ELSE tab
    /\ out' = out \ {r}
    /\ UNCHANGED <<cookie, auth, signedOut, refreshes, lost, spent>>

Next ==
    \/ \E to \in {"login", "home"} : Reload(to)
    \/ \E to \in {"login", "home"} : Navigate(to)
    \/ EnterHome \/ Login \/ Logout \/ HomeAsks
    \/ \E r \in out : Issue(r)
    \/ \E r \in out : Revoke(r)
    \/ \E r \in out : Serve(r)
    \/ \E r \in out : Deny(r)
    \/ \E r \in out : Lose(r)
    \/ \E n \in Token : Expire(n)
    \/ \E r \in out : Accepted(r)
    \/ \E r \in out : RefreshFails(r)
    \/ \E r \in out : LoginFails(r)
    \/ \E r \in out : LoggedOut(r)
    \/ \E r \in out : DataCame(r)

Spec == Init /\ [][Next]_vars

(* Properties.                                                             *)

Quiet == out = {} /\ ~tab.entering

\* A page asks for at most one refresh, however its guards, its resolvers, logins and
\* logouts follow each other: a refresh token can be used only once.
RefreshedOnce == refreshes <= 1

\* Whoever has signed out is not signed in again by an answer that was on its way, but for
\* that of a login of before: nothing aborts it, and its token is accepted.
SignedOutStays == signedOut => tab.token = 0

\* Nobody is left in Home without a session once the answers of its requests are there.
\* (When an answer is lost, or a login that was sent before is refused there, the user finds
\* out at the next request.)
HomeNeedsSession == ~lost /\ Quiet /\ tab.page = "home" => tab.token # 0

\* A navigation that waits for the refresh ends: nobody waits when nothing is on its way.
NobodyWaits == Quiet => tab.going = "none"
=============================================================================
