----------------------------- MODULE GroupAccess -----------------------------
(***************************************************************************)
(* One group as the frontend may show it: HomeGroupAccessFacade, which     *)
(* decides from list pages, point lookups, membership events and the       *)
(* answer of a departure whether the group's private projection may be on  *)
(* the screen, and the part of HomeComponent that shows, clears and        *)
(* restores it.                                                            *)
(*                                                                         *)
(* The server is the history of the group: for each membership revision,   *)
(* whether the user is a member. A response was read at some revision      *)
(* between its request and its delivery. Counters that the code compares   *)
(* only for equality with a captured value are kept as a flag of what      *)
(* captured it: a lookup is superseded once requestRevision moved on,      *)
(* early once departureGeneration did, a list is fresh as long as          *)
(* projectionGeneration did not, a context as long as the user did not     *)
(* navigate.                                                               *)
(***************************************************************************)
EXTENDS Naturals, FiniteSets

CONSTANTS
    MaxRevision,    \* membership revisions of the group
    MaxRequests     \* lookups that fail, refreshes and user choices of a run

GroupAccessAssumption == MaxRevision \in Nat \ {0} /\ MaxRequests \in Nat

VARIABLES
    member,     \* member[r]: the user is in the group at revision r
    events,     \* membership events not yet delivered
    leaving,    \* the leave request at the server
    edit,       \* the mutation request: its phase and the revision it made
    h,          \* facade and Home, see HomeType
    spent       \* of MaxRequests

vars == <<member, events, leaving, edit, h, spent>>
server == <<member, events, leaving, edit>>

NoContext == [selected |-> FALSE, fresh |-> FALSE, set |-> FALSE]
NoDeparture == [set |-> FALSE, revision |-> 0, context |-> NoContext, observed |-> FALSE]
NoList == [set |-> FALSE, fresh |-> FALSE, since |-> 0]
Nothing == [kind |-> "none", rev |-> 0]
Other == [kind |-> "other", rev |-> 0]
Real(r) == [kind |-> "real", rev |-> r]
Placeholder(r) == [kind |-> "placeholder", rev |-> r]

Revision == DOMAIN member
Latest == Cardinality(Revision)
IsMember == member[Latest]

MaxOf(a, b) == IF a >= b THEN a ELSE b

-----------------------------------------------------------------------------
Context == [selected : BOOLEAN, fresh : BOOLEAN, set : BOOLEAN]
Shown == [kind : {"none", "other", "real", "placeholder"}, rev : Nat]
Lookup == [id : Nat, superseded : BOOLEAN, early : BOOLEAN, target : Nat, since : Nat]

HomeType ==
    [revision : 0 .. MaxRevision,
     removed : 0 .. MaxRevision,                \* removedRevision, 0 if undefined
     quarantined : BOOLEAN, failed : BOOLEAN,
     context : Context,
     requested : Nat,                           \* requestedRevision
     inFlight : BOOLEAN,
     current : Nat,                             \* requests.get(group), 0 if none
     lookups : SUBSET Lookup,                   \* subscribed point lookups
     fence : Nat,                               \* departureFence.revision, 0 if none
     reconcile : BOOLEAN,                       \* departureReconciliationRequired
     departure : [set : BOOLEAN, revision : Nat, context : Context, observed : BOOLEAN],
     list : [set : BOOLEAN, fresh : BOOLEAN, since : Nat],  \* the newest refresh
     page : [set : BOOLEAN, fresh : BOOLEAN, since : Nat],  \* groupPageRequest
     listed : Shown,                            \* the entry of the conversation list
     chat : Shown,                              \* selectedConversation
     cleared : BOOLEAN,                         \* in clearedGroupProjections
     stale : BOOLEAN,                           \* in staleGroupIDs
     loading : BOOLEAN]                         \* groupLoading

TypeOK ==
    /\ member \in [1 .. Latest -> BOOLEAN]
    /\ events \in SUBSET [rev : 1 .. MaxRevision, deleted : BOOLEAN]
    /\ leaving \in {"none", "sent", "committed"}
    /\ edit \in [phase : {"none", "sent", "committed"}, rev : Nat]
    /\ h \in HomeType
    /\ spent \in 0 .. MaxRequests

Init ==
    /\ member = [r \in {1} |-> TRUE]
    /\ events = {}
    /\ leaving = "none"
    /\ edit = [phase |-> "none", rev |-> 0]
    /\ h = [revision |-> 0, removed |-> 0, quarantined |-> FALSE, failed |-> FALSE,
            context |-> NoContext, requested |-> 0, inFlight |-> FALSE, current |-> 0,
            lookups |-> {}, fence |-> 0, reconcile |-> FALSE,
            departure |-> NoDeparture,
            list |-> [set |-> TRUE, fresh |-> TRUE, since |-> 1], page |-> NoList,
            listed |-> Nothing, chat |-> Nothing, cleared |-> FALSE,
            stale |-> FALSE, loading |-> FALSE]
    /\ spent = 0

-----------------------------------------------------------------------------
(* What the calls of the facade and of Home do to the state, as functions  *)
(* of it; a callback is a composition of them.                             *)

\* projectionGeneration++.
Projected(w) == [w EXCEPT !.list.fresh = FALSE, !.page.fresh = FALSE]

\* refreshConversations, which also cancels the page being loaded.
Asked == [set |-> TRUE, fresh |-> TRUE, since |-> Latest]
Refreshing(w) == [w EXCEPT !.list = Asked, !.page = NoList]

\* requestRevision++.
Superseded(w) ==
    [w EXCEPT !.lookups = {[l EXCEPT !.superseded = TRUE] : l \in @}]

\* requests.get(group)?.unsubscribe() and what always goes with it.
Unsubscribed(w) ==
    [w EXCEPT !.lookups = {l \in @ : l.id # w.current},
              !.current = 0, !.inFlight = FALSE]

\* fetchLatest.
Fetching(w) ==
    LET n == CHOOSE i \in 1 .. Cardinality(w.lookups) + 1 :
                \A l \in w.lookups : l.id # i
    IN  [w EXCEPT !.lookups = @ \cup {[id |-> n, superseded |-> FALSE, early |-> FALSE,
                                       target |-> w.requested, since |-> Latest]},
                  !.current = n, !.inFlight = TRUE]

\* requestGroup.
Requesting(w, r) ==
    LET newest == MaxOf(w.requested, r)
        v == IF ~ w.inFlight \/ newest > w.requested THEN Superseded(w) ELSE w
        u == [v EXCEPT !.requested = newest]
    IN  IF w.inFlight THEN u ELSE Fetching(u)

WithContext(w, c) == IF w.context.set THEN w ELSE [w EXCEPT !.context = c]

\* currentGroupProjection.
Projection(w) ==
    IF w.listed.kind # "none" THEN w.listed
    ELSE IF w.chat.kind # "other" THEN w.chat ELSE Nothing

IsSelected(w) == w.chat.kind \in {"real", "placeholder"}

\* currentGroupProjections, where the open chat goes before its list entry.
CurrentProjection(w) == IF IsSelected(w) THEN w.chat ELSE w.listed

\* groupAccessContext.
ContextOf(w) == [selected |-> IsSelected(w), fresh |-> TRUE, set |-> TRUE]

\* clearGroupProjectionLocally: the first call since the group was last
\* authorized clears everything, a repeated one only the list entry.
ClearedLocally(w) ==
    IF w.cleared THEN [w EXCEPT !.listed = Nothing]
    ELSE Projected([w EXCEPT !.cleared = TRUE, !.listed = Nothing,
                             !.chat = IF IsSelected(w) THEN Nothing ELSE @])

\* quarantine, with Home's reaction to its outcome.
Quarantined(w, c) ==
    IF ~ w.quarantined
    THEN LET q == Projected([w EXCEPT !.quarantined = TRUE, !.failed = FALSE,
                                      !.context = c])
         IN  IF ~ q.stale /\ Projection(q).kind # "none" THEN ClearedLocally(q) ELSE q
    ELSE IF ~ w.context.set /\ c.selected THEN [w EXCEPT !.context = c]
    ELSE w

\* Faulty: the removal fences off the revision after it too.
MarkedRemovedPast(w, r) ==
    LET top == MaxOf(r, w.revision) + 1
        v == IF w.inFlight THEN Superseded(w) ELSE w
    IN  Projected([v EXCEPT !.revision = top, !.inFlight = FALSE,
                            !.removed = MaxOf(@, top), !.quarantined = FALSE,
                            !.failed = FALSE, !.reconcile = FALSE,
                            !.context = NoContext])

\* markRemoved.
MarkedRemoved(w, r) ==
    LET top == MaxOf(r, w.revision)
        v == IF w.inFlight THEN Superseded(w) ELSE w
    IN  Projected([v EXCEPT !.revision = top, !.inFlight = FALSE,
                            !.removed = MaxOf(@, top), !.quarantined = FALSE,
                            !.failed = FALSE, !.reconcile = FALSE,
                            !.context = NoContext])

\* Home on 'removed'.
OnRemoved(w) ==
    LET v == [w EXCEPT !.stale = FALSE]
    IN  IF Projection(v).kind # "none" THEN ClearedLocally(v) ELSE v

Removed(w, r) == OnRemoved(MarkedRemoved(w, r))

\* Home on 'retryable'.
OnRetryable(w) ==
    IF w.quarantined /\ Projection(w).kind = "real" THEN ClearedLocally(w) ELSE w

\* markAuthorized.
MarkedAuthorized(w, r) ==
    IF r > w.revision THEN Projected([w EXCEPT !.revision = r]) ELSE w

\* selectConversationInternal of the group.
Selecting(w, entry) ==
    IF entry.kind = "placeholder"
    THEN LET v == [w EXCEPT !.chat = entry]
             q == IF ~ v.quarantined THEN Quarantined(v, ContextOf(v))
                  ELSE IF ~ v.context.set THEN [v EXCEPT !.context = ContextOf(v)]
                  ELSE v
         IN  IF q.inFlight THEN q ELSE Requesting(WithContext(q, ContextOf(v)), q.revision)
    ELSE LET v == MarkedAuthorized([w EXCEPT !.chat = entry], entry.rev)
         IN  IF v.listed.kind = "none" THEN v ELSE [v EXCEPT !.listed = entry]

\* acceptProjection: the new state and the verdict.
Accepting(w, r) ==
    IF r < w.revision \/ (w.removed # 0 /\ r <= w.removed) THEN w
    ELSE LET a == IF r = w.revision THEN w
                  ELSE LET b == IF w.inFlight
                                THEN Superseded([w EXCEPT !.requested = MaxOf(@, r)])
                                ELSE w
                       IN  Projected([b EXCEPT !.revision = r])
         IN  IF a.removed = 0 THEN a ELSE Projected([a EXCEPT !.removed = 0])
Accepts(w, r) ==
    ~ (r < w.revision \/ (w.removed # 0 /\ r <= w.removed)) /\ ~ w.quarantined

\* upsertGroup: a projection that is refused is still shown over one that is
\* newer than it.
Upserts(w, r) ==
    /\ ~ w.quarantined
    /\ \/ Accepts(w, r)
       \/ LET p == Projection(Accepting(w, r)) IN p.kind # "none" /\ p.rev >= r
Upserted(w, r) ==
    IF w.quarantined THEN w
    ELSE LET v == Accepting(w, r)
         IN  IF ~ Upserts(w, r) THEN v
             ELSE [v EXCEPT !.cleared = FALSE, !.listed = Real(r),
                            !.chat = IF IsSelected(v) THEN Real(r) ELSE @]

\* Home on 'authorized', with the context the facade captured.
OnAuthorized(w, r, c) ==
    LET v == [w EXCEPT !.stale = FALSE, !.cleared = FALSE]
    IN  IF ~ c.set /\ IsSelected(v)
        THEN IF v.chat.kind = "placeholder" THEN Selecting(v, Real(r))
             ELSE [v EXCEPT !.chat = Real(r),
                            !.listed = IF @.kind = "none" THEN @ ELSE Real(r)]
        ELSE IF c.selected /\ c.fresh /\ v.chat.kind = "none"
        THEN Selecting(MarkedAuthorized([v EXCEPT !.listed = Real(r)], r), Real(r))
        ELSE LET u == Upserted(v, r)
             IN  IF Upserts(v, r) /\ c.selected THEN MarkedAuthorized(u, r) ELSE u

\* departureProjectionIsFenced.
Fenced(w) == w.reconcile \/ w.departure.set

\* Faulty: Home is not told, and stays busy.
DepartedSilently(w) == [w EXCEPT !.departure = NoDeparture]

\* finishDeparture, with Home on 'departure-finished'.
Departed(w) == [w EXCEPT !.departure = NoDeparture, !.loading = FALSE]

-----------------------------------------------------------------------------
(* The server.                                                             *)

Commit(m, deleted) ==
    /\ Latest < MaxRevision
    /\ member' = [r \in 1 .. Latest + 1 |-> IF r = Latest + 1 THEN m ELSE member[r]]
    /\ events' = IF IsMember \/ m
                 THEN events \cup {[rev |-> Latest + 1, deleted |-> deleted]} ELSE events

\* Another member changes the group, removes the user, or adds it again.
OthersChange ==
    /\ \E m \in BOOLEAN : Commit(m, FALSE)
    /\ UNCHANGED <<leaving, edit, h, spent>>

\* The server commits the user's leave, or the deletion of the group.
LeaveCommits ==
    /\ leaving = "sent" /\ IsMember
    /\ \E deleted \in BOOLEAN : Commit(FALSE, deleted)
    /\ leaving' = "committed"
    /\ UNCHANGED <<edit, h, spent>>

EditCommits ==
    /\ edit.phase = "sent" /\ IsMember
    /\ Commit(TRUE, FALSE)
    /\ edit' = [phase |-> "committed", rev |-> Latest + 1]
    /\ UNCHANGED <<leaving, h, spent>>

-----------------------------------------------------------------------------
(* The user.                                                               *)

Spend == spent < MaxRequests /\ spent' = spent + 1

\* Every choice of a conversation, and closing one, is a navigation intent.
Navigated(w) ==
    [w EXCEPT !.context.fresh = FALSE, !.departure.context.fresh = FALSE]

SelectGroup ==
    /\ Spend
    /\ h.listed.kind # "none"
    /\ h' = Selecting(Navigated(h), h.listed)
    /\ UNCHANGED server

LeaveChat ==
    /\ Spend
    /\ \E c \in {Nothing, Other} : h' = [Navigated(h) EXCEPT !.chat = c]
    /\ UNCHANGED server

\* runGroupDeparture and depart.
Depart ==
    /\ h.chat.kind = "real" /\ ~ h.loading
    /\ leaving = "none"
    /\ leaving' = "sent"
    /\ h' = IF h.departure.set THEN [h EXCEPT !.loading = TRUE]
            ELSE LET r == MaxOf(h.revision, Projection(h).rev)
                 IN  Unsubscribed([h EXCEPT
                        !.loading = TRUE, !.revision = r, !.context = NoContext,
                        !.departure = [set |-> TRUE, revision |-> r,
                                       context |-> ContextOf(h), observed |-> FALSE]])
    /\ UNCHANGED <<member, events, edit, spent>>

\* renameGroup and the other mutations.
Edit ==
    /\ h.chat.kind = "real" /\ ~ h.loading
    /\ edit.phase = "none"
    /\ edit' = [phase |-> "sent", rev |-> 0]
    /\ h' = [h EXCEPT !.loading = TRUE]
    /\ UNCHANGED <<member, events, leaving, spent>>

\* refreshChats: quarantined groups are looked up again and the list too.
RefreshChats ==
    /\ Spend
    /\ LET v == IF (h.quarantined \/ h.departure.observed) /\ ~ h.inFlight
                THEN Requesting(h, h.revision) ELSE h
       IN  h' = Refreshing(v)
    /\ UNCHANGED server

\* loadMoreGroups. The group may be on the page or not.
LoadMoreGroups ==
    /\ Spend
    /\ ~ h.page.set /\ ~ h.list.set
    /\ h' = [h EXCEPT !.page = Asked]
    /\ UNCHANGED server

-----------------------------------------------------------------------------
(* Events and responses.                                                   *)

\* membershipChanged.
MembershipChanged(e) ==
    /\ e \in events
    /\ events' = events \ {e}
    /\ LET known == MaxOf(h.revision, Projection(h).rev)
           a == [h EXCEPT !.revision = e.rev]
           b == IF a.inFlight THEN Superseded([a EXCEPT !.requested = MaxOf(@, e.rev)]) ELSE a
           c == Projected(b)
           d == IF c.removed # 0 /\ e.rev > c.removed THEN [c EXCEPT !.removed = 0] ELSE c
       IN  h' = IF e.rev <= known THEN h
                ELSE IF e.deleted
                THEN Removed(Unsubscribed(
                        [c EXCEPT !.departure.observed =
                            @ \/ (c.departure.set /\ known = c.departure.revision)]), e.rev)
                ELSE Requesting(Quarantined(d, ContextOf(h)), e.rev)
    /\ UNCHANGED <<member, leaving, edit, spent>>

\* Replayed or duplicated conversation.created: refresh and look it up.
ConversationCreated ==
    /\ Spend
    /\ IsMember
    /\ h' = LET v == Refreshing(h)
            IN  Requesting(WithContext(v, ContextOf(v)), v.revision)
    /\ UNCHANGED server

\* depart, next.
LeaveSucceeds ==
    /\ leaving = "committed"
    /\ leaving' = "none"
    /\ h' = IF ~ h.departure.set THEN h
            ELSE IF h.departure.observed /\ h.removed # 0 THEN Departed(h)
            ELSE IF h.revision > h.departure.revision
            THEN LET v == Unsubscribed([h EXCEPT
                            !.quarantined = TRUE, !.failed = FALSE,
                            !.context = h.departure.context,
                            !.fence = h.departure.revision, !.reconcile = TRUE,
                            !.lookups = {[l EXCEPT !.early = TRUE] : l \in @}])
                 IN  Fetching(Departed(Superseded(v)))
            ELSE Departed(Removed(h, h.departure.revision))
    /\ UNCHANGED <<member, events, edit, spent>>

\* depart, error: the answer is lost, whether or not the server committed.
LeaveFails ==
    /\ Spend
    /\ leaving # "none"
    /\ leaving' = "none"
    /\ h' = IF ~ h.departure.set THEN h
            ELSE Departed(IF h.departure.observed THEN h
                          ELSE Fetching(Superseded(Unsubscribed(
                                  Quarantined(h, h.departure.context)))))
    /\ UNCHANGED <<member, events, edit>>

\* The mutation's answer: mutateGroup shows what it returned.
EditAnswered ==
    /\ edit.phase = "committed"
    /\ edit' = [phase |-> "none", rev |-> 0]
    /\ h' = [Upserted(h, edit.rev) EXCEPT !.loading = FALSE]
    /\ UNCHANGED <<member, events, leaving, spent>>

EditFails ==
    /\ Spend
    /\ edit.phase # "none"
    /\ edit' = [phase |-> "none", rev |-> 0]
    /\ h' = [h EXCEPT !.loading = FALSE]
    /\ UNCHANGED <<member, events, leaving>>

\* finalize of a lookup, after its callback w left the state v.
Finished(v, l, retry) ==
    LET u == [v EXCEPT !.lookups = {k \in @ : k.id # l.id}, !.inFlight = FALSE,
                       !.current = IF @ = l.id THEN 0 ELSE @]
    IN  IF retry /\ ~ (u.removed # 0 /\ ~ u.quarantined) THEN Fetching(u) ELSE u

\* Faulty: what was removed since the lookup began is not looked at.
OutdatedUnlessRemoved(w, l, r) == r < l.target \/ l.superseded

\* The lookup found the group at revision r: next of fetchLatest.
Outdated(w, l, r) ==
    \/ r < MaxOf(l.target, w.revision)
    \/ w.removed # 0 /\ r <= w.removed
    \/ l.superseded

Early(w, l, r) == w.fence # 0 /\ l.early /\ r > w.fence

\* Faulty: a superseded lookup authorizes although the departure is fenced.
NewerUnfenced(w, l, r) ==
    IF ~ (r > w.revision /\ l.superseded /\ (w.removed = 0 \/ r > w.removed)) THEN w
    ELSE OnAuthorized([w EXCEPT !.revision = r], r, NoContext)

\* Faulty: a superseded answer is used however old it is.
NewerAnyAge(w, l, r) ==
    IF ~ l.superseded \/ (w.removed # 0 /\ r <= w.removed) THEN w
    ELSE OnAuthorized(Projected([w EXCEPT !.revision = r, !.removed = 0,
                                          !.quarantined = FALSE, !.failed = FALSE]),
                      r, NoContext)

\* A superseded answer may still be the newest projection seen.
Newer(w, l, r) ==
    IF ~ (r > w.revision /\ l.superseded /\ (w.removed = 0 \/ r > w.removed)) THEN w
    ELSE IF Fenced(w) \/ Early(w, l, r)
    THEN [w EXCEPT !.revision = r, !.quarantined = TRUE, !.failed = FALSE]
    ELSE OnAuthorized(Projected([w EXCEPT !.revision = r, !.removed = 0,
                                          !.quarantined = FALSE, !.failed = FALSE]),
                      r, NoContext)
Authorized(w, l, r) ==
    OnAuthorized(Projected([w EXCEPT !.revision = r, !.removed = 0,
                              !.quarantined = FALSE, !.failed = FALSE,
                              !.reconcile = @ /\ ~ (w.fence # 0 /\ ~ l.early),
                              !.context = NoContext]),
                 r, w.context)

Found(w, l, r) ==
    IF w.departure.set /\ r > w.departure.revision
    THEN Finished(Quarantined([w EXCEPT !.revision = MaxOf(@, r)],
                              IF w.context.set THEN w.context ELSE w.departure.context),
                  l, FALSE)
    ELSE IF Early(w, l, r)
    THEN Finished([w EXCEPT !.revision = MaxOf(@, r), !.quarantined = TRUE,
                            !.failed = FALSE], l, l.superseded)
    ELSE IF w.departure.observed /\ w.removed # 0
    THEN Finished(Departed(w), l, FALSE)
    ELSE IF w.departure.observed /\ ~ w.quarantined
    THEN Finished(Removed(w, MaxOf(l.target, w.revision)), l, FALSE)
    ELSE IF Outdated(w, l, r)
    THEN LET v == Newer(w, l, r) IN
         IF l.superseded
         THEN Finished(v, l, ~ v.departure.set /\ ~ (v.removed # 0 /\ ~ v.quarantined))
         ELSE Finished(OnRetryable([v EXCEPT !.failed = v.quarantined]), l, FALSE)
    ELSE IF w.departure.set /\ w.revision > w.departure.revision
    THEN Finished([w EXCEPT !.revision = r, !.failed = FALSE], l, FALSE)
    ELSE Finished(Authorized(w, l, r), l, FALSE)

\* error of fetchLatest: the group was not found, or the lookup failed.
FailedLookup(w, l, notFound) ==
    IF l.superseded THEN Finished(w, l, TRUE)
    ELSE LET v == IF w.departure.set /\ w.revision > w.departure.revision /\ ~ w.departure.observed
                  THEN Departed([Quarantined(w, w.departure.context) EXCEPT !.failed = TRUE])
                  ELSE w
         IN  IF notFound THEN Finished(Removed(v, MaxOf(l.target, v.revision)), l, FALSE)
             ELSE Finished(OnRetryable([v EXCEPT !.failed =
                                 v.departure.observed \/ v.quarantined]), l, FALSE)

LookupAnswers(l) ==
    /\ l \in h.lookups
    /\ \E r \in l.since .. Latest :
          h' = IF member[r] THEN Found(h, l, r) ELSE FailedLookup(h, l, TRUE)
    /\ UNCHANGED <<server, spent>>

LookupFails(l) ==
    /\ Spend
    /\ l \in h.lookups
    /\ h' = FailedLookup(h, l, FALSE)
    /\ UNCHANGED server

\* projectConversationList for the group's own item at revision r.
ListedQuarantined(w, r) ==
    w.departure.set /\ r > w.departure.revision
ListedAuthorizes(w, r) ==
    /\ w.quarantined /\ ~ Fenced(w) /\ r >= w.revision
    /\ w.removed = 0 \/ r > w.removed
ProjectedItem(w, r) ==
    IF ListedQuarantined(w, r)
    THEN Quarantined([w EXCEPT !.revision = MaxOf(@, r)],
                     IF w.context.set THEN w.context ELSE w.departure.context)
    ELSE IF ListedAuthorizes(w, r)
    THEN LET v == Unsubscribed(Superseded([w EXCEPT !.requested = MaxOf(@, r)]))
         IN  OnAuthorized(Projected([v EXCEPT !.revision = r, !.removed = 0,
                               !.quarantined = FALSE, !.failed = FALSE,
                               !.reconcile = FALSE, !.context = NoContext]),
                          r, v.context)
    ELSE IF w.quarantined THEN w
    ELSE Accepting(w, r)

\* What the list shows of it: the item, what was shown before, or nothing.
ProjectedEntry(w, r) ==
    IF ListedQuarantined(w, r) THEN Nothing
    ELSE IF ListedAuthorizes(w, r) THEN Real(r)
    ELSE IF w.quarantined THEN Nothing
    ELSE IF Accepts(w, r) THEN Real(r)
    ELSE IF Accepting(w, r).removed = 0 THEN CurrentProjection(w) ELSE Nothing

\* mergeConversationSnapshot: the entry of a group the page has, or of one
\* that was shown and is missing from it.
MergedPresent(w, r) ==
    LET before == CurrentProjection(w)
        entry == ProjectedEntry(w, r)
    IN  [ProjectedItem(w, r) EXCEPT !.listed = IF entry.kind # "none" THEN entry ELSE before]
MergedAbsent(w) ==
    IF CurrentProjection(w).kind = "none" THEN [w EXCEPT !.listed = Nothing]
    ELSE LET c == ContextOf(w)
             v == ClearedLocally([w EXCEPT !.stale = TRUE])
             q == IF ~ v.quarantined THEN Quarantined(v, c)
                  ELSE IF ~ v.context.set /\ c.selected THEN [v EXCEPT !.context = c] ELSE v
             u == IF c.selected /\ ~ q.inFlight
                  THEN Requesting(WithContext(q, c), q.revision) ELSE q
         IN  [u EXCEPT !.listed = IF u.quarantined THEN Placeholder(u.revision) ELSE Nothing]

\* refreshConversationsAttempt, next: the selected conversation follows the
\* list, and a selected group the list does not have is removed.
Refreshed(v) ==
    LET w == [v EXCEPT !.list = NoList]
    IN  IF ~ IsSelected(w) THEN w
        ELSE IF w.listed.kind # "none" THEN [w EXCEPT !.chat = w.listed]
        ELSE IF w.removed # 0 /\ w.removed >= MaxOf(w.chat.rev, w.revision) /\ ~ w.quarantined
        THEN w
        ELSE Removed(Unsubscribed(w), MaxOf(w.chat.rev, w.revision))

\* The page of a refresh. A group of a later page is missing from the first.
ListAnswers ==
    /\ h.list.set
    /\ IF ~ h.list.fresh
       THEN h' = [h EXCEPT !.list = Asked]
       ELSE \E r \in h.list.since .. Latest :
               \/ member[r] /\ h' = Refreshed(MergedPresent(h, r))
               \/ h' = Refreshed(MergedAbsent(h))
    /\ UNCHANGED <<server, spent>>

\* loadMoreGroups, next: a page that is out of date is dropped, a group it has
\* is shown unless it is refused.
PageAnswers ==
    /\ h.page.set
    /\ LET w == [h EXCEPT !.page = NoList]
       IN  \/ h' = w
           \/ /\ h.page.fresh
              /\ \E r \in h.page.since .. Latest :
                    /\ member[r]
                    /\ LET v == ProjectedItem(w, r)
                           entry == ProjectedEntry(w, r)
                       IN  h' = IF entry.kind = "none" THEN v ELSE [v EXCEPT !.listed = entry]
    /\ UNCHANGED <<server, spent>>

-----------------------------------------------------------------------------
Next ==
    \/ OthersChange \/ LeaveCommits \/ EditCommits
    \/ SelectGroup \/ LeaveChat \/ Depart \/ Edit \/ RefreshChats
    \/ \E e \in events : MembershipChanged(e)
    \/ ConversationCreated \/ LeaveSucceeds \/ LeaveFails
    \/ EditAnswered \/ EditFails
    \/ \E l \in h.lookups : LookupAnswers(l) \/ LookupFails(l)
    \/ LoadMoreGroups \/ ListAnswers \/ PageAnswers

Spec == Init /\ [][Next]_vars

-----------------------------------------------------------------------------
Visible(w) == {e.rev : e \in {x \in {w.listed, w.chat} : x.kind = "real"}}

\* Nothing is on its way: no event, no answer of the server.
Quiet ==
    /\ events = {} /\ leaving = "none" /\ edit.phase = "none"
    /\ h.lookups = {} /\ ~ h.list.set

\* Once nothing is on its way nothing waits for it: no departure is pending, no
\* lookup is thought to be in flight and the busy mark that disables the
\* group's controls (groupLoading) is gone, whichever of event, lookup, list
\* and answer ended the departure.
Settled == Quiet => ~ h.departure.set /\ ~ h.inFlight /\ ~ h.loading

\* No lookup, membership event or answer of a departure puts the projection of
\* a quarantined group on the screen: between the lookups begun before and after
\* a leave, superseded ones included, only a conversation list can.
UnverifiedOnlyFromLists ==
    h'.quarantined /\ Visible(h') # {} => Visible(h) # {} \/ h.list # h'.list

\* Lists, pages and lookups that answer in any order never replace the group in
\* the list, or in the open chat, by an older revision of it: at worst the list takes
\* over what the open chat shows, when its own item is refused. (An answer to the
\* user's own edit does, see upsertGroup.)
NeverShowsOlder ==
    edit' = edit =>
    /\ h.listed.kind = "real" /\ h'.listed.kind = "real" =>
            h'.listed.rev >= h.listed.rev \/ h'.listed = h.chat
    /\ h.chat.kind = "real" /\ h'.chat.kind = "real" => h'.chat.rev >= h.chat.rev

\* A group that was removed and left the screen comes back only with a revision
\* newer than its removal, however late the answers that were read before it, the
\* answer to the user's own edit excepted:
\* "rejects stale mutation and conversation-list projections after a newer
\* removal" (home.component.spec.ts:1090).
ReturnsNewer ==
    edit' = edit /\ h.removed # 0 /\ Visible(h) = {} /\ Visible(h') # {} =>
        \A r \in Visible(h') : r > h.removed
=============================================================================
