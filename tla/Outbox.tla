------------------------------- MODULE Outbox -------------------------------
(***************************************************************************)
(* The consumers of outbox_events: every realtime replica claims pending   *)
(* events in batches, notifies the hub of each and marks it processed, or  *)
(* releases its claim.                                                     *)
(*                                                                         *)
(* The statements that claim, mark and release are atomic.  Between them a *)
(* claim may lapse and pass to another replica, a call may fail before or  *)
(* after it took effect, and a replica may stop or die.                    *)
(*                                                                         *)
(* Time.  Tick lets one unit pass.  A claim lives 30 s, the notification   *)
(* and the marking of one event have 10 s together: the constants keep     *)
(* that order.  A claim token is the replica that drew it: a replica works *)
(* on one batch at a time, and a token it no longer works with is used by  *)
(* nobody.                                                                 *)
(***************************************************************************)
EXTENDS Naturals, FiniteSets

CONSTANTS
    Replicas,
    Events,      \* numbers, in the order of created_at and id
    None,
    BatchSize,   \* LIMIT of a claim
    ClaimTTL,
    EventTTL,
    Prompt,      \* TRUE: no time passes but in claims, notifications and marking
    Frail,       \* bound: the replicas that may stop or die
    MaxFaults    \* bound: calls that fail, rows met locked, replicas that stop or die

ASSUME OutboxAssumption ==
    /\ Events \subseteq Nat
    /\ None \notin Events
    /\ None \notin [by : Replicas, ttl : 0 .. ClaimTTL]
    /\ BatchSize \in Nat \ {0}
    /\ EventTTL \in Nat /\ ClaimTTL \in Nat /\ EventTTL < ClaimTTL
    /\ Prompt \in BOOLEAN
    /\ Frail \subseteq Replicas
    /\ MaxFaults \in Nat

VARIABLES
    row,        \* outbox_events: absent, pending or processed
    claim,      \* claim_token and claim_expires_at
    delivered,  \* events of which the hub was notified
    step,       \* where a replica is in processConversationEvents
    batch,      \* the claimed events it has not reached
    current,    \* the event it works on
    first,      \* whether that event is the first of its batch
    timer,      \* what is left of the time for that event
    stopping,   \* replicas whose process context is cancelled
    faults      \* faults so far

table == <<row, claim>>
loop == <<step, batch, current, first, timer>>
vars == <<table, delivered, loop, stopping, faults>>

-----------------------------------------------------------------------------
Positions == {"idle", "events", "notify", "mark", "release", "exited", "dead"}

TypeOK ==
    /\ row \in [Events -> {"absent", "pending", "processed"}]
    /\ claim \in [Events -> [by : Replicas, ttl : 0 .. ClaimTTL] \cup {None}]
    /\ delivered \subseteq Events
    /\ step \in [Replicas -> Positions]
    /\ batch \in [Replicas -> SUBSET Events]
    /\ current \in [Replicas -> Events \cup {None}]
    /\ first \in [Replicas -> BOOLEAN]
    /\ timer \in [Replicas -> 0 .. EventTTL]
    /\ stopping \subseteq Frail
    /\ faults \in 0 .. MaxFaults

Init ==
    /\ row = [e \in Events |-> "absent"]
    /\ claim = [e \in Events |-> None]
    /\ delivered = {}
    /\ step = [r \in Replicas |-> "idle"]
    /\ batch = [r \in Replicas |-> {}]
    /\ current = [r \in Replicas |-> None]
    /\ first = [r \in Replicas |-> FALSE]
    /\ timer = [r \in Replicas |-> 0]
    /\ stopping = {}
    /\ faults = 0

Fault == faults < MaxFaults /\ faults' = faults + 1

\* A call fails by a fault, or because the process context is cancelled.
Fails(r) ==
    \/ Fault
    \/ /\ r \in stopping
       /\ UNCHANGED faults

\* Another service commits an event with the change it announces.
Write(e) ==
    /\ row[e] = "absent"
    /\ row' = [row EXCEPT ![e] = "pending"]
    /\ UNCHANGED <<claim, delivered, loop, stopping, faults>>

-----------------------------------------------------------------------------
(* ClaimConversationCreated.                                               *)

\* Faulty: a claim that has not lapsed is no obstacle.
ClaimableAny(e) == row[e] = "pending"

\* Faulty: claims never lapse.
ClaimableFree(e) == row[e] = "pending" /\ claim[e] = None

Claimable(e) ==
    /\ row[e] = "pending"
    /\ claim[e] = None \/ claim[e].ttl = 0

\* ORDER BY created_at, id ... LIMIT.
Oldest(S, n) == {e \in S : Cardinality({d \in S : d < e}) < n}

TakeClaims(r, taken) ==
    claim' = [e \in Events |-> IF e \in taken THEN [by |-> r, ttl |-> ClaimTTL] ELSE claim[e]]

Claim(r) ==
    /\ step[r] = "idle" /\ r \notin stopping
    /\ LET claimable == {e \in Events : Claimable(e)} IN
       \E skipped \in SUBSET claimable :   \* SKIP LOCKED
          LET taken == Oldest(claimable \ skipped, BatchSize) IN
          /\ taken # {}
          /\ TakeClaims(r, taken)
          /\ IF skipped = {} THEN UNCHANGED faults ELSE Fault
          /\ batch' = [batch EXCEPT ![r] = taken]
    /\ step' = [step EXCEPT ![r] = "events"]
    /\ first' = [first EXCEPT ![r] = TRUE]
    /\ UNCHANGED <<row, delivered, current, timer, stopping>>

\* The claim is committed, but the answer is lost.
ClaimLost(r) ==
    /\ step[r] = "idle" /\ r \notin stopping
    /\ LET taken == Oldest({e \in Events : Claimable(e)}, BatchSize) IN
       taken # {} /\ TakeClaims(r, taken)
    /\ Fault
    /\ UNCHANGED <<row, delivered, loop, stopping>>

-----------------------------------------------------------------------------
(* The loop over the batch (RETURNING leaves its order open).              *)

Take(r) ==
    /\ step[r] = "events"
    /\ \/ /\ batch[r] = {}
          /\ step' = [step EXCEPT ![r] = "idle"]
          /\ first' = [first EXCEPT ![r] = FALSE]
          /\ UNCHANGED <<batch, current, timer>>
       \/ \E e \in batch[r] :
             /\ batch' = [batch EXCEPT ![r] = @ \ {e}]
             /\ current' = [current EXCEPT ![r] = e]
             /\ \/ /\ r \in stopping
                   /\ step' = [step EXCEPT ![r] = "release"]
                   /\ UNCHANGED timer
                \/ /\ r \notin stopping
                   /\ step' = [step EXCEPT ![r] = "notify"]
                   /\ timer' = [timer EXCEPT ![r] = EventTTL]
             /\ UNCHANGED first
    /\ UNCHANGED <<table, delivered, stopping, faults>>

\* Faulty: an event whose notification fails is marked all the same.
NotifyForgetful(r) ==
    /\ step[r] = "notify"
    /\ delivered' = delivered \cup {current[r]} \/ UNCHANGED delivered
    /\ step' = [step EXCEPT ![r] = "mark"]
    /\ UNCHANGED <<table, batch, current, first, timer, stopping, faults>>

\* NotifyConversationCreated or NotifyGroupProjection.
Notify(r) ==
    /\ step[r] = "notify"
    /\ \/ /\ delivered' = delivered \cup {current[r]}
          /\ step' = [step EXCEPT ![r] = "mark"]
          /\ UNCHANGED <<timer, faults>>
       \/ /\ Fails(r)
          /\ step' = [step EXCEPT ![r] = "release"]
          /\ timer' = [timer EXCEPT ![r] = 0]
          /\ UNCHANGED delivered
    /\ UNCHANGED <<table, batch, current, first, stopping>>

Done(r) ==
    /\ current' = [current EXCEPT ![r] = None]
    /\ first' = [first EXCEPT ![r] = FALSE]
    /\ timer' = [timer EXCEPT ![r] = 0]

\* WHERE id AND claim_token AND processed_at IS NULL.
Owns(r, e) == row[e] = "pending" /\ claim[e] # None /\ claim[e].by = r

MarkProcessed(r, e) ==
    \/ /\ Owns(r, e)
       /\ row' = [row EXCEPT ![e] = "processed"]
       /\ claim' = [claim EXCEPT ![e] = None]
    \/ /\ ~Owns(r, e)
       /\ UNCHANGED table

Mark(r) ==
    /\ step[r] = "mark"
    /\ \/ /\ MarkProcessed(r, current[r])
          /\ step' = [step EXCEPT ![r] = "events"]
          /\ Done(r)
          /\ UNCHANGED faults
       \/ /\ Fails(r)   \* before or after it took effect
          /\ MarkProcessed(r, current[r]) \/ UNCHANGED table
          /\ step' = [step EXCEPT ![r] = "release"]
          /\ timer' = [timer EXCEPT ![r] = 0]
          /\ UNCHANGED <<current, first>>
    /\ UNCHANGED <<delivered, batch, stopping>>

\* releaseConversationEvent; a replica that stops returns after it.
Release(r) ==
    /\ step[r] = "release"
    /\ \/ /\ Owns(r, current[r])
          /\ claim' = [claim EXCEPT ![current[r]] = None]
          /\ UNCHANGED faults
       \/ /\ ~Owns(r, current[r])
          /\ UNCHANGED <<claim, faults>>
       \/ /\ Fault
          /\ UNCHANGED claim
    /\ Done(r)
    /\ IF r \in stopping
         THEN /\ step' = [step EXCEPT ![r] = "idle"]
              /\ batch' = [batch EXCEPT ![r] = {}]
         ELSE /\ step' = [step EXCEPT ![r] = "events"]
              /\ UNCHANGED batch
    /\ UNCHANGED <<row, delivered, stopping>>

-----------------------------------------------------------------------------
(* Processes and time.                                                     *)

\* The process gets its signal.
Stop(r) ==
    /\ r \in Frail \ stopping
    /\ step[r] \notin {"exited", "dead"}
    /\ Fault
    /\ stopping' = stopping \cup {r}
    /\ UNCHANGED <<table, delivered, loop>>

Exit(r) ==
    /\ step[r] = "idle" /\ r \in stopping
    /\ step' = [step EXCEPT ![r] = "exited"]
    /\ UNCHANGED <<table, delivered, batch, current, first, timer, stopping, faults>>

Die(r) ==
    /\ r \in Frail
    /\ step[r] \notin {"exited", "dead"}
    /\ Fault
    /\ step' = [step EXCEPT ![r] = "dead"]
    /\ batch' = [batch EXCEPT ![r] = {}]
    /\ Done(r)
    /\ UNCHANGED <<table, delivered, stopping>>

Restart(r) ==
    /\ step[r] \in {"exited", "dead"}
    /\ step' = [step EXCEPT ![r] = "idle"]
    /\ stopping' = stopping \ {r}
    /\ UNCHANGED <<table, delivered, batch, current, first, timer, faults>>

\* Faulty: a lapsed claim goes on lapsing.
LapseOn(c) == IF c = None THEN c ELSE [c EXCEPT !.ttl = @ - 1]

Lapse(c) == IF c = None \/ c.ttl = 0 THEN c ELSE [c EXCEPT !.ttl = @ - 1]

\* The event context ends its calls in time.
Tick ==
    /\ \A r \in Replicas : step[r] \in {"notify", "mark"} => timer[r] > 0
    /\ Prompt => \A r \in Replicas : step[r] \notin {"events", "release"}
    /\ claim' = [e \in Events |-> Lapse(claim[e])]
    /\ timer' = [r \in Replicas |-> IF timer[r] = 0 THEN 0 ELSE timer[r] - 1]
    /\ UNCHANGED <<row, delivered, step, batch, current, first, stopping, faults>>

-----------------------------------------------------------------------------
Work(r) == Claim(r) \/ Take(r) \/ Notify(r) \/ Mark(r) \/ Release(r) \/ Exit(r)

Trouble(r) == ClaimLost(r) \/ Stop(r) \/ Die(r) \/ Restart(r)

Next ==
    \/ \E e \in Events : Write(e)
    \/ \E r \in Replicas : Work(r) \/ Trouble(r)
    \/ Tick

\* A running replica's loop goes on (its ticker fires every 500 ms), and so does time.
Fairness == WF_vars(Tick) /\ \A r \in Replicas : WF_vars(Work(r))

SafetySpec == Init /\ [][Next]_vars

Spec == SafetySpec /\ Fairness

-----------------------------------------------------------------------------
(* Properties.                                                             *)

\* Only committed events are worked on, and what is being marked, or is processed, was
\* delivered: the inductive invariant under NotifiedBeforeProcessed.
IInv ==
    /\ row \in [Events -> {"absent", "pending", "processed"}]
    /\ step \in [Replicas -> Positions]
    /\ batch \in [Replicas -> SUBSET Events]
    /\ current \in [Replicas -> Events \cup {None}]
    /\ \A r \in Replicas : \A e \in batch[r] : row[e] # "absent"
    /\ \A r \in Replicas : step[r] \in {"notify", "mark", "release"} =>
          current[r] \in Events /\ row[current[r]] # "absent"
    /\ \A r \in Replicas : step[r] = "mark" => current[r] \in delivered
    /\ \A e \in Events : row[e] = "processed" => e \in delivered

Queue == INSTANCE AtLeastOnce WITH
    written <- {e \in Events : row[e] # "absent"},
    acknowledged <- {e \in Events : row[e] = "processed"}

\* No event is marked processed of which the hub was not notified, whoever holds the
\* claim when the mark arrives and whichever call failed before.
NotifiedBeforeProcessed == Queue!SafetySpec

\* The consumers implement an at-least-once queue: while one replica goes on, every
\* committed event is notified and marked, across lapsed, lost and abandoned claims.
ImplementsQueue == Queue!Spec

\* The first event of a batch is still its replica's when it is marked: the time for
\* one event is shorter than the claim (main_test.go:124).  It is what keeps two slow
\* replicas from taking an event from each other for ever.
HeadClaimHolds ==
    \A r \in Replicas :
        step[r] \in {"notify", "mark"} /\ first[r] /\ row[current[r]] # "processed" =>
            Owns(r, current[r])

\* Where a replica is with the first event of a batch, and how much of the claim is left
\* to it: the inductive invariant under HeadClaimHolds.
HeadIsHeld ==
    \A r \in Replicas : first[r] =>
        /\ step[r] = "events" =>
              \A e \in batch[r] : Owns(r, e) /\ claim[e].ttl = ClaimTTL
        /\ step[r] \in {"notify", "mark"} =>
              /\ Owns(r, current[r])
              /\ claim[current[r]].ttl + EventTTL >= ClaimTTL + timer[r]

\* A replica that has shut down cleanly leaves no claim behind: "so the durable claim
\* is promptly reusable" (main.go:219).
ShutdownReleasesClaims ==
    \A r \in Replicas : step[r] = "exited" => \A e \in Events : ~Owns(r, e)
=============================================================================
