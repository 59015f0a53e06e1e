------------------------------ MODULE Delivery ------------------------------
(***************************************************************************)
(* How stored messages reach the sockets of one device: the live fan-out   *)
(* through Redis, the replay when a socket is added to the hub, the queue  *)
(* of each socket, and the delivery rows both of them mark.                *)
(*                                                                         *)
(* A socket belongs to a replica of its own, so the replica's hub and its  *)
(* subscription go by the socket's name; a name is used again when its     *)
(* socket is closed.  Messages are numbered by created_at, in which they   *)
(* need not commit.  Of a queue only its length is kept.                   *)
(***************************************************************************)
EXTENDS Naturals, FiniteSets

CONSTANTS
    Sockets,
    Messages,
    QueueSize,   \* frames of a send queue
    BatchSize,   \* LIMIT of a replay
    MaxFaults,   \* bound: publications, statements and replicas that fail
    MaxEvents,   \* bound: frames of other events
    Leaves       \* bound: whether the user may leave

DeliveryAssumption ==
    /\ Messages \subseteq Nat
    /\ QueueSize \in Nat \ {0, 1}   \* the snapshot of presence comes before the replay
    /\ BatchSize \in Nat \ {0}
    /\ MaxFaults \in Nat /\ MaxEvents \in Nat /\ Leaves \in BOOLEAN

VARIABLES
    row,         \* a message and its delivery row for the device
    membership,  \* of the device's user: "first", "gone" or "again"
    hidden,      \* messages of before the second membership
    sending,     \* committed messages whose sender has not published them
    fan,         \* published messages that a replica's subscription has not handled
    marking,     \* messages the fan-out queued and has not marked
    queued,      \* messages that a queue has admitted so far
    at,          \* where a socket is in ServeHTTP, "free" without one
    frames,      \* the length of its queue
    closing,     \* closeRequest
    batch,       \* what its replay has read and not sent
    sent,        \* what its replay has sent and not marked
    more,        \* whether its replay reads again
    missed,      \* whether something failed since the socket was added
    faults,
    events

table == <<row, membership, hidden>>
live == <<sending, fan, marking>>
queue == <<frames, closing>>
replay == <<batch, sent, more>>
bounds == <<missed, faults, events>>
vars == <<table, live, queued, at, queue, replay, bounds>>

-----------------------------------------------------------------------------
TypeOK ==
    /\ row \in [Messages -> {"absent", "pending", "delivered"}]
    /\ membership \in {"first", "gone", "again"}
    /\ hidden \in SUBSET Messages
    /\ sending \in SUBSET Messages
    /\ fan \in [Sockets -> SUBSET Messages]
    /\ marking \in SUBSET Messages
    /\ queued \in SUBSET Messages
    /\ at \in [Sockets -> {"free", "snapshot", "read", "send", "mark", "open"}]
    /\ frames \in [Sockets -> 0 .. QueueSize]
    /\ closing \in [Sockets -> BOOLEAN]
    /\ batch \in [Sockets -> SUBSET Messages]
    /\ sent \in [Sockets -> SUBSET Messages]
    /\ more \in [Sockets -> BOOLEAN]
    /\ missed \in [Sockets -> BOOLEAN]
    /\ faults \in 0 .. MaxFaults
    /\ events \in 0 .. MaxEvents

Init ==
    /\ row = [m \in Messages |-> "absent"]
    /\ membership = "first" /\ hidden = {}
    /\ sending = {} /\ fan = [s \in Sockets |-> {}] /\ marking = {} /\ queued = {}
    /\ at = [s \in Sockets |-> "free"]
    /\ frames = [s \in Sockets |-> 0] /\ closing = [s \in Sockets |-> FALSE]
    /\ batch = [s \in Sockets |-> {}] /\ sent = [s \in Sockets |-> {}]
    /\ more = [s \in Sockets |-> FALSE]
    /\ missed = [s \in Sockets |-> FALSE] /\ faults = 0 /\ events = 0

NoFault == UNCHANGED <<missed, faults>>

Fault ==
    /\ faults < MaxFaults
    /\ faults' = faults + 1
    /\ missed' = [s \in Sockets |-> TRUE]

-----------------------------------------------------------------------------
(* SendJSON.                                                               *)

HasRoom(s) == frames[s] < QueueSize

Admit(s) == frames' = [frames EXCEPT ![s] = @ + 1] /\ UNCHANGED closing

Refuse(s) == closing' = [closing EXCEPT ![s] = TRUE] /\ UNCHANGED frames

SendJSON(s) == IF HasRoom(s) THEN Admit(s) ELSE Refuse(s)

-----------------------------------------------------------------------------
(* The sender, the membership and the live fan-out.                        *)

\* Sender.Send commits the message and its delivery rows.
Commit(m) ==
    /\ row[m] = "absent" /\ membership # "gone"
    /\ row' = [row EXCEPT ![m] = "pending"]
    /\ sending' = sending \cup {m}
    /\ UNCHANGED <<membership, hidden, fan, marking, queued, at, queue, replay, bounds>>

\* The publication reaches every replica; or some, as their subscriptions are down; or,
\* as it failed, the sender's replica alone; or none, as that has died.
Publish(m) ==
    /\ m \in sending
    /\ sending' = sending \ {m}
    /\ \E reached \in SUBSET Sockets :
          /\ fan' = [s \in Sockets |-> IF s \in reached THEN fan[s] \cup {m} ELSE fan[s]]
          /\ IF reached = Sockets THEN NoFault ELSE Fault
    /\ UNCHANGED <<table, marking, queued, at, queue, replay, events>>

\* Faulty: a socket is heard of once its replay is over.
HeardOpen(s) == at[s] = "open"

\* The clients of the hub.
Heard(s) == at[s] # "free"

\* DeliverMessageCreated, to its mark.
FanOut(s, m) ==
    /\ m \in fan[s]
    /\ fan' = [fan EXCEPT ![s] = @ \ {m}]
    /\ \/ /\ ~Heard(s)
          /\ UNCHANGED <<queue, queued, marking>>
       \/ /\ Heard(s) /\ HasRoom(s)
          /\ Admit(s)
          /\ queued' = queued \cup {m}
          /\ marking' = marking \cup {m}
       \/ /\ Heard(s) /\ ~HasRoom(s)
          /\ Refuse(s)
          /\ UNCHANGED <<queued, marking>>
    /\ UNCHANGED <<table, sending, at, replay, bounds>>

\* MarkDelivered.
MarkDelivered(S) ==
    row' = [m \in Messages |-> IF m \in S /\ row[m] = "pending" THEN "delivered" ELSE row[m]]

\* The fan-out marks, or fails to, before or after it took effect.
Mark(m) ==
    /\ m \in marking
    /\ marking' = marking \ {m}
    /\ \/ MarkDelivered({m}) /\ NoFault
       \/ MarkDelivered({m}) /\ Fault
       \/ UNCHANGED row /\ Fault
    /\ UNCHANGED <<membership, hidden, sending, fan, queued, at, queue, replay, events>>

\* The user leaves the conversation, and comes back to what is written then.
Leave ==
    /\ Leaves /\ membership = "first"
    /\ membership' = "gone"
    /\ UNCHANGED <<row, hidden, live, queued, at, queue, replay, bounds>>

Return ==
    /\ membership = "gone"
    /\ membership' = "again"
    /\ hidden' = {m \in Messages : row[m] # "absent"}
    /\ UNCHANGED <<row, live, queued, at, queue, replay, bounds>>

-----------------------------------------------------------------------------
(* A socket: Hub.Add with its replay, then the pumps.                      *)

Connect(s) ==
    /\ at[s] = "free"
    /\ at' = [at EXCEPT ![s] = "snapshot"]
    /\ missed' = [missed EXCEPT ![s] = FALSE]
    /\ UNCHANGED <<table, live, queued, queue, replay, faults, events>>

\* sendPresenceSnapshot.
Snapshot(s) ==
    /\ at[s] = "snapshot"
    /\ SendJSON(s)
    /\ at' = [at EXCEPT ![s] = "read"]
    /\ UNCHANGED <<table, live, queued, replay, bounds>>

\* What the query of Pending selects.
Pending ==
    {m \in Messages : row[m] = "pending" /\ membership # "gone" /\ m \notin hidden}

\* ORDER BY created_at ... LIMIT.
IsBatch(b) ==
    /\ b \subseteq Pending
    /\ Cardinality(b) <= BatchSize
    /\ b # Pending => Cardinality(b) = BatchSize
    /\ \A m \in b, n \in Pending \ b : m < n

\* The query fails, finds nothing, or has a batch.
Read(s) ==
    /\ at[s] = "read"
    /\ \/ /\ Fault
          /\ at' = [at EXCEPT ![s] = "open"]
          /\ UNCHANGED replay
       \/ /\ Pending = {}
          /\ at' = [at EXCEPT ![s] = "open"]
          /\ NoFault /\ UNCHANGED replay
       \/ /\ Pending # {}
          /\ at' = [at EXCEPT ![s] = "send"]
          /\ \E b \in SUBSET Messages :
                /\ IsBatch(b)
                /\ batch' = [batch EXCEPT ![s] = b]
                /\ more' = [more EXCEPT ![s] = Cardinality(b) = BatchSize]
          /\ NoFault /\ UNCHANGED sent
    /\ UNCHANGED <<table, live, queued, queue, events>>

\* Faulty: a replay that is refused a frame marks nothing.
NowhereAfterRefusal(s) == "open"

AfterRefusal(s) == IF sent[s] = {} THEN "open" ELSE "mark"

\* One message of the batch, its oldest; a refusal ends the replay.
ReplayOne(s) ==
    /\ at[s] = "send"
    /\ \E m \in batch[s] :
          /\ \A n \in batch[s] : m <= n
          /\ \/ /\ HasRoom(s)
                /\ Admit(s)
                /\ queued' = queued \cup {m}
                /\ batch' = [batch EXCEPT ![s] = @ \ {m}]
                /\ sent' = [sent EXCEPT ![s] = @ \cup {m}]
                /\ at' = [at EXCEPT ![s] = IF batch[s] = {m} THEN "mark" ELSE "send"]
                /\ UNCHANGED more
             \/ /\ ~HasRoom(s)
                /\ Refuse(s)
                /\ batch' = [batch EXCEPT ![s] = {}]
                /\ sent' = [sent EXCEPT ![s] = IF AfterRefusal(s) = "mark" THEN @ ELSE {}]
                /\ more' = [more EXCEPT ![s] = FALSE]
                /\ at' = [at EXCEPT ![s] = AfterRefusal(s)]
                /\ UNCHANGED queued
    /\ UNCHANGED <<table, live, bounds>>

\* markDelivered of the replay: the next batch, or the pumps, or its failure.
ReplayMarks(s) ==
    /\ at[s] = "mark"
    /\ \/ /\ MarkDelivered(sent[s])
          /\ at' = [at EXCEPT ![s] = IF more[s] THEN "read" ELSE "open"]
          /\ NoFault
       \/ /\ MarkDelivered(sent[s]) \/ UNCHANGED row
          /\ at' = [at EXCEPT ![s] = "open"]
          /\ Fault
    /\ sent' = [sent EXCEPT ![s] = {}]
    /\ more' = [more EXCEPT ![s] = FALSE]
    /\ UNCHANGED <<membership, hidden, live, queued, queue, batch, events>>

\* The write pump.
Write(s) ==
    /\ at[s] = "open" /\ frames[s] > 0
    /\ frames' = [frames EXCEPT ![s] = @ - 1]
    /\ UNCHANGED <<table, live, queued, at, closing, replay, bounds>>

\* Close: asked for by a refused frame, or as the connection or the session is over.
\* What is in the queue goes with it.
Close(s) ==
    /\ at[s] = "open"
    /\ at' = [at EXCEPT ![s] = "free"]
    /\ frames' = [frames EXCEPT ![s] = 0]
    /\ closing' = [closing EXCEPT ![s] = FALSE]
    /\ UNCHANGED <<table, live, queued, replay, bounds>>

\* The replica dies. Marks it had to make are lost as marks that fail.
Crash(s) ==
    /\ at[s] # "free"
    /\ at' = [at EXCEPT ![s] = "free"]
    /\ frames' = [frames EXCEPT ![s] = 0]
    /\ closing' = [closing EXCEPT ![s] = FALSE]
    /\ batch' = [batch EXCEPT ![s] = {}]
    /\ sent' = [sent EXCEPT ![s] = {}]
    /\ more' = [more EXCEPT ![s] = FALSE]
    /\ fan' = [fan EXCEPT ![s] = {}]
    /\ Fault
    /\ UNCHANGED <<table, sending, marking, queued, events>>

\* Another event for the device: presence, typing, cursors, calls.
Event(s) ==
    /\ Heard(s) /\ events < MaxEvents
    /\ events' = events + 1
    /\ SendJSON(s)
    /\ UNCHANGED <<table, live, queued, at, replay, missed, faults>>

-----------------------------------------------------------------------------
Adds(s) == Snapshot(s) \/ Read(s) \/ ReplayOne(s) \/ ReplayMarks(s)

Next ==
    \/ \E m \in Messages : Commit(m) \/ Publish(m) \/ Mark(m)
    \/ \E s \in Sockets, m \in Messages : FanOut(s, m)
    \/ \E s \in Sockets : Connect(s) \/ Adds(s) \/ Write(s) \/ Close(s) \/ Crash(s) \/ Event(s)
    \/ Leave
    \/ Return

SafetySpec == Init /\ [][Next]_vars

\* What goes on by itself: handlers and subscriptions, the adding of a socket, and a
\* write pump that is asked to close. Nobody has to send, to connect or to leave.
Relays == \E m \in Messages : Publish(m) \/ Mark(m)

Hears(s) == \E m \in Messages : FanOut(s, m)

GivesUp(s) == closing[s] /\ Close(s)

Fairness ==
    /\ WF_vars(Relays)
    /\ \A s \in Sockets : WF_vars(Hears(s)) /\ WF_vars(Adds(s)) /\ WF_vars(GivesUp(s))

-----------------------------------------------------------------------------
(* Properties.                                                             *)

Queue == INSTANCE AtLeastOnce WITH
    Events <- Messages,
    written <- {m \in Messages : row[m] # "absent"},
    delivered <- queued,
    acknowledged <- {m \in Messages : row[m] = "delivered"}

QueueStep == [Queue!Next]_(Queue!vars)

\* delivered_at means that a socket of the device has admitted the message to its queue:
\* a refused frame, a failed call or a dead replica marks nothing (hub.go:862, :1871).
DeliveredWasQueued == Queue!SafetySpec

\* Between the live fan-out and the replay no message falls through: once nothing is
\* under way, an open socket that has refused no frame, and since whose adding nothing
\* failed, leaves no message of its user pending (hub.go:221).
NothingIsMissed ==
    \A s \in Sockets :
        /\ at[s] = "open" /\ ~closing[s] /\ ~missed[s]
        /\ sending = {} /\ fan[s] = {} /\ marking = {}
        => Pending = {}

Reconnects == \E s \in Sockets : at[s] = "read"

-----------------------------------------------------------------------------
(* The inductive invariant under the first two.                            *)

Written == {m \in Messages : row[m] # "absent"}

\* What is marked was queued, and what is queued or about to be was committed.
MarksFollowQueues ==
    /\ sending \cup marking \cup queued \subseteq Written
    /\ \A s \in Sockets : fan[s] \cup batch[s] \subseteq Written /\ sent[s] \subseteq queued
    /\ marking \subseteq queued
    /\ \A m \in Messages : row[m] = "delivered" => m \in queued

\* A replay that has not begun or is over holds nothing.
ReplaysEnd ==
    \A s \in Sockets :
        /\ at[s] \in {"free", "snapshot", "read", "open"} =>
              batch[s] = {} /\ sent[s] = {} /\ ~more[s]
        /\ at[s] = "mark" => batch[s] = {}

\* A pending message is on its way to every socket that can still trust its hub.
Accounted ==
    \A s \in Sockets :
        at[s] \notin {"free", "snapshot", "read"} /\ ~closing[s] /\ ~missed[s] /\ ~more[s] =>
            Pending \subseteq sending \cup fan[s] \cup marking \cup batch[s] \cup sent[s]

IInv == TypeOK /\ MarksFollowQueues /\ ReplaysEnd /\ Accounted
=============================================================================
