------------------------------ MODULE MCOutbox ------------------------------
(***************************************************************************)
(* The two queues of the realtime service, of events and of messages.      *)
(* They share no state, so a behaviour is of one of them and the other     *)
(* rests in its initial state.                                             *)
(***************************************************************************)
EXTENDS Outbox

CONSTANTS r1, r2

VARIABLES
    scene,
    message, membership, hidden, sending, fan, marking, queued,
    at, frames, closing, unsent, unmarked, more, missed, failures, others

MCReplicas == {r1, r2}
MCEvents == 1 .. 3

messageVars == <<message, membership, hidden, sending, fan, marking, queued,
                 at, frames, closing, unsent, unmarked, more, missed, failures, others>>

\* More messages are pending than the queue of a socket takes.
Overflowing == INSTANCE Delivery WITH
    row <- message, batch <- unsent, sent <- unmarked, faults <- failures, events <- others,
    Sockets <- {r1}, Messages <- 1 .. 3, QueueSize <- 2, BatchSize <- 2,
    MaxFaults <- 1, MaxEvents <- 0, Leaves <- FALSE

\* The user leaves and returns, and other events fill the queue.
Leaving == INSTANCE Delivery WITH
    row <- message, batch <- unsent, sent <- unmarked, faults <- failures, events <- others,
    Sockets <- {r1}, Messages <- 1 .. 2, QueueSize <- 2, BatchSize <- 1,
    MaxFaults <- 1, MaxEvents <- 1, Leaves <- TRUE

\* The device has two sockets, on two replicas.
Racing == INSTANCE Delivery WITH
    row <- message, batch <- unsent, sent <- unmarked, faults <- failures, events <- others,
    Sockets <- {r1, r2}, Messages <- 1 .. 2, QueueSize <- 2, BatchSize <- 1,
    MaxFaults <- 0, MaxEvents <- 0, Leaves <- FALSE

ASSUME
    /\ Overflowing!DeliveryAssumption
    /\ Leaving!DeliveryAssumption
    /\ Racing!DeliveryAssumption

MCInit ==
    /\ Init
    /\ \/ scene \in {"events", "racing"} /\ Racing!Init
       \/ scene = "overflowing" /\ Overflowing!Init
       \/ scene = "leaving" /\ Leaving!Init

MCNext ==
    \/ scene = "events" /\ Next /\ UNCHANGED <<scene, messageVars>>
    \/ scene = "overflowing" /\ Overflowing!Next /\ UNCHANGED <<scene, vars>>
    \/ scene = "leaving" /\ Leaving!Next /\ UNCHANGED <<scene, vars>>
    \/ scene = "racing" /\ Racing!Next /\ UNCHANGED <<scene, vars>>

\* What Delivery assumes to go on, where it runs.
DeliveryFairness ==
    /\ WF_messageVars(\/ scene = "overflowing" /\ Overflowing!Relays
                      \/ scene = "leaving" /\ Leaving!Relays
                      \/ scene = "racing" /\ Racing!Relays)
    /\ \A s \in MCReplicas :
          /\ WF_messageVars(\/ scene = "overflowing" /\ s = r1 /\ Overflowing!Hears(s)
                            \/ scene = "leaving" /\ s = r1 /\ Leaving!Hears(s)
                            \/ scene = "racing" /\ Racing!Hears(s))
          /\ WF_messageVars(\/ scene = "overflowing" /\ s = r1 /\ Overflowing!Adds(s)
                            \/ scene = "leaving" /\ s = r1 /\ Leaving!Adds(s)
                            \/ scene = "racing" /\ Racing!Adds(s))
          /\ WF_messageVars(scene # "events" /\ s \in DOMAIN at /\ Racing!GivesUp(s))

MCSpec ==
    MCInit /\ [][MCNext]_<<scene, vars, messageVars>> /\ Fairness /\ DeliveryFairness

-----------------------------------------------------------------------------
\* See Delivery: between the live fan-out and the replay no message falls through
\* (hub.go:221).
NothingIsMissed ==
    /\ scene = "overflowing" => Overflowing!IInv /\ Overflowing!NothingIsMissed
    /\ scene = "leaving" => Leaving!IInv /\ Leaving!NothingIsMissed
    /\ scene = "racing" => Racing!IInv /\ Racing!NothingIsMissed

Reconnects ==
    \/ scene = "overflowing" /\ Overflowing!Reconnects
    \/ scene = "leaving" /\ Leaving!Reconnects
    \/ scene = "racing" /\ Racing!Reconnects

MessagesPend ==
    \/ scene = "overflowing" /\ Overflowing!Pending # {}
    \/ scene = "leaving" /\ Leaving!Pending # {}
    \/ scene = "racing" /\ Racing!Pending # {}

\* Both are at-least-once queues. While one replica goes on, every committed event is
\* notified and marked, across lapsed, lost and abandoned claims (main.go:174). While a
\* device goes on reconnecting, all messages are queued for it and marked in the end, and
\* marked only if queued, across overflowing, failing and cut replays (hub.go:1854).
QueuesServe ==
    /\ ImplementsQueue
    /\ [][/\ scene = "overflowing" => Overflowing!QueueStep
          /\ scene = "leaving" => Leaving!QueueStep
          /\ scene = "racing" => Racing!QueueStep]_messageVars
    /\ []<>Reconnects => (MessagesPend ~> ~MessagesPend)
=============================================================================
