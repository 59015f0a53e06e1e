---------------------------- MODULE AtLeastOnce ----------------------------
\* What is promised to those who write into a queue: every event is delivered at least
\* once, then acknowledged for good.  The outbox promises it to the services that write
\* events, the hub to the senders of messages.
CONSTANT Events

VARIABLES written, delivered, acknowledged

vars == <<written, delivered, acknowledged>>

Init == written = {} /\ delivered = {} /\ acknowledged = {}

Write(e) ==
    /\ e \notin written
    /\ written' = written \cup {e}
    /\ UNCHANGED <<delivered, acknowledged>>

\* Also again, before or after the acknowledgement: a step that changes nothing here.
Deliver(e) ==
    /\ e \in written
    /\ delivered' = delivered \cup {e}
    /\ UNCHANGED <<written, acknowledged>>

\* One, or a batch at once.
Acknowledge(S) ==
    /\ S \subseteq delivered
    /\ acknowledged' = acknowledged \cup S
    /\ UNCHANGED <<written, delivered>>

Next ==
    \/ \E e \in Events : Write(e) \/ Deliver(e)
    \/ \E S \in SUBSET Events : Acknowledge(S)

SafetySpec == Init /\ [][Next]_vars

Fairness == \A e \in Events : WF_vars(Deliver(e)) /\ WF_vars(Acknowledge({e}))

Spec == SafetySpec /\ Fairness
=============================================================================
