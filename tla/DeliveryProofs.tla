--------------------------- MODULE DeliveryProofs ---------------------------
(***************************************************************************)
(* Proofs about the delivery of messages to one device, for any sockets,   *)
(* messages, queue and batch sizes and bounds that DeliveryAssumption      *)
(* allows.                                                                 *)
(***************************************************************************)
EXTENDS Delivery, FiniteSetTheorems, TLAPS

LEMMA InitInv == DeliveryAssumption /\ Init => IInv
  BY DEF DeliveryAssumption, Init, IInv, TypeOK, MarksFollowQueues, ReplaysEnd, Accounted, Written, Pending

-----------------------------------------------------------------------------
(* Types.                                                                  *)

LEMMA FaultType ==
    ASSUME DeliveryAssumption, TypeOK, Fault
    PROVE  missed' \in [Sockets -> BOOLEAN] /\ faults' \in 0 .. MaxFaults
  BY DEF DeliveryAssumption, TypeOK, Fault

LEMMA AdmitType ==
    ASSUME DeliveryAssumption, TypeOK, NEW s \in Sockets, SendJSON(s)
    PROVE  frames' \in [Sockets -> 0 .. QueueSize] /\ closing' \in [Sockets -> BOOLEAN]
<1>1. CASE HasRoom(s)
  <2>1. Admit(s)
    BY <1>1 DEF SendJSON
  <2>. QED  BY <1>1, <2>1 DEF DeliveryAssumption, TypeOK, HasRoom, Admit
<1>2. CASE ~HasRoom(s)
  <2>1. Refuse(s)
    BY <1>2 DEF SendJSON
  <2>. QED  BY <2>1 DEF TypeOK, Refuse
<1>. QED  BY <1>1, <1>2

LEMMA MarkType ==
    ASSUME TypeOK, NEW S, MarkDelivered(S)
    PROVE  row' \in [Messages -> {"absent", "pending", "delivered"}]
  BY DEF TypeOK, MarkDelivered

LEMMA MessageStepType ==
    ASSUME DeliveryAssumption, TypeOK, NEW m \in Messages, Commit(m) \/ Publish(m) \/ Mark(m)
    PROVE  TypeOK'
<1>1. CASE Commit(m)
  BY <1>1 DEF Commit, TypeOK, queue, replay, bounds
<1>2. CASE Publish(m)
  <2>1. missed' \in [Sockets -> BOOLEAN] /\ faults' \in 0 .. MaxFaults
    BY <1>2, FaultType DEF Publish, NoFault, TypeOK
  <2>. QED  BY <1>2, <2>1 DEF Publish, TypeOK, table, queue, replay
<1>3. CASE Mark(m)
  <2>1. missed' \in [Sockets -> BOOLEAN] /\ faults' \in 0 .. MaxFaults
    BY <1>3, FaultType DEF Mark, NoFault, TypeOK
  <2>2. row' \in [Messages -> {"absent", "pending", "delivered"}]
    BY <1>3, MarkType DEF Mark, TypeOK
  <2>. QED  BY <1>3, <2>1, <2>2 DEF Mark, TypeOK, queue, replay
<1>. QED  BY <1>1, <1>2, <1>3

LEMMA HubStepType ==
    ASSUME DeliveryAssumption, TypeOK, NEW s \in Sockets,
           (\E m \in Messages : FanOut(s, m)) \/ Snapshot(s) \/ Event(s) \/ ReplayOne(s)
    PROVE  TypeOK'
<1>1. ASSUME NEW m \in Messages, FanOut(s, m)  PROVE TypeOK'
  <2>1. frames' \in [Sockets -> 0 .. QueueSize] /\ closing' \in [Sockets -> BOOLEAN]
    <3>1. CASE UNCHANGED queue
      BY <3>1 DEF TypeOK, queue
    <3>2. CASE SendJSON(s)
      BY <3>2, AdmitType
    <3>. QED  BY <1>1, <3>1, <3>2 DEF FanOut, SendJSON
  <2>. QED  BY <1>1, <2>1 DEF FanOut, TypeOK, table, replay, bounds
<1>2. CASE Snapshot(s)
  <2>1. frames' \in [Sockets -> 0 .. QueueSize] /\ closing' \in [Sockets -> BOOLEAN]
    BY <1>2, AdmitType DEF Snapshot
  <2>. QED  BY <1>2, <2>1 DEF Snapshot, TypeOK, table, live, replay, bounds
<1>3. CASE Event(s)
  <2>1. frames' \in [Sockets -> 0 .. QueueSize] /\ closing' \in [Sockets -> BOOLEAN]
    BY <1>3, AdmitType DEF Event
  <2>2. events' \in 0 .. MaxEvents
    BY <1>3 DEF DeliveryAssumption, Event, TypeOK
  <2>. QED  BY <1>3, <2>1, <2>2 DEF Event, TypeOK, table, live, replay
<1>4. CASE ReplayOne(s)
  <2>1. frames' \in [Sockets -> 0 .. QueueSize] /\ closing' \in [Sockets -> BOOLEAN]
    <3>1. SendJSON(s)
      BY <1>4 DEF ReplayOne, SendJSON
    <3>. QED  BY <3>1, AdmitType
  <2>2. at' \in [Sockets -> {"free", "snapshot", "read", "send", "mark", "open"}]
    BY <1>4 DEF ReplayOne, AfterRefusal, TypeOK
  <2>3. PICK m \in batch[s] :
           \/ /\ queued' = queued \cup {m}
              /\ batch' = [batch EXCEPT ![s] = @ \ {m}]
              /\ sent' = [sent EXCEPT ![s] = @ \cup {m}]
              /\ UNCHANGED more
           \/ /\ batch' = [batch EXCEPT ![s] = {}]
              /\ sent' \in {sent, [sent EXCEPT ![s] = {}]}
              /\ more' = [more EXCEPT ![s] = FALSE]
              /\ UNCHANGED queued
    BY <1>4 DEF ReplayOne, TypeOK
  <2>4. /\ queued' \in SUBSET Messages
        /\ batch' \in [Sockets -> SUBSET Messages]
        /\ sent' \in [Sockets -> SUBSET Messages]
        /\ more' \in [Sockets -> BOOLEAN]
    <3>1. m \in Messages
      BY DEF TypeOK
    <3>2. queued' \in SUBSET Messages
      BY <2>3, <3>1 DEF TypeOK
    <3>3. batch' \in [Sockets -> SUBSET Messages]
      BY <2>3 DEF TypeOK
    <3>4. sent' \in [Sockets -> SUBSET Messages]
      BY <2>3, <3>1 DEF TypeOK
    <3>5. more' \in [Sockets -> BOOLEAN]
      BY <2>3 DEF TypeOK
    <3>. QED  BY <3>2, <3>3, <3>4, <3>5
  <2>. QED  BY <1>4, <2>1, <2>2, <2>4 DEF ReplayOne, TypeOK, table, live, bounds
<1>. QED  BY <1>1, <1>2, <1>3, <1>4

LEMMA SocketStepType ==
    ASSUME DeliveryAssumption, TypeOK, NEW s \in Sockets,
           Connect(s) \/ Read(s) \/ ReplayMarks(s) \/ Write(s) \/ Close(s) \/ Crash(s)
    PROVE  TypeOK'
<1>1. CASE Connect(s)
  BY <1>1 DEF Connect, TypeOK, table, live, queue, replay
<1>2. CASE Read(s)
  <2>1. missed' \in [Sockets -> BOOLEAN] /\ faults' \in 0 .. MaxFaults
    BY <1>2, FaultType DEF Read, NoFault, TypeOK
  <2>2. batch' \in [Sockets -> SUBSET Messages] /\ more' \in [Sockets -> BOOLEAN]
    <3>1. \/ UNCHANGED <<batch, more>>
          \/ \E b \in SUBSET Messages, c \in BOOLEAN :
                batch' = [batch EXCEPT ![s] = b] /\ more' = [more EXCEPT ![s] = c]
      BY <1>2 DEF Read, replay
    <3>. QED  BY <3>1 DEF TypeOK
  <2>. QED  BY <1>2, <2>1, <2>2 DEF Read, TypeOK, table, live, queue, replay
<1>3. CASE ReplayMarks(s)
  <2>1. missed' \in [Sockets -> BOOLEAN] /\ faults' \in 0 .. MaxFaults
    BY <1>3, FaultType DEF ReplayMarks, NoFault, TypeOK
  <2>2. row' \in [Messages -> {"absent", "pending", "delivered"}]
    BY <1>3, MarkType DEF ReplayMarks, TypeOK
  <2>. QED  BY <1>3, <2>1, <2>2 DEF ReplayMarks, TypeOK, live, queue
<1>4. CASE Write(s)
  BY <1>4 DEF DeliveryAssumption, Write, TypeOK, table, live, replay, bounds
<1>5. CASE Close(s)
  BY <1>5 DEF DeliveryAssumption, Close, TypeOK, table, live, replay, bounds
<1>6. CASE Crash(s)
  <2>1. missed' \in [Sockets -> BOOLEAN] /\ faults' \in 0 .. MaxFaults
    BY <1>6, FaultType DEF Crash
  <2>2. 0 \in 0 .. QueueSize
    BY DEF DeliveryAssumption
  <2>. QED  BY <1>6, <2>1, <2>2 DEF Crash, TypeOK, table
<1>. QED  BY <1>1, <1>2, <1>3, <1>4, <1>5, <1>6

LEMMA TypeStep ==
    ASSUME DeliveryAssumption, TypeOK, [Next]_vars
    PROVE  TypeOK'
<1>1. CASE Leave \/ Return
  BY <1>1 DEF Leave, Return, TypeOK, live, queue, replay, bounds
<1>2. CASE UNCHANGED vars
  BY <1>2 DEF vars, TypeOK, table, live, queue, replay, bounds
<1>. QED  BY <1>1, <1>2, MessageStepType, HubStepType, SocketStepType DEF Next, Adds

-----------------------------------------------------------------------------
(* What is marked was queued.                                              *)

\* No step takes a message back, and only committing adds one.
LEMMA WrittenStep ==
    ASSUME TypeOK, [Next]_vars
    PROVE  Written \subseteq Written'
<1>1. \A S : MarkDelivered(S) => Written \subseteq Written'
  BY DEF TypeOK, MarkDelivered, Written
<1>2. UNCHANGED row => Written \subseteq Written'
  BY DEF Written
<1>3. ASSUME NEW m \in Messages, Commit(m)  PROVE Written \subseteq Written'
  BY <1>3 DEF Commit, TypeOK, Written
<1>4. \/ \E m \in Messages : Commit(m)
      \/ \E S : MarkDelivered(S)
      \/ UNCHANGED row
  BY DEF Next, Adds, Publish, Mark, FanOut, Connect, Snapshot, Read, ReplayOne, ReplayMarks,
         Write, Close, Crash, Event, Leave, Return, vars, table
<1>. QED  BY <1>1, <1>2, <1>3, <1>4

\* A mark of queued messages keeps what is marked among them.
LEMMA DeliveredKept ==
    ASSUME TypeOK, MarksFollowQueues, NEW S, S \subseteq queued, UNCHANGED queued,
           MarkDelivered(S) \/ UNCHANGED row
    PROVE  \A m \in Messages : row'[m] = "delivered" => m \in queued'
  BY DEF TypeOK, MarksFollowQueues, MarkDelivered

LEMMA MarksStep ==
    ASSUME TypeOK, MarksFollowQueues, [Next]_vars
    PROVE  MarksFollowQueues'
<1>. Written \subseteq Written'
  BY WrittenStep
<1>1. ASSUME NEW m \in Messages, Commit(m)  PROVE MarksFollowQueues'
  <2>1. m \in Written'
    BY <1>1 DEF Commit, TypeOK, Written
  <2>. QED  BY <1>1, <2>1 DEF Commit, TypeOK, MarksFollowQueues, replay
<1>2. ASSUME NEW m \in Messages, Publish(m)  PROVE MarksFollowQueues'
  <2>1. \A s \in Sockets : fan'[s] \subseteq fan[s] \cup {m}
    BY <1>2 DEF Publish
  <2>. QED  BY <1>2, <2>1 DEF Publish, MarksFollowQueues, table, replay
<1>3. ASSUME NEW m \in Messages, Mark(m)  PROVE MarksFollowQueues'
  <2>1. {m} \subseteq queued /\ UNCHANGED queued /\ (MarkDelivered({m}) \/ UNCHANGED row)
    BY <1>3 DEF Mark, MarksFollowQueues
  <2>2. \A n \in Messages : row'[n] = "delivered" => n \in queued'
    BY <2>1, DeliveredKept
  <2>. QED  BY <1>3, <2>2 DEF Mark, MarksFollowQueues, replay
<1>4. ASSUME NEW s \in Sockets, NEW m \in Messages, FanOut(s, m)  PROVE MarksFollowQueues'
  <2>1. m \in Written
    BY <1>4 DEF FanOut, MarksFollowQueues
  <2>2. \A t \in Sockets : fan'[t] \subseteq fan[t]
    BY <1>4 DEF FanOut, TypeOK
  <2>3. \/ UNCHANGED <<queued, marking>>
        \/ queued' = queued \cup {m} /\ marking' = marking \cup {m}
    BY <1>4 DEF FanOut
  <2>4. UNCHANGED <<row, sending, batch, sent>>
    BY <1>4 DEF FanOut, table, replay
  <2>. QED  BY <2>1, <2>2, <2>3, <2>4 DEF MarksFollowQueues
<1>5. ASSUME NEW s \in Sockets, Read(s)  PROVE MarksFollowQueues'
  <2>1. Pending \subseteq Written
    BY DEF Pending, Written
  <2>2. \A t \in Sockets : batch'[t] \subseteq batch[t] \cup Pending
    BY <1>5 DEF Read, IsBatch, TypeOK, replay
  <2>. QED  BY <1>5, <2>1, <2>2 DEF Read, MarksFollowQueues, table, live, replay
<1>6. ASSUME NEW s \in Sockets, ReplayOne(s)  PROVE MarksFollowQueues'
  <2>1. PICK m \in batch[s] :
           \/ /\ queued' = queued \cup {m}
              /\ batch' = [batch EXCEPT ![s] = @ \ {m}]
              /\ sent' = [sent EXCEPT ![s] = @ \cup {m}]
           \/ /\ batch' = [batch EXCEPT ![s] = {}]
              /\ \E S \in {sent[s], {}} : sent' = [sent EXCEPT ![s] = S]
              /\ UNCHANGED queued
    BY <1>6 DEF ReplayOne
  <2>2. m \in Written
    BY DEF MarksFollowQueues
  <2>3. \A t \in Sockets : batch'[t] \subseteq batch[t]
    BY <2>1 DEF TypeOK
  <2>4. \A t \in Sockets : sent'[t] \subseteq queued'
    BY <2>1 DEF TypeOK, MarksFollowQueues
  <2>5. queued \subseteq queued' /\ queued' \subseteq queued \cup {m}
    BY <2>1
  <2>. QED  BY <1>6, <2>2, <2>3, <2>4, <2>5 DEF ReplayOne, MarksFollowQueues, table, live
<1>7. ASSUME NEW s \in Sockets, ReplayMarks(s)  PROVE MarksFollowQueues'
  <2>1. sent[s] \subseteq queued /\ UNCHANGED queued /\ (MarkDelivered(sent[s]) \/ UNCHANGED row)
    BY <1>7 DEF ReplayMarks, MarksFollowQueues
  <2>2. \A n \in Messages : row'[n] = "delivered" => n \in queued'
    BY <2>1, DeliveredKept
  <2>3. \A t \in Sockets : sent'[t] \subseteq sent[t]
    BY <1>7 DEF ReplayMarks, TypeOK
  <2>. QED  BY <1>7, <2>2, <2>3 DEF ReplayMarks, MarksFollowQueues, live
<1>8. ASSUME NEW s \in Sockets, Crash(s)  PROVE MarksFollowQueues'
  <2>1. \A t \in Sockets : fan'[t] \subseteq fan[t] /\ batch'[t] \subseteq batch[t] /\ sent'[t] \subseteq sent[t]
    BY <1>8 DEF Crash, TypeOK
  <2>. QED  BY <1>8, <2>1 DEF Crash, MarksFollowQueues, table
<1>9. CASE \/ \E s \in Sockets : Connect(s) \/ Snapshot(s) \/ Write(s) \/ Close(s) \/ Event(s)
           \/ Leave
           \/ Return
           \/ UNCHANGED vars
  <2>1. UNCHANGED <<row, live, queued, replay>>
    BY <1>9 DEF Connect, Snapshot, Write, Close, Event, Leave, Return, vars, table
  <2>. QED  BY <2>1 DEF MarksFollowQueues, Written, live, replay
<1>. QED
  BY <1>1, <1>2, <1>3, <1>4, <1>5, <1>6, <1>7, <1>8, <1>9 DEF Next, Adds

-----------------------------------------------------------------------------
(* What a replay holds, and what it leaves to the fan-out.                 *)

LEMMA ReplaysStep ==
    ASSUME TypeOK, ReplaysEnd, [Next]_vars
    PROVE  ReplaysEnd'
<1>1. ASSUME NEW s \in Sockets, Connect(s) \/ Snapshot(s)  PROVE ReplaysEnd'
  BY <1>1 DEF Connect, Snapshot, TypeOK, ReplaysEnd, replay
<1>2. ASSUME NEW s \in Sockets, Read(s)  PROVE ReplaysEnd'
  <2>1. \A t \in Sockets \ {s} :
           at'[t] = at[t] /\ batch'[t] = batch[t] /\ sent'[t] = sent[t] /\ more'[t] = more[t]
    <3>1. \/ UNCHANGED <<batch, more>>
          \/ \E b \in SUBSET Messages, c \in BOOLEAN :
                batch' = [batch EXCEPT ![s] = b] /\ more' = [more EXCEPT ![s] = c]
      BY <1>2 DEF Read, replay
    <3>2. UNCHANGED sent /\ \A t \in Sockets \ {s} : at'[t] = at[t]
      BY <1>2 DEF Read, TypeOK, replay
    <3>. QED  BY <3>1, <3>2 DEF TypeOK
  <2>2. at[s] = "read" /\ (at'[s] = "send" \/ (at'[s] = "open" /\ UNCHANGED replay))
    BY <1>2 DEF Read, TypeOK
  <2>3. \/ at'[s] = "send"
        \/ at'[s] = "open" /\ batch'[s] = {} /\ sent'[s] = {} /\ ~more'[s]
    BY <2>2 DEF ReplaysEnd, replay
  <2>. QED  BY <2>1, <2>3 DEF ReplaysEnd
<1>3. ASSUME NEW s \in Sockets, ReplayOne(s)  PROVE ReplaysEnd'
  <2>1. \A t \in Sockets \ {s} :
           at'[t] = at[t] /\ batch'[t] = batch[t] /\ sent'[t] = sent[t] /\ more'[t] = more[t]
    BY <1>3 DEF ReplayOne, TypeOK
  <2>2. \/ at'[s] = "send"
        \/ at'[s] = "mark" /\ batch'[s] = {}
        \/ at'[s] = "open" /\ batch'[s] = {} /\ sent'[s] = {} /\ ~more'[s]
    BY <1>3 DEF ReplayOne, AfterRefusal, TypeOK
  <2>. QED  BY <2>1, <2>2 DEF ReplaysEnd
<1>4. ASSUME NEW s \in Sockets, ReplayMarks(s)  PROVE ReplaysEnd'
  <2>1. \A t \in Sockets \ {s} :
           at'[t] = at[t] /\ batch'[t] = batch[t] /\ sent'[t] = sent[t] /\ more'[t] = more[t]
    BY <1>4 DEF ReplayMarks, TypeOK
  <2>2. at[s] = "mark" /\ batch'[s] = batch[s] /\ sent'[s] = {} /\ ~more'[s]
    BY <1>4 DEF ReplayMarks, TypeOK
  <2>. QED  BY <2>1, <2>2 DEF ReplaysEnd
<1>5. ASSUME NEW s \in Sockets, Close(s)  PROVE ReplaysEnd'
  BY <1>5 DEF Close, TypeOK, ReplaysEnd, replay
<1>6. ASSUME NEW s \in Sockets, Crash(s)  PROVE ReplaysEnd'
  BY <1>6 DEF Crash, TypeOK, ReplaysEnd
<1>7. CASE \/ \E m \in Messages : Commit(m) \/ Publish(m) \/ Mark(m)
           \/ \E s \in Sockets, m \in Messages : FanOut(s, m)
           \/ \E s \in Sockets : Write(s) \/ Event(s)
           \/ Leave
           \/ Return
           \/ UNCHANGED vars
  <2>1. UNCHANGED <<at, replay>>
    BY <1>7 DEF Commit, Publish, Mark, FanOut, Write, Event, Leave, Return, vars
  <2>. QED  BY <2>1 DEF ReplaysEnd, replay
<1>. QED
  BY <1>1, <1>2, <1>3, <1>4, <1>5, <1>6, <1>7 DEF Next, Adds

\* What accounts for the messages that are pending at a socket.
Account(s) == sending \cup fan[s] \cup marking \cup batch[s] \cup sent[s]

\* The sockets Accounted speaks of.
Trusts(s) ==
    at[s] \notin {"free", "snapshot", "read"} /\ ~closing[s] /\ ~missed[s] /\ ~more[s]

\* A step keeps the account of a socket that trusted its hub before it: what is pending
\* was so before, or is on its way, and what leaves the account is not pending.
LEMMA AccountKept ==
    ASSUME Accounted, NEW s \in Sockets, Trusts(s),
           Pending' \subseteq Pending \cup Account(s)',
           Account(s) \cap Pending' \subseteq Account(s)'
    PROVE  Pending' \subseteq Account(s)'
  BY DEF Accounted, Trusts, Account

\* After a fault no socket trusts its hub.
LEMMA FaultAccounted == Fault => Accounted'
  BY DEF Fault, Accounted

\* A mark takes out of what is pending what it marks.
LEMMA MarkPending ==
    ASSUME TypeOK, NEW S, MarkDelivered(S), UNCHANGED <<membership, hidden>>
    PROVE  Pending' = Pending \ S
  BY DEF TypeOK, MarkDelivered, Pending

LEMMA SamePending == UNCHANGED table => Pending' = Pending
  BY DEF table, Pending

\* The steps of senders, of the membership and of the fan-out.
LEMMA HubAccounted ==
    ASSUME TypeOK, Accounted,
           \/ \E m \in Messages : Commit(m) \/ Publish(m) \/ Mark(m)
           \/ \E s \in Sockets, m \in Messages : FanOut(s, m)
           \/ Leave \/ Return
    PROVE  Accounted'
<1>1. ASSUME NEW m \in Messages, Commit(m)  PROVE Accounted'
  <2>1. UNCHANGED <<at, closing, missed, more>>
    BY <1>1 DEF Commit, queue, replay, bounds
  <2>2. Pending' \subseteq Pending \cup {m} /\ m \in sending'
    BY <1>1 DEF Commit, TypeOK, Pending
  <2>3. \A t \in Sockets : Account(t) \subseteq Account(t)' /\ m \in Account(t)'
    BY <1>1, <2>2 DEF Commit, Account, replay
  <2>4. \A t \in Sockets : Trusts(t)' => Trusts(t)
    BY <2>1 DEF Trusts
  <2>. QED  BY <2>2, <2>3, <2>4, AccountKept DEF Accounted, Trusts, Account
<1>2. ASSUME NEW m \in Messages, Publish(m)  PROVE Accounted'
  <2>1. CASE Fault
    BY <2>1, FaultAccounted
  <2>2. CASE fan' = [s \in Sockets |-> fan[s] \cup {m}] /\ NoFault
    <3>1. UNCHANGED <<at, closing, missed, more, table>>
      BY <1>2, <2>2 DEF Publish, NoFault, queue, replay
    <3>2. \A t \in Sockets : Account(t) \subseteq Account(t)'
      BY <1>2, <2>2 DEF Publish, Account, replay
    <3>. QED  BY <3>1, <3>2, SamePending DEF Accounted, Account
  <2>. QED  BY <1>2, <2>1, <2>2 DEF Publish
<1>3. ASSUME NEW m \in Messages, Mark(m)  PROVE Accounted'
  <2>1. CASE Fault
    BY <2>1, FaultAccounted
  <2>2. CASE MarkDelivered({m}) /\ NoFault
    <3>1. UNCHANGED <<at, closing, missed, more>>
      BY <1>3, <2>2 DEF Mark, NoFault, queue, replay
    <3>2. Pending' = Pending \ {m}
      BY <1>3, <2>2, MarkPending DEF Mark
    <3>3. \A t \in Sockets : Account(t) \ {m} \subseteq Account(t)'
      BY <1>3 DEF Mark, Account, replay
    <3>. QED  BY <3>1, <3>2, <3>3 DEF Accounted, Account
  <2>. QED  BY <1>3, <2>1, <2>2 DEF Mark
<1>4. ASSUME NEW s \in Sockets, NEW m \in Messages, FanOut(s, m)  PROVE Accounted'
  <2>1. UNCHANGED <<at, missed, more>> /\ Pending' = Pending
    BY <1>4, SamePending DEF FanOut, replay, bounds
  <2>2. \A t \in Sockets : (t # s \/ (Heard(s) /\ HasRoom(s))) =>
           Account(t) \subseteq Account(t)' /\ closing'[t] = closing[t]
    BY <1>4 DEF FanOut, Account, Admit, Refuse, TypeOK, queue, replay
  <2>3. ~(Heard(s) /\ HasRoom(s)) => ~Trusts(s)'
    BY <1>4, <2>1 DEF FanOut, Heard, Refuse, Trusts, TypeOK
  <2>. SUFFICES ASSUME NEW t \in Sockets, Trusts(t)'  PROVE Pending' \subseteq Account(t)'
    BY DEF Accounted, Account, Trusts
  <2>4. t # s \/ (Heard(s) /\ HasRoom(s))
    BY <2>3
  <2>5. Account(t) \subseteq Account(t)' /\ Trusts(t)
    BY <2>1, <2>2, <2>4 DEF Trusts
  <2>. QED  BY <2>1, <2>5 DEF Accounted, Account, Trusts
<1>5. CASE Leave \/ Return
  <2>1. Pending' = {}
    BY <1>5 DEF Leave, Return, Pending, TypeOK
  <2>. QED  BY <2>1 DEF Accounted
<1>. QED  BY <1>1, <1>2, <1>3, <1>4, <1>5

\* The steps of a socket, which leave the others and their accounts alone.
LEMMA SocketAccounted ==
    ASSUME TypeOK, Accounted, NEW s \in Sockets,
           Connect(s) \/ Adds(s) \/ Write(s) \/ Close(s) \/ Crash(s) \/ Event(s)
    PROVE  Accounted'
<1>0. CASE Fault
  BY <1>0, FaultAccounted
<1>1. ASSUME \A t \in Sockets \ {s} :
                /\ at'[t] = at[t] /\ closing'[t] = closing[t] /\ missed'[t] = missed[t]
                /\ more'[t] = more[t] /\ batch'[t] = batch[t] /\ sent'[t] = sent[t],
             UNCHANGED live, Pending' \subseteq Pending,
             Trusts(s)' => Pending' \subseteq Account(s)'
      PROVE  Accounted'
  BY <1>1 DEF Accounted, Account, Trusts, live
<1>2. CASE Connect(s)
  <2>1. at'[s] = "snapshot"
    BY <1>2 DEF Connect, TypeOK
  <2>. QED  BY <1>1, <1>2, <2>1, SamePending DEF Connect, Trusts, TypeOK, queue, replay
<1>3. CASE Snapshot(s)
  <2>1. at'[s] = "read"
    BY <1>3 DEF Snapshot, TypeOK
  <2>2. \A t \in Sockets \ {s} : closing'[t] = closing[t]
    BY <1>3 DEF Snapshot, SendJSON, Admit, Refuse, TypeOK
  <2>. QED  BY <1>1, <1>3, <2>1, <2>2, SamePending DEF Snapshot, Trusts, TypeOK, replay, bounds
<1>4. CASE Read(s) /\ ~Fault
  <2>1. /\ UNCHANGED <<live, closing, missed, sent>> /\ Pending' = Pending
        /\ \A t \in Sockets \ {s} : at'[t] = at[t]
    BY <1>4, SamePending DEF Read, NoFault, TypeOK, queue, replay
  <2>2. CASE Pending = {} /\ UNCHANGED replay
    BY <1>1, <2>1, <2>2 DEF replay
  <2>3. ASSUME NEW b \in SUBSET Messages, IsBatch(b), batch' = [batch EXCEPT ![s] = b],
               more' = [more EXCEPT ![s] = Cardinality(b) = BatchSize]
        PROVE  Accounted'
    <3>1. more'[s] <=> Cardinality(b) = BatchSize
      BY <2>3 DEF TypeOK
    <3>2. batch'[s] = b
      BY <2>3 DEF TypeOK
    <3>3. Trusts(s)' => b = Pending
      BY <2>3, <3>1 DEF Trusts, IsBatch
    <3>4. \E c \in BOOLEAN : more' = [more EXCEPT ![s] = c]
      BY <2>3
    <3>5. \A t \in Sockets \ {s} : batch'[t] = batch[t] /\ more'[t] = more[t]
      BY <2>3, <3>4 DEF TypeOK
    <3>. QED  BY <1>1, <2>1, <3>2, <3>3, <3>5 DEF Account
  <2>. QED  BY <1>4, <2>2, <2>3 DEF Read
<1>5. CASE ReplayOne(s)
  <2>1. /\ UNCHANGED live /\ UNCHANGED missed /\ Pending' = Pending
        /\ \A t \in Sockets \ {s} :
              /\ at'[t] = at[t] /\ more'[t] = more[t]
              /\ batch'[t] = batch[t] /\ sent'[t] = sent[t]
    BY <1>5, SamePending DEF ReplayOne, TypeOK, bounds
  <2>2. \A t \in Sockets \ {s} : closing'[t] = closing[t]
    BY <1>5 DEF ReplayOne, Admit, Refuse, TypeOK
  <2>3. CASE HasRoom(s)
    <3>1. /\ UNCHANGED <<closing, more>>
          /\ \E m \in batch[s] : /\ batch' = [batch EXCEPT ![s] = @ \ {m}]
                                  /\ sent' = [sent EXCEPT ![s] = @ \cup {m}]
      BY <1>5, <2>3 DEF ReplayOne, Admit
    <3>2. Account(s) \subseteq Account(s)'
      BY <2>1, <3>1 DEF Account, TypeOK, live
    <3>3. Trusts(s)' => Trusts(s)
      BY <1>5, <2>1, <3>1 DEF Trusts, ReplayOne
    <3>. QED  BY <1>1, <2>1, <2>2, <3>2, <3>3 DEF Accounted, Account, Trusts
  <2>4. CASE ~HasRoom(s)
    <3>1. closing'[s]
      BY <1>5, <2>4 DEF ReplayOne, Refuse, TypeOK
    <3>. QED  BY <1>1, <2>1, <2>2, <3>1 DEF Trusts
  <2>. QED  BY <2>3, <2>4
<1>6. CASE ReplayMarks(s) /\ ~Fault
  <2>1. /\ UNCHANGED <<live, closing, missed, batch>>
        /\ Pending' = Pending \ sent[s]
        /\ \A t \in Sockets \ {s} : at'[t] = at[t] /\ more'[t] = more[t] /\ sent'[t] = sent[t]
    BY <1>6, MarkPending DEF ReplayMarks, NoFault, TypeOK, queue
  <2>2. Trusts(s)' => Trusts(s)
    BY <1>6, <2>1 DEF Trusts, ReplayMarks, TypeOK
  <2>3. Account(s) \ sent[s] \subseteq Account(s)'
    BY <2>1 DEF Account, live
  <2>. QED  BY <1>1, <2>1, <2>2, <2>3 DEF Accounted, Account, Trusts
<1>7. CASE Write(s) \/ Event(s)
  <2>1. /\ UNCHANGED <<live, at, missed, replay>> /\ Pending' = Pending
        /\ \A t \in Sockets : closing'[t] = closing[t] \/ (t = s /\ closing'[t])
    BY <1>7, SamePending
       DEF Write, Event, SendJSON, Admit, Refuse, TypeOK, bounds
  <2>. QED  BY <2>1 DEF Accounted, live, replay
<1>8. CASE Close(s)
  <2>1. at'[s] = "free"
    BY <1>8 DEF Close, TypeOK
  <2>. QED  BY <1>1, <1>8, <2>1, SamePending DEF Close, Trusts, TypeOK, replay, bounds
<1>. QED
  BY <1>0, <1>2, <1>3, <1>4, <1>5, <1>6, <1>7, <1>8 DEF Adds, Crash

LEMMA AccountedStep ==
    ASSUME TypeOK, Accounted, [Next]_vars
    PROVE  Accounted'
<1>1. CASE UNCHANGED vars
  <2>1. UNCHANGED <<at, closing, missed, live, replay>> /\ Pending' = Pending
    BY <1>1, SamePending DEF vars, queue, bounds
  <2>. QED  BY <2>1 DEF Accounted, live, replay
<1>. QED  BY <1>1, HubAccounted, SocketAccounted DEF Next

-----------------------------------------------------------------------------
\* The types, the order of committing, queueing and marking, and the account of what is
\* pending at each socket are kept by every step of the hub, for any number of sockets
\* and messages, any queue and any batch.
THEOREM Invariance ==
    ASSUME DeliveryAssumption
    PROVE  SafetySpec => []IInv
<1>1. Init => IInv
  BY InitInv
<1>2. IInv /\ [Next]_vars => IInv'
  BY TypeStep, MarksStep, ReplaysStep, AccountedStep DEF IInv
<1>. QED  BY <1>1, <1>2, PTL DEF SafetySpec

\* No message falls between the live fan-out and the replay: a socket is heard of before
\* its replay reads, so what that does not see the fan-out brings (hub.go:221).
THEOREM NoMessageMissed ==
    ASSUME DeliveryAssumption
    PROVE  SafetySpec => []NothingIsMissed
<1>1. IInv => NothingIsMissed
  BY DEF IInv, ReplaysEnd, Accounted, NothingIsMissed
<1>2. SafetySpec => []IInv
  BY Invariance
<1>. QED  BY <1>1, <1>2, PTL

\* A message is marked delivered only after a socket of the device has admitted it to its
\* queue: the fan-out and the replay implement an at-least-once queue (delivery.go:60).
THEOREM MarkedWasQueued ==
    ASSUME DeliveryAssumption
    PROVE  SafetySpec => DeliveredWasQueued
<1>1. Init => Queue!Init
  BY DEF Init, Queue!Init
<1>2. IInv /\ [Next]_vars => QueueStep
  <2>. SUFFICES ASSUME IInv, [Next]_vars  PROVE QueueStep  OBVIOUS
  <2>. DEFINE Marked == {m \in Messages : row[m] = "delivered"}
  <2>. USE DEF QueueStep, Queue!Next, Queue!vars
  <2>1. CASE UNCHANGED <<row, queued>>  BY <2>1
  <2>2. ASSUME NEW m \in Messages, Commit(m)  PROVE QueueStep
    <3>1. m \notin Written /\ Written' = Written \cup {m} /\ Marked' = Marked
      BY <2>2 DEF Commit, IInv, TypeOK, Written
    <3>2. Queue!Write(m)
      BY <2>2, <3>1 DEF Commit, Queue!Write, Written
    <3>. QED  BY <3>2
  <2>3. ASSUME NEW m \in Messages, m \in Written, queued' = queued \cup {m}, UNCHANGED row
        PROVE  QueueStep
    <3>1. Queue!Deliver(m)
      BY <2>3 DEF Queue!Deliver, Written
    <3>. QED  BY <3>1
  <2>4. ASSUME NEW S \in SUBSET Messages, S \subseteq queued, MarkDelivered(S), UNCHANGED queued
        PROVE  QueueStep
    <3>. DEFINE T == {m \in S : row[m] = "pending"}
    <3>1. Written' = Written /\ Marked' = Marked \cup T
      BY <2>4 DEF IInv, TypeOK, MarkDelivered, Written
    <3>2. T \in SUBSET Messages
      OBVIOUS
    <3>3. \E R \in SUBSET Messages : Queue!Acknowledge(R)
      BY <2>4, <3>1, <3>2 DEF Queue!Acknowledge, Written
    <3>. QED  BY <3>3
  <2>5. ASSUME NEW m \in Messages, Mark(m)  PROVE QueueStep
    <3>1. {m} \subseteq queued
      BY <2>5 DEF Mark, IInv, MarksFollowQueues
    <3>. QED  BY <2>1, <2>4, <2>5, <3>1 DEF Mark
  <2>6. ASSUME NEW s \in Sockets, ReplayMarks(s)  PROVE QueueStep
    <3>1. sent[s] \in SUBSET Messages /\ sent[s] \subseteq queued
      BY DEF IInv, TypeOK, MarksFollowQueues
    <3>. QED  BY <2>1, <2>4, <2>6, <3>1 DEF ReplayMarks
  <2>7. ASSUME NEW s \in Sockets, NEW m \in Messages, FanOut(s, m)  PROVE QueueStep
    <3>1. m \in Written
      BY <2>7 DEF FanOut, IInv, MarksFollowQueues
    <3>. QED  BY <2>1, <2>3, <2>7, <3>1 DEF FanOut, table
  <2>8. ASSUME NEW s \in Sockets, ReplayOne(s)  PROVE QueueStep
    <3>1. \A m \in batch[s] : m \in Messages /\ m \in Written
      BY DEF IInv, MarksFollowQueues, Written
    <3>. QED  BY <2>1, <2>3, <2>8, <3>1 DEF ReplayOne, table
  <2>9. CASE \/ \E m \in Messages : Publish(m)
             \/ \E s \in Sockets : \/ Connect(s) \/ Snapshot(s) \/ Read(s) \/ Write(s)
                                   \/ Close(s) \/ Crash(s) \/ Event(s)
             \/ Leave \/ Return \/ UNCHANGED vars
    <3>1. UNCHANGED <<row, queued>>
      BY <2>9 DEF Publish, Connect, Snapshot, Read, Write, Close, Crash, Event, Leave, Return,
                  vars, table
    <3>. QED  BY <2>1, <3>1
  <2>. QED
    BY <2>2, <2>5, <2>6, <2>7, <2>8, <2>9 DEF Next, Adds
<1>3. SafetySpec => []IInv
  BY Invariance
<1>. QED
  BY <1>1, <1>2, <1>3, PTL
     DEF SafetySpec, DeliveredWasQueued, Queue!SafetySpec, QueueStep
=============================================================================
