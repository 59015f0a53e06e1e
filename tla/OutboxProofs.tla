---------------------------- MODULE OutboxProofs ----------------------------
(***************************************************************************)
(* Proof that the outbox consumers implement the safety part of an         *)
(* at-least-once queue, for any replicas and events, any batch size, any   *)
(* lifetimes and any number of faults; and that a claim lasts for the      *)
(* first event of its batch where only calls take time.                    *)
(***************************************************************************)
EXTENDS Outbox, TLAPS

Written == {e \in Events : row[e] # "absent"}
Processed == {e \in Events : row[e] = "processed"}

\* Taken claims are committed, pending events.
LEMMA ClaimStep ==
    ASSUME IInv, NEW r \in Replicas, Claim(r)
    PROVE  IInv'
<1>1. PICK skipped : batch' = [batch EXCEPT ![r] =
                        Oldest({e \in Events : Claimable(e)} \ skipped, BatchSize)]
  BY DEF Claim
<1>. DEFINE taken == Oldest({e \in Events : Claimable(e)} \ skipped, BatchSize)
<1>2. taken \in SUBSET Events /\ \A e \in taken : row[e] # "absent"
  BY DEF Oldest, Claimable
<1>. HIDE DEF taken
<1>3. /\ batch' = [batch EXCEPT ![r] = taken]
      /\ step' = [step EXCEPT ![r] = "events"]
      /\ UNCHANGED <<row, delivered, current>>
  BY <1>1 DEF Claim, taken
<1>. QED  BY <1>2, <1>3 DEF IInv, Positions

LEMMA MarkStep ==
    ASSUME IInv, NEW r \in Replicas, Mark(r)
    PROVE  IInv'
<1>1. /\ step[r] = "mark" /\ UNCHANGED <<delivered, batch>>
      /\ \/ step' = [step EXCEPT ![r] = "events"] /\ current' = [current EXCEPT ![r] = None]
         \/ step' = [step EXCEPT ![r] = "release"] /\ UNCHANGED current
      /\ row' = row \/ row' = [row EXCEPT ![current[r]] = "processed"]
  BY DEF Mark, MarkProcessed, Done, table
<1>2. current[r] \in delivered /\ current[r] \in Events  BY <1>1 DEF IInv
<1>3. row' \in [Events -> {"absent", "pending", "processed"}]
      /\ \A e \in Events : (row[e] # "absent" => row'[e] # "absent")
                        /\ (row'[e] = "processed" => row[e] = "processed" \/ e = current[r])
  BY <1>1, <1>2 DEF IInv
<1>4. step' \in [Replicas -> Positions] /\ current' \in [Replicas -> Events \cup {None}]
  BY <1>1 DEF IInv, Positions
<1>5. \A q \in Replicas : step'[q] \in {"notify", "mark", "release"} =>
         /\ current'[q] = current[q] /\ step[q] \in {"notify", "mark", "release"}
         /\ step'[q] = "mark" => step[q] = "mark"
  BY <1>1 DEF IInv
<1>. QED  BY <1>1, <1>2, <1>3, <1>4, <1>5 DEF IInv

LEMMA LoopStep ==
    ASSUME IInv, NEW r \in Replicas, Take(r) \/ Notify(r) \/ Release(r)
    PROVE  IInv'
<1>1. CASE Take(r)
  <2>1. CASE batch[r] = {} /\ step' = [step EXCEPT ![r] = "idle"] /\ UNCHANGED <<batch, current>>
    BY <1>1, <2>1 DEF Take, IInv, Positions, table
  <2>2. ASSUME NEW e \in batch[r], batch' = [batch EXCEPT ![r] = @ \ {e}],
               current' = [current EXCEPT ![r] = e],
               step' \in {[step EXCEPT ![r] = "release"], [step EXCEPT ![r] = "notify"]}
        PROVE  IInv'
    BY <1>1, <2>2 DEF Take, IInv, Positions, table
  <2>. QED  BY <1>1, <2>1, <2>2 DEF Take
<1>2. CASE Notify(r)
  BY <1>2 DEF Notify, IInv, Positions, table
<1>3. CASE Release(r)
  BY <1>3 DEF Release, Done, IInv, Positions
<1>. QED  BY <1>1, <1>2, <1>3

LEMMA OtherStep ==
    ASSUME IInv,
           \/ \E e \in Events : Write(e)
           \/ \E r \in Replicas : Exit(r) \/ Trouble(r)
           \/ Tick
           \/ UNCHANGED vars
    PROVE  IInv'
<1>1. ASSUME NEW e \in Events, Write(e)  PROVE IInv'
  BY <1>1 DEF Write, IInv, Positions, loop
<1>2. ASSUME NEW r \in Replicas, Exit(r) \/ Restart(r) \/ Die(r)  PROVE IInv'
  BY <1>2 DEF Exit, Restart, Die, Done, IInv, Positions, table
<1>3. ASSUME NEW r \in Replicas, Stop(r) \/ ClaimLost(r)  PROVE IInv'
  BY <1>3 DEF Stop, ClaimLost, IInv, loop, table
<1>4. CASE Tick \/ UNCHANGED vars
  BY <1>4 DEF Tick, vars, IInv, loop, table
<1>. QED  BY <1>1, <1>2, <1>3, <1>4 DEF Trouble

\* See IInv: in particular no event is marked processed that the hub was not notified of.
THEOREM Invariance == SafetySpec => []IInv
<1>1. Init => IInv  BY DEF Init, IInv, Positions
<1>2. IInv /\ [Next]_vars => IInv'
  BY ClaimStep, MarkStep, LoopStep, OtherStep DEF Next, Work
<1>. QED  BY <1>1, <1>2, PTL DEF SafetySpec

\* No event is marked processed that was not delivered: the consumers of main.go
\* implement the queue that the writing services rely on.
THEOREM Refinement == SafetySpec => NotifiedBeforeProcessed
<1>1. Init => Queue!Init
  BY DEF Init, Queue!Init
<1>2. IInv /\ [Next]_vars => [Queue!Next]_(Queue!vars)
  <2>. SUFFICES ASSUME IInv, [Next]_vars  PROVE [Queue!Next]_(Queue!vars)  OBVIOUS
  <2>. USE DEF Queue!Next, Queue!vars
  <2>1. CASE UNCHANGED <<row, delivered>>  BY <2>1
  <2>2. ASSUME NEW e \in Events, Write(e)  PROVE [Queue!Next]_(Queue!vars)
    <3>1. /\ row[e] = "absent" /\ UNCHANGED delivered
          /\ row'[e] = "pending" /\ \A d \in Events \ {e} : row'[d] = row[d]
      BY <2>2 DEF Write, IInv
    <3>2. Written' = Written \cup {e} /\ e \notin Written /\ Processed' = Processed
      BY <3>1 DEF Written, Processed
    <3>3. Queue!Write(e)  BY <3>1, <3>2 DEF Queue!Write, Written, Processed
    <3>. QED  BY <3>3
  <2>3. ASSUME NEW r \in Replicas, Notify(r)  PROVE [Queue!Next]_(Queue!vars)
    <3>1. CASE UNCHANGED delivered  BY <2>1, <2>3, <3>1 DEF Notify, table
    <3>2. CASE delivered' = delivered \cup {current[r]}
      <4>1. current[r] \in Written /\ UNCHANGED row  BY <2>3 DEF Notify, IInv, Written, table
      <4>2. PICK e \in Events : e = current[r]  BY <4>1 DEF Written
      <4>3. Queue!Deliver(e)  BY <3>2, <4>1, <4>2 DEF Queue!Deliver, Written
      <4>. QED  BY <4>3
    <3>. QED  BY <2>3, <3>1, <3>2 DEF Notify
  <2>4. ASSUME NEW r \in Replicas, Mark(r)  PROVE [Queue!Next]_(Queue!vars)
    <3>1. /\ UNCHANGED delivered
          /\ \/ UNCHANGED row
             \/ /\ Owns(r, current[r])
                /\ row' = [row EXCEPT ![current[r]] = "processed"]
      BY <2>4 DEF Mark, MarkProcessed, table
    <3>2. current[r] \in delivered /\ current[r] \in Events  BY <2>4 DEF Mark, IInv
    <3>3. CASE Owns(r, current[r]) /\ row' = [row EXCEPT ![current[r]] = "processed"]
      <4>1. /\ row[current[r]] = "pending" /\ row'[current[r]] = "processed"
            /\ \A d \in Events \ {current[r]} : row'[d] = row[d]
        BY <3>2, <3>3 DEF Owns, IInv
      <4>2. Processed' = Processed \cup {current[r]} /\ Written' = Written
        BY <3>2, <4>1 DEF Written, Processed
      <4>3. PICK e \in Events : e = current[r]  BY <3>2
      <4>4. Queue!Acknowledge({e})
        BY <3>1, <3>2, <4>2, <4>3 DEF Queue!Acknowledge, Written, Processed
      <4>. QED  BY <4>4
    <3>. QED  BY <2>1, <3>1, <3>3
  <2>5. CASE \/ \E r \in Replicas : Claim(r) \/ Take(r) \/ Release(r) \/ Exit(r) \/ Trouble(r)
             \/ Tick
             \/ UNCHANGED vars
    <3>1. UNCHANGED <<row, delivered>>
      BY <2>5 DEF Claim, Take, Release, Exit, Trouble, ClaimLost, Stop, Die, Restart, Tick, vars,
                  table, TakeClaims
    <3>. QED  BY <2>1, <3>1
  <2>. QED  BY <2>2, <2>3, <2>4, <2>5 DEF Next, Work
<1>. QED
  BY <1>1, <1>2, Invariance, PTL DEF SafetySpec, NotifiedBeforeProcessed, Queue!SafetySpec

-----------------------------------------------------------------------------
(* The first claim of a batch.                                             *)

\* Every statement keeps the types of the table and of the loops.
LEMMA TypeStep ==
    ASSUME TypeOK, IInv, [Next]_vars
    PROVE  TypeOK'
<1>0. /\ EventTTL \in Nat /\ ClaimTTL \in Nat /\ EventTTL < ClaimTTL /\ MaxFaults \in Nat
      /\ 0 \in 0 .. EventTTL /\ EventTTL \in 0 .. EventTTL /\ ClaimTTL \in 0 .. ClaimTTL
      /\ None \notin [by : Replicas, ttl : 0 .. ClaimTTL]
  BY OutboxAssumption
<1>1. Fault \/ UNCHANGED faults => faults' \in 0 .. MaxFaults
  BY <1>0 DEF Fault, TypeOK
<1>2. ASSUME NEW e \in Events, Write(e)  PROVE TypeOK'
  BY <1>2 DEF Write, TypeOK, loop
<1>3. ASSUME NEW r \in Replicas, NEW taken \in SUBSET Events, TakeClaims(r, taken)
      PROVE  claim' \in [Events -> [by : Replicas, ttl : 0 .. ClaimTTL] \cup {None}]
  BY <1>0, <1>3 DEF TakeClaims, TypeOK
<1>4. ASSUME NEW r \in Replicas, Claim(r)  PROVE TypeOK'
  <2>1. PICK skipped : LET taken == Oldest({e \in Events : Claimable(e)} \ skipped, BatchSize) IN
             /\ TakeClaims(r, taken)
             /\ batch' = [batch EXCEPT ![r] = taken]
    BY <1>4 DEF Claim
  <2>. DEFINE taken == Oldest({e \in Events : Claimable(e)} \ skipped, BatchSize)
  <2>2. taken \in SUBSET Events  BY DEF Oldest
  <2>. HIDE DEF taken
  <2>3. TakeClaims(r, taken) /\ batch' = [batch EXCEPT ![r] = taken]  BY <2>1 DEF taken
  <2>4. claim' \in [Events -> [by : Replicas, ttl : 0 .. ClaimTTL] \cup {None}]
    BY <1>3, <2>2, <2>3
  <2>5. Fault \/ UNCHANGED faults  BY <1>4 DEF Claim
  <2>. QED
    BY <1>1, <1>4, <2>2, <2>3, <2>4, <2>5 DEF Claim, TypeOK, Positions
<1>5. ASSUME NEW r \in Replicas, ClaimLost(r)  PROVE TypeOK'
  <2>. DEFINE taken == Oldest({e \in Events : Claimable(e)}, BatchSize)
  <2>1. taken \in SUBSET Events /\ TakeClaims(r, taken)  BY <1>5 DEF ClaimLost, Oldest
  <2>. HIDE DEF taken
  <2>. QED  BY <1>1, <1>3, <1>5, <2>1 DEF ClaimLost, TypeOK, loop
<1>6. ASSUME NEW r \in Replicas, Take(r)  PROVE TypeOK'
  <2>1. UNCHANGED <<row, claim, delivered, stopping, faults>>  BY <1>6 DEF Take, table
  <2>2. CASE /\ step' = [step EXCEPT ![r] = "idle"]
             /\ first' = [first EXCEPT ![r] = FALSE]
             /\ UNCHANGED <<batch, current, timer>>
    BY <2>1, <2>2 DEF TypeOK, Positions
  <2>3. ASSUME NEW e \in batch[r],
               batch' = [batch EXCEPT ![r] = @ \ {e}], current' = [current EXCEPT ![r] = e],
               \/ step' = [step EXCEPT ![r] = "release"] /\ UNCHANGED timer
               \/ step' = [step EXCEPT ![r] = "notify"] /\ timer' = [timer EXCEPT ![r] = EventTTL],
               UNCHANGED first
        PROVE  TypeOK'
    <3>1. step' \in [Replicas -> Positions] /\ timer' \in [Replicas -> 0 .. EventTTL]
      BY <1>0, <2>3 DEF TypeOK, Positions
    <3>2. e \in Events  BY DEF TypeOK
    <3>3. batch' \in [Replicas -> SUBSET Events]  BY <2>3 DEF TypeOK
    <3>4. current' \in [Replicas -> Events \cup {None}]  BY <2>3, <3>2 DEF TypeOK
    <3>. QED  BY <2>1, <2>3, <3>1, <3>3, <3>4 DEF TypeOK
  <2>. QED  BY <1>6, <2>2, <2>3 DEF Take
<1>7. ASSUME NEW r \in Replicas, Notify(r)  PROVE TypeOK'
  <2>1. Fault \/ UNCHANGED faults  BY <1>7 DEF Notify, Fails
  <2>2. /\ UNCHANGED <<row, claim, batch, current, first, stopping>>
        /\ step' \in [Replicas -> Positions] /\ timer' \in [Replicas -> 0 .. EventTTL]
        /\ current[r] \in Events /\ delivered' \in {delivered, delivered \cup {current[r]}}
    BY <1>0, <1>7 DEF Notify, TypeOK, IInv, Positions, table
  <2>. QED  BY <1>1, <2>1, <2>2 DEF TypeOK
<1>8. ASSUME NEW r \in Replicas, Mark(r)  PROVE TypeOK'
  <2>1. Fault \/ UNCHANGED faults  BY <1>8 DEF Mark, Fails
  <2>2. MarkProcessed(r, current[r]) \/ UNCHANGED table  BY <1>8 DEF Mark
  <2>3. /\ row' \in [Events -> {"absent", "pending", "processed"}]
        /\ claim' \in [Events -> [by : Replicas, ttl : 0 .. ClaimTTL] \cup {None}]
    BY <2>2 DEF MarkProcessed, TypeOK, table
  <2>4. /\ step' \in [Replicas -> Positions] /\ current' \in [Replicas -> Events \cup {None}]
        /\ first' \in [Replicas -> BOOLEAN] /\ timer' \in [Replicas -> 0 .. EventTTL]
    BY <1>0, <1>8 DEF Mark, Done, TypeOK, Positions
  <2>. QED  BY <1>1, <1>8, <2>1, <2>3, <2>4 DEF Mark, TypeOK
<1>9. ASSUME NEW r \in Replicas, Release(r)  PROVE TypeOK'
  <2>1. Fault \/ UNCHANGED faults  BY <1>9 DEF Release
  <2>2. claim' \in [Events -> [by : Replicas, ttl : 0 .. ClaimTTL] \cup {None}]
    BY <1>9 DEF Release, TypeOK
  <2>3. step' \in [Replicas -> Positions] /\ batch' \in [Replicas -> SUBSET Events]
    BY <1>9 DEF Release, TypeOK, Positions
  <2>4. /\ current' \in [Replicas -> Events \cup {None}]
        /\ first' \in [Replicas -> BOOLEAN] /\ timer' \in [Replicas -> 0 .. EventTTL]
    BY <1>0, <1>9 DEF Release, Done, TypeOK
  <2>. QED  BY <1>1, <1>9, <2>1, <2>2, <2>3, <2>4 DEF Release, TypeOK
<1>10. ASSUME NEW r \in Replicas, Stop(r) \/ Die(r)  PROVE TypeOK'
  <2>1. CASE Stop(r)  BY <1>1, <2>1 DEF Stop, TypeOK, table, loop
  <2>2. CASE Die(r)
    <3>1. /\ step' \in [Replicas -> Positions] /\ batch' \in [Replicas -> SUBSET Events]
          /\ current' \in [Replicas -> Events \cup {None}]
          /\ first' \in [Replicas -> BOOLEAN] /\ timer' \in [Replicas -> 0 .. EventTTL]
      BY <1>0, <2>2 DEF Die, Done, TypeOK, Positions
    <3>. QED  BY <1>1, <2>2, <3>1 DEF Die, TypeOK, table
  <2>. QED  BY <1>10, <2>1, <2>2
<1>11. ASSUME NEW r \in Replicas, Exit(r) \/ Restart(r)  PROVE TypeOK'
  BY <1>11 DEF Exit, Restart, TypeOK, Positions, table
<1>12. CASE Tick
  <2>1. ASSUME NEW c \in [by : Replicas, ttl : 0 .. ClaimTTL] \cup {None}
        PROVE  Lapse(c) \in [by : Replicas, ttl : 0 .. ClaimTTL] \cup {None}
    <3>1. CASE c = None \/ c.ttl = 0  BY <3>1 DEF Lapse
    <3>2. CASE ~ (c = None \/ c.ttl = 0)
      <4>1. c.ttl - 1 \in 0 .. ClaimTTL  BY <1>0, <3>2
      <4>. QED  BY <3>2, <4>1 DEF Lapse
    <3>. QED  BY <3>1, <3>2
  <2>2. claim' \in [Events -> [by : Replicas, ttl : 0 .. ClaimTTL] \cup {None}]
    BY <1>12, <2>1 DEF Tick, TypeOK
  <2>3. timer' \in [Replicas -> 0 .. EventTTL]
    <3>1. \A t \in 0 .. EventTTL : (IF t = 0 THEN 0 ELSE t - 1) \in 0 .. EventTTL  BY <1>0
    <3>2. \A r \in Replicas : timer[r] \in 0 .. EventTTL  BY DEF TypeOK
    <3>. QED  BY <1>12, <3>1, <3>2 DEF Tick
  <2>. QED  BY <1>12, <2>2, <2>3 DEF Tick, TypeOK
<1>13. CASE UNCHANGED vars  BY <1>13 DEF vars, TypeOK, table, loop
<1>. QED
  BY <1>2, <1>4, <1>5, <1>6, <1>7, <1>8, <1>9, <1>10, <1>11, <1>12, <1>13
     DEF Next, Work, Trouble

\* Every value keeps the type that the table and the consumers give it.
THEOREM TypeCorrect == SafetySpec => []TypeOK
<1>1. Init => TypeOK  BY OutboxAssumption DEF Init, TypeOK, Positions
<1>2. TypeOK /\ IInv /\ [Next]_vars => TypeOK'  BY TypeStep
<1>. QED  BY <1>1, <1>2, Invariance, PTL DEF SafetySpec

\* What one replica's first claim has.
HeldBy(r) ==
    first[r] =>
        /\ step[r] = "events" => \A e \in batch[r] : Owns(r, e) /\ claim[e].ttl = ClaimTTL
        /\ step[r] \in {"notify", "mark"} =>
              /\ Owns(r, current[r])
              /\ claim[current[r]].ttl + EventTTL >= ClaimTTL + timer[r]

\* A replica that stays where it is keeps its first claim while the rows it owns, with
\* time left, keep theirs.
LEMMA HeldStays ==
    ASSUME TypeOK, IInv, NEW r \in Replicas, HeldBy(r),
           step'[r] = step[r], batch'[r] = batch[r], current'[r] = current[r],
           first'[r] = first[r], timer'[r] = timer[r],
           \A e \in Events : Owns(r, e) /\ claim[e].ttl > 0 =>
              row'[e] = row[e] /\ claim'[e] = claim[e]
    PROVE  HeldBy(r)'
<1>0. EventTTL \in Nat /\ ClaimTTL \in Nat /\ EventTTL < ClaimTTL  BY OutboxAssumption
<1>1. CASE first[r] /\ step[r] = "events"
  <2>1. \A e \in batch[r] : e \in Events /\ Owns(r, e) /\ claim[e].ttl = ClaimTTL /\ ClaimTTL > 0
    BY <1>0, <1>1 DEF HeldBy, TypeOK
  <2>2. \A e \in batch[r] : row'[e] = row[e] /\ claim'[e] = claim[e]  BY <2>1
  <2>. QED  BY <1>1, <2>1, <2>2 DEF HeldBy, Owns
<1>2. CASE first[r] /\ step[r] \in {"notify", "mark"}
  <2>1. current[r] \in Events /\ Owns(r, current[r]) /\ timer[r] \in Nat
        /\ claim[current[r]].ttl + EventTTL >= ClaimTTL + timer[r]
    BY <1>2 DEF HeldBy, TypeOK, IInv
  <2>2. claim[current[r]] \in [by : Replicas, ttl : 0 .. ClaimTTL]
    BY <2>1 DEF Owns, TypeOK
  <2>3. claim[current[r]].ttl > 0  BY <1>0, <2>1, <2>2
  <2>4. row'[current[r]] = row[current[r]] /\ claim'[current[r]] = claim[current[r]]
    BY <2>1, <2>3
  <2>. QED  BY <1>2, <2>1, <2>4 DEF HeldBy, Owns
<1>3. CASE ~first[r] \/ step[r] \notin {"events", "notify", "mark"}  BY <1>3 DEF HeldBy
<1>. QED  BY <1>1, <1>2, <1>3

\* A claim is granted for its whole lifetime, and only of rows that nobody holds.
LEMMA ClaimHeld ==
    ASSUME TypeOK, IInv, HeadIsHeld, NEW q \in Replicas, Claim(q)
    PROVE  HeadIsHeld'
<1>0. None \notin [by : Replicas, ttl : 0 .. ClaimTTL] /\ ClaimTTL \in 0 .. ClaimTTL
  BY OutboxAssumption
<1>1. PICK skipped : LET taken == Oldest({e \in Events : Claimable(e)} \ skipped, BatchSize) IN
           /\ TakeClaims(q, taken)
           /\ batch' = [batch EXCEPT ![q] = taken]
  BY DEF Claim
<1>. DEFINE taken == Oldest({e \in Events : Claimable(e)} \ skipped, BatchSize)
<1>2. \A e \in taken : e \in Events /\ Claimable(e)  BY DEF Oldest
<1>3. /\ claim' = [e \in Events |-> IF e \in taken THEN [by |-> q, ttl |-> ClaimTTL] ELSE claim[e]]
      /\ batch' = [batch EXCEPT ![q] = taken]
      /\ step' = [step EXCEPT ![q] = "events"] /\ first' = [first EXCEPT ![q] = TRUE]
      /\ UNCHANGED <<row, current, timer>>
  BY <1>1 DEF Claim, TakeClaims
<1>. HIDE DEF taken
<1>4. HeldBy(q)'
  <2>1. step'[q] = "events" /\ batch'[q] = taken  BY <1>3 DEF TypeOK
  <2>2. ASSUME NEW e \in taken  PROVE Owns(q, e)' /\ claim'[e].ttl = ClaimTTL
    <3>1. row'[e] = "pending" /\ claim'[e] = [by |-> q, ttl |-> ClaimTTL]
      BY <1>2, <1>3 DEF Claimable
    <3>2. [by |-> q, ttl |-> ClaimTTL] \in [by : Replicas, ttl : 0 .. ClaimTTL]  BY <1>0
    <3>. QED  BY <1>0, <3>1, <3>2 DEF Owns
  <2>. QED  BY <2>1, <2>2 DEF HeldBy
<1>5. ASSUME NEW r \in Replicas \ {q}  PROVE HeldBy(r)'
  <2>1. \A e \in Events : Owns(r, e) /\ claim[e].ttl > 0 => e \notin taken
    BY <1>2 DEF Claimable, Owns, TypeOK
  <2>. QED  BY <1>3, <2>1, HeldStays DEF TypeOK, HeadIsHeld, HeldBy
<1>. QED  BY <1>4, <1>5 DEF HeadIsHeld, HeldBy

\* A replica works on its first event with the whole time before it, and marks and
\* releases no row but its own.
LEMMA WorkHeld ==
    ASSUME TypeOK, IInv, HeadIsHeld, NEW q \in Replicas,
           Take(q) \/ Notify(q) \/ Mark(q) \/ Release(q) \/ Exit(q) \/ Trouble(q)
    PROVE  HeadIsHeld'
<1>0. EventTTL \in Nat /\ ClaimTTL \in Nat /\ EventTTL < ClaimTTL  BY OutboxAssumption
<1>1. \A e \in Events : \A r \in Replicas \ {q} : Owns(r, e) /\ claim[e].ttl > 0 =>
         row'[e] = row[e] /\ claim'[e] = claim[e]
  <2>1. CASE \/ Take(q) \/ Notify(q) \/ Exit(q) \/ Stop(q) \/ Die(q) \/ Restart(q)
    BY <2>1 DEF Take, Notify, Exit, Stop, Die, Restart, table
  <2>2. CASE Mark(q)
    BY <2>2 DEF Mark, MarkProcessed, Owns, TypeOK, table
  <2>3. CASE Release(q)  BY <2>3 DEF Release, Owns, TypeOK
  <2>4. CASE ClaimLost(q)
    BY <2>4 DEF ClaimLost, TakeClaims, Oldest, Claimable, Owns, TypeOK
  <2>. QED  BY <2>1, <2>2, <2>3, <2>4 DEF Trouble
<1>2. ASSUME NEW r \in Replicas \ {q}  PROVE HeldBy(r)'
  <2>1. /\ step'[r] = step[r] /\ batch'[r] = batch[r] /\ current'[r] = current[r]
        /\ first'[r] = first[r] /\ timer'[r] = timer[r]
    BY DEF Take, Notify, Mark, Release, Exit, Trouble, ClaimLost, Stop, Die, Restart, Done, loop,
           TypeOK
  <2>. QED  BY <1>1, <2>1, HeldStays DEF HeadIsHeld, HeldBy
<1>3. HeldBy(q)'
  <2>1. CASE Take(q)
    <3>1. CASE step'[q] \notin {"events", "notify", "mark"}  BY <3>1 DEF HeldBy
    <3>2. CASE step'[q] = "notify"
      <4>1. PICK e \in batch[q] : current' = [current EXCEPT ![q] = e]
                                  /\ timer' = [timer EXCEPT ![q] = EventTTL]
        BY <2>1, <3>2 DEF Take, TypeOK
      <4>2. /\ current'[q] = e /\ timer'[q] = EventTTL /\ first' = first /\ e \in Events
            /\ UNCHANGED <<row, claim>> /\ step[q] = "events"
        BY <2>1, <3>2, <4>1 DEF Take, TypeOK, table
      <4>3. first[q] => Owns(q, e) /\ claim[e].ttl = ClaimTTL
        BY <4>2 DEF HeadIsHeld
      <4>. QED  BY <1>0, <3>2, <4>2, <4>3 DEF HeldBy, Owns
    <3>. QED  BY <2>1, <3>1, <3>2 DEF Take, TypeOK
  <2>2. CASE Notify(q)
    <3>1. CASE step'[q] = "mark"
      <4>1. /\ UNCHANGED <<row, claim, current, first, timer>> /\ step[q] = "notify"
        BY <2>2, <3>1 DEF Notify, TypeOK, table
      <4>. QED  BY <3>1, <4>1 DEF HeldBy, HeadIsHeld, Owns
    <3>. QED  BY <2>2, <3>1 DEF Notify, TypeOK, HeldBy
  <2>3. CASE Mark(q)
    BY <2>3 DEF Mark, Done, TypeOK, HeldBy
  <2>4. CASE Release(q) \/ Die(q)
    BY <2>4 DEF Release, Die, Done, TypeOK, HeldBy
  <2>5. CASE Exit(q) \/ Restart(q)
    BY <2>5 DEF Exit, Restart, TypeOK, HeldBy
  <2>6. CASE Stop(q)
    BY <2>6 DEF Stop, HeldBy, HeadIsHeld, Owns, table, loop
  <2>7. CASE ClaimLost(q)
    <3>1. step[q] = "idle" /\ UNCHANGED step  BY <2>7 DEF ClaimLost, loop
    <3>. QED  BY <3>1 DEF HeldBy
  <2>. QED  BY <2>1, <2>2, <2>3, <2>4, <2>5, <2>6, <2>7 DEF Trouble
<1>. QED  BY <1>2, <1>3 DEF HeadIsHeld, HeldBy

\* The time of the first event and its claim run down together.
LEMMA TickHeld ==
    ASSUME TypeOK, IInv, HeadIsHeld, Prompt, Tick
    PROVE  HeadIsHeld'
<1>0. /\ EventTTL \in Nat /\ ClaimTTL \in Nat /\ EventTTL < ClaimTTL
      /\ None \notin [by : Replicas, ttl : 0 .. ClaimTTL]
  BY OutboxAssumption
<1>. SUFFICES ASSUME NEW r \in Replicas, first[r]  PROVE HeldBy(r)'
  BY DEF Tick, HeadIsHeld, HeldBy
<1>1. step[r] # "events" /\ UNCHANGED <<row, step, batch, current, first>>  BY DEF Tick
<1>2. CASE step[r] \in {"notify", "mark"}
  <2>. DEFINE e == current[r]
  <2>1. /\ e \in Events /\ Owns(r, e) /\ timer[r] \in 0 .. EventTTL /\ timer[r] > 0
        /\ claim[e].ttl + EventTTL >= ClaimTTL + timer[r]
    BY <1>2 DEF HeadIsHeld, TypeOK, IInv, Tick
  <2>2. claim[e] \in [by : Replicas, ttl : 0 .. ClaimTTL]  BY <2>1 DEF Owns, TypeOK
  <2>3. claim[e].ttl \in 1 .. ClaimTTL  BY <1>0, <2>1, <2>2
  <2>4. claim'[e] = [claim[e] EXCEPT !.ttl = @ - 1] /\ timer'[r] = timer[r] - 1
    BY <2>1, <2>3 DEF Tick, Lapse, Owns
  <2>5. claim'[e].by = r /\ claim'[e].ttl = claim[e].ttl - 1
        /\ claim'[e] \in [by : Replicas, ttl : 0 .. ClaimTTL]
    BY <1>0, <2>1, <2>2, <2>3, <2>4 DEF Owns
  <2>6. Owns(r, e)'  BY <1>0, <1>1, <2>1, <2>5 DEF Owns
  <2>7. claim'[e].ttl + EventTTL >= ClaimTTL + timer'[r]
    BY <1>0, <2>1, <2>3, <2>4, <2>5
  <2>. QED  BY <1>1, <1>2, <2>6, <2>7 DEF HeldBy
<1>. QED  BY <1>1, <1>2 DEF HeldBy

\* While no time passes but in claims, notifications and marking, nobody takes over the
\* event a replica began its batch with: one event fits into one claim.
THEOREM HeadIsNotLost == Prompt => (SafetySpec => []HeadClaimHolds)
<1>. SUFFICES ASSUME Prompt  PROVE SafetySpec => []HeadClaimHolds  OBVIOUS
<1>1. Init => HeadIsHeld  BY DEF Init, HeadIsHeld
<1>2. TypeOK /\ IInv /\ HeadIsHeld /\ [Next]_vars => HeadIsHeld'
  <2>. SUFFICES ASSUME TypeOK, IInv, HeadIsHeld, [Next]_vars  PROVE HeadIsHeld'  OBVIOUS
  <2>1. ASSUME NEW e \in Events, Write(e)  PROVE HeadIsHeld'
    <3>1. \A d \in Events \ {e} : row'[d] = row[d]  BY <2>1 DEF Write, TypeOK
    <3>2. \A r \in Replicas : ~Owns(r, e)  BY <2>1 DEF Write, Owns
    <3>3. UNCHANGED <<claim, step, batch, current, first, timer>>  BY <2>1 DEF Write, loop
    <3>4. \A r \in Replicas : \A d \in Events : Owns(r, d) => row'[d] = row[d]
      BY <3>1, <3>2
    <3>5. \A r \in Replicas : HeldBy(r)'
      BY <3>3, <3>4, HeldStays DEF HeadIsHeld, HeldBy
    <3>. QED  BY <3>5 DEF HeadIsHeld, HeldBy
  <2>2. CASE UNCHANGED vars  BY <2>2 DEF vars, table, loop, HeadIsHeld, Owns
  <2>. QED  BY <2>1, <2>2, ClaimHeld, WorkHeld, TickHeld DEF Next, Work
<1>3. HeadIsHeld => HeadClaimHolds  BY DEF HeadIsHeld, HeadClaimHolds
<1>. QED  BY <1>1, <1>2, <1>3, TypeCorrect, Invariance, PTL DEF SafetySpec
=============================================================================
