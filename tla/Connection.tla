----------------------------- MODULE Connection -----------------------------
(***************************************************************************)
(* What the browser's realtime connection promises the rest of the         *)
(* frontend, whatever sockets and tickets it uses up to keep the promise:  *)
(* the connectionState that data-provider.service.ts publishes, and the    *)
(* two facts that decide when a reopened connection is ready again (the    *)
(* presence snapshot arrived, no recovery request is open).                *)
(* Transport refines this specification and HomeSync is built on it.       *)
(***************************************************************************)
EXTENDS Naturals

VARIABLES
    state,      \* connectionState
    snapshot,   \* presenceSnapshotReceived, of this opening
    awaited     \* recoveryRequestID, NoRequest when none is open

connectionVars == <<state, snapshot, awaited>>

NoRequest == 0

ConnectionState == {"offline", "connecting", "recovering", "ready", "failed"}

\* The states in which a socket is open (socketOpen).
IsOpen(s) == s \in {"recovering", "ready"}

ConnectionInit ==
    /\ state = "offline"
    /\ snapshot = FALSE
    /\ awaited = NoRequest

\* connect and retryNow: a first attempt, or one the user asks for at once.
Attempt ==
    /\ state' = "connecting"
    /\ UNCHANGED <<snapshot, awaited>>

\* openObserver: a fresh opening knows neither presence nor a recovery.
Open ==
    /\ state \in {"connecting", "failed"}
    /\ state' = "recovering"
    /\ snapshot' = FALSE
    /\ awaited' = NoRequest

\* scheduleReconnect: the socket, its ticket or the recovery failed.
Fail ==
    /\ state # "offline"
    /\ state' = "failed"
    /\ awaited' \in {awaited} \cup (Nat \ {NoRequest})
    /\ UNCHANGED snapshot

\* completeRecoveryIfReady, after one of its two conditions changed.
Complete ==
    /\ IsOpen(state)
    /\ state' = IF snapshot' /\ awaited' = NoRequest THEN "ready" ELSE state

\* The presence snapshot arrives. It may complete the recovery.
Presence ==
    /\ snapshot' = TRUE
    /\ UNCHANGED awaited
    /\ Complete

\* A recovery request is sent on the open socket.
Ask ==
    /\ IsOpen(state)
    /\ awaited' \in Nat \ {NoRequest}
    /\ UNCHANGED <<state, snapshot>>

\* The open recovery request is answered, rejected or given up.
Answer ==
    /\ awaited' = NoRequest
    /\ UNCHANGED snapshot
    /\ Complete

\* Outside an opening, finishing a recovery only forgets the request.
Forget ==
    /\ ~ IsOpen(state)
    /\ awaited' = NoRequest
    /\ UNCHANGED <<state, snapshot>>

\* close.
Shut ==
    /\ state' = "offline"
    /\ UNCHANGED <<snapshot, awaited>>

ConnectionNext ==
    \/ Attempt \/ Open \/ Fail \/ Presence \/ Ask \/ Answer \/ Forget \/ Shut

ConnectionSpec == ConnectionInit /\ [][ConnectionNext]_connectionVars
=============================================================================
