----------------------------- MODULE MCGroupRoom -----------------------------
(***************************************************************************)
(* Group rooms in five scenes. Each keeps most of the users, sockets and   *)
(* rooms at rest and lets the others do what makes one kind of trouble.    *)
(***************************************************************************)
EXTENDS GroupRoom, TLC

CONSTANTS u1, u2, u3, s1, s2, s3, s4, c1, c2, r1, r2

VARIABLE scene

\* u1 has two sockets.
Owner == (s1 :> u1) @@ (s2 :> u2) @@ (s3 :> u3) @@ (s4 :> u1)

Bounds ==
    \* The membership changes, one of two members goes, and a call or a lease fails.
    [changing |->
        [sockets |-> {s1, s2}, conversations |-> {c1}, rooms |-> {r1, r2}, moving |-> {u1, u2},
         revisions |-> 2, commands |-> 3, faults |-> 1,
         founders |-> {u1}, presenters |-> {}, passing |-> {s2}, callers |-> {}],
    \* The membership changes twice around one room.
     returning |->
        [sockets |-> {s1, s2}, conversations |-> {c1}, rooms |-> {r1}, moving |-> {u1, u2},
         revisions |-> 3, commands |-> 2, faults |-> 1,
         founders |-> {u1}, presenters |-> {}, passing |-> {s2}, callers |-> {}],
    \* A user goes from one socket to another while the first is removed.
     moving |->
        [sockets |-> {s1, s2, s4}, conversations |-> {c1}, rooms |-> {r1, r2}, moving |-> {},
         revisions |-> 1, commands |-> 4, faults |-> 0,
         founders |-> {u1}, presenters |-> {}, passing |-> {s1}, callers |-> {}],
    \* Two users are called in two conversations, and directly.
     calling |->
        [sockets |-> {s1, s2}, conversations |-> {c1, c2}, rooms |-> {r1, r2}, moving |-> {},
         revisions |-> 1, commands |-> 4, faults |-> 0,
         founders |-> {u1, u2}, presenters |-> {}, passing |-> {}, callers |-> {u1}],
    \* Three users, two seats and a screen.
     full |->
        [sockets |-> {s1, s2, s3}, conversations |-> {c1}, rooms |-> {r1}, moving |-> {},
         revisions |-> 1, commands |-> 5, faults |-> 0,
         founders |-> {u1}, presenters |-> {s1, s2}, passing |-> {}, callers |-> {}]]

Within ==
    LET b == Bounds[scene] IN
    /\ begun <= b.commands /\ faults <= b.faults
    /\ issued \subseteq b.rooms /\ calling \subseteq b.callers
    /\ \A c \in Conversations :
          /\ revision[c] <= IF c \in b.conversations THEN b.revisions ELSE 1
          /\ Users \ members[c] \subseteq b.moving
    /\ \A s \in Sockets : phase[s] # "open" => s \in b.passing
    /\ \A s \in Sockets : command[s] # None =>
          /\ s \in b.sockets /\ command[s].conversation \in b.conversations
          /\ command[s].op = "start" => SocketUser[s] \in b.founders
          /\ command[s].op \in {"present", "stop"} => s \in b.presenters

MCInit == Init /\ scene \in DOMAIN Bounds

MCNext == Next /\ UNCHANGED scene /\ Within'

\* No bound refuses a notification.
MCSpec == MCInit /\ [][MCNext]_<<vars, scene>> /\ WF_vars(Notifying)
=============================================================================
