------------------------------- MODULE MCCalls -------------------------------
(***************************************************************************)
(* The facade of direct calls in four scenes, each with tighter bounds     *)
(* than the module itself: its generations, lost connections, its          *)
(* microphones and screens, and users who hang up before the server has    *)
(* named the call.                                                         *)
(***************************************************************************)
EXTENDS CallFacade

CONSTANTS chat1, chat2

VARIABLE scene

Calling == INSTANCE CallFacade WITH
    Conversations <- {chat1}, MaxCalls <- 2, MaxGen <- 4, MaxCaptures <- 3, MaxEffort <- 1,
    Switches <- 1, Drops <- FALSE, EarlyCancel <- FALSE
Dropping == INSTANCE CallFacade WITH
    Conversations <- {chat1, chat2}, MaxCalls <- 1, MaxGen <- 4, MaxCaptures <- 3, MaxEffort <- 2,
    Switches <- 0, Drops <- TRUE, EarlyCancel <- FALSE
Capturing == INSTANCE CallFacade WITH
    Conversations <- {chat1}, MaxCalls <- 1, MaxGen <- 3, MaxCaptures <- 3, MaxEffort <- 3,
    Switches <- 1, Drops <- FALSE, EarlyCancel <- FALSE
HangingUp == INSTANCE CallFacade WITH
    Conversations <- {chat1}, MaxCalls <- 2, MaxGen <- 3, MaxCaptures <- 2, MaxEffort <- 1,
    Switches <- 0, Drops <- TRUE, EarlyCancel <- TRUE

ASSUME
    /\ Calling!CallFacadeAssumption /\ Dropping!CallFacadeAssumption
    /\ Capturing!CallFacadeAssumption /\ HangingUp!CallFacadeAssumption

MCInit == Init /\ scene \in {"calling", "dropping", "capturing", "hanging up"}

MCNext ==
    \/ scene = "calling" /\ Calling!Next /\ UNCHANGED scene
    \/ scene = "dropping" /\ Dropping!Next /\ UNCHANGED scene
    \/ scene = "capturing" /\ Capturing!Next /\ UNCHANGED scene
    \/ scene = "hanging up" /\ HangingUp!Next /\ UNCHANGED scene

MCSpec == MCInit /\ [][MCNext]_<<scene, vars>>

-----------------------------------------------------------------------------
\* Once nothing is under way, a call that the server still holds for this user is
\* the one the tab shows and can end (call-facade.service.ts:650). Exceptions the
\* code has: a call that rang when the connection was lost, a cancel that the
\* accept was ahead of, and, in the scene left out, a hang-up before the server has
\* named the call.
NobodyIsStranded ==
    /\ scene \in {"calling", "capturing"} => Calling!NoCallIsStranded
    /\ scene = "dropping" => Dropping!NoCallIsStranded
=============================================================================
