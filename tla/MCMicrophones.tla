---------------------------- MODULE MCMicrophones ----------------------------
(***************************************************************************)
(* The facade of direct calls where the user changes the microphone: once, *)
(* muting the call meanwhile, or again before the first change is done.    *)
(***************************************************************************)
EXTENDS CallFacade

CONSTANT chat1
=============================================================================
