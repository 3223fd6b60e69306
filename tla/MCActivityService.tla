-------------------------- MODULE MCActivityService --------------------------
(* An instance of ActivityService for TLC: goto interrupts goto and track. *)
EXTENDS ActivityService, TLC

Exclusive == ("goto" :> {"goto", "track"}) @@ ("track" :> {"goto"})
=============================================================================
