----------------------- MODULE MCOperationsFreshness -----------------------
(* Bounds under which TLC checks the way from a commit to the screen. *)
EXTENDS OperationsFreshness
=============================================================================
