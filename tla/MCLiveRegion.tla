---------------------------- MODULE MCLiveRegion ----------------------------
(* Bounds under which TLC checks the live region. *)
EXTENDS LiveRegion
ASSUME RegionTopics
=============================================================================
