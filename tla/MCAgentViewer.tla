--------------------------- MODULE MCAgentViewer ---------------------------
(* Bounds under which TLC checks startLiveUpdates and the viewer on it. *)
EXTENDS AgentViewer
ASSUME ViewerTopics
=============================================================================
