--------------------------- MODULE MCSessionDisconnects ---------------------------
(* SessionDisconnects on a small instance.                              *)
EXTENDS SessionDisconnects
===============================================================================
