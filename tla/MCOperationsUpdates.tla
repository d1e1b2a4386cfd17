--------------------------- MODULE MCOperationsUpdates ---------------------------
(* OperationsUpdates on a small instance.                              *)
EXTENDS OperationsUpdates
===============================================================================
