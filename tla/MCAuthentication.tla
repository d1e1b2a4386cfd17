-------------------------- MODULE MCAuthentication --------------------------
(* Authentication on a small instance.                                     *)
EXTENDS Authentication
=============================================================================
