------------------------------ MODULE MCHandover ------------------------------
(* Two servers, one directory, on a small instance. *)
EXTENDS Handover
================================================================================
