------------------------------- MODULE MCResync -------------------------------
(* Resync with two objects. *)
EXTENDS Resync

CONSTANTS a, b
===============================================================================
