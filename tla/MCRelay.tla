------------------------------ MODULE MCRelay ------------------------------
(* Relay for TLC. *)
EXTENDS Relay
=============================================================================
