------------------------------- MODULE MCLeases -------------------------------
(* The instance of Leases for TLC. *)
EXTENDS Leases
=============================================================================
