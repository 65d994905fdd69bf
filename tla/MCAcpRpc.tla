------------------------------ MODULE MCAcpRpc ------------------------------
(* The instance of AcpRpc for TLC. *)
EXTENDS AcpRpc
=============================================================================
