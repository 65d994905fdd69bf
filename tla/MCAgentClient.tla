---------------------------- MODULE MCAgentClient ----------------------------
(* The instance of AgentClient for TLC. *)
EXTENDS AgentClient
=============================================================================
