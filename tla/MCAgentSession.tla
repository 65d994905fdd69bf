---------------------------- MODULE MCAgentSession ----------------------------
(* The instance of AgentSession for TLC. *)
EXTENDS AgentSession

\* A bound: the second update comes only where nobody steers and no listener raises.
OneThing == LET steered == \E s \in Steers : steer[s].at # "idle" IN
    /\ ~(steered /\ raises > 0)
    /\ steered \/ raises > 0 => Len(log) <= 1
=============================================================================
