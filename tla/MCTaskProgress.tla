--------------------------- MODULE MCTaskProgress ---------------------------
(* Instances of TaskProgress for TLC. *)
EXTENDS TaskProgress
=============================================================================
