---------------------------- MODULE SharedCleanup ----------------------------
(***************************************************************************)
(* What a cleanup shared by several callers promises: at most one attempt  *)
(* runs at a time, everybody who asks meanwhile learns how that attempt    *)
(* ends, a caller may stop waiting without stopping it, a failed attempt   *)
(* may be asked for again, and a successful one is the last.               *)
(***************************************************************************)
CONSTANT Callers

VARIABLES phase,   \* of the cleanup
          caller   \* what each caller knows of it

vars == <<phase, caller>>

Phases == {"open", "running", "confirmed", "failed"}
Knowledge == {"idle", "waiting", "ok", "error", "gone"}

Init == /\ phase \in {"open", "running"}
        /\ caller = [c \in Callers |-> "idle"]

\* The owner itself begins the first attempt.
Begin == /\ phase = "open"
         /\ phase' = "running"
         /\ UNCHANGED caller

\* A caller asks: it begins an attempt unless one runs, or none is needed.
Ask(c) == /\ caller[c] = "idle"
          /\ phase' = IF phase = "confirmed" THEN "confirmed" ELSE "running"
          /\ caller' = [caller EXCEPT ![c] = IF phase = "confirmed" THEN "ok" ELSE "waiting"]

Told(know) == [c \in Callers |-> IF caller[c] = "waiting" THEN know ELSE caller[c]]

Succeed == phase = "running" /\ phase' = "confirmed" /\ caller' = Told("ok")
Fail == phase = "running" /\ phase' = "failed" /\ caller' = Told("error")

GiveUp(c) == /\ caller[c] = "waiting"
             /\ caller' = [caller EXCEPT ![c] = "gone"]
             /\ UNCHANGED phase

Next == Begin \/ Succeed \/ Fail \/ \E c \in Callers : Ask(c) \/ GiveUp(c)

Spec == Init /\ [][Next]_vars
=============================================================================
