--------------------------- MODULE MCExtensionRelay ---------------------------
(* The instance of ExtensionRelay for TLC. *)
EXTENDS ExtensionRelay

CONSTANT First

\* A bound: one channel where a session other than the first is named.
OneSession == Sessions \cap ({bound, created} \cup {session[k] : k \in Keys}) # {First} =>
    \A j, k \in Keys : starts[j] > 0 /\ starts[k] > 0 => j = k
=============================================================================
