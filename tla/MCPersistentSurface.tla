------------------------- MODULE MCPersistentSurface -------------------------
(* The instance of PersistentSurface for TLC. *)
EXTENDS PersistentSurface, FiniteSets

Updated == {h \in Handles : version[h] > 0}
Closing == {c \in Closers : closer[c].at # "idle"}
Opened == {h \in Handles : opening[h] # "new"}

\* Bounds: events without frames, calls of close() or a second handle; and a second
\* handle with one update and one close() in all.
OneThing ==
    /\ (emitted # <<>> \/ handlers # {}) =>
          Updated = {} /\ Closing = {} /\ Opened \subseteq {Watched}
    /\ Cardinality(Opened) > 1 =>
          Cardinality(Closing) <= 1 /\ Cardinality(Updated) <= 1 /\ \A h \in Handles : version[h] <= 1
=============================================================================
