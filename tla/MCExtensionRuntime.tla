------------------------- MODULE MCExtensionRuntime -------------------------
(* Instances of ExtensionRuntime for TLC. *)
EXTENDS ExtensionRuntime, TLC

\* Ids, generations, calls and notices are interchangeable.
Symmetry == Permutations(Ids) \cup Permutations(Generations)
            \cup Permutations(Calls) \cup Permutations(Notices)

\* State constraints.  With a call, close() comes before a second generation is accepted:
\* also while the reader is about to accept it.  Without one it comes at any moment.
CallOrClose ==
    \/ ~dispClosed
    \/ \A c \in Calls : at[c] = "idle"
    \/ SomeGenerationLeft

\* One request sends its response with a call or with a notice.
CallOrNotice == \/ \A c \in Calls : at[c] = "idle"
                \/ \A n \in Notices : at[n] = "idle"
=============================================================================
