------------------------------ MODULE Extension ------------------------------
(***************************************************************************)
(* An extension (api.py): its event handlers (EventAggregation) and its    *)
(* tools, commands and shortcuts (ExtensionRegistry), which one            *)
(* initialize() makes known to the host, and the host's calls, which come  *)
(* in any order and while an event is being handled.                       *)
(***************************************************************************)
EXTENDS EventAggregation

CONSTANTS Mixes,     \* bound: which kinds of things one extension registers
          Tools, Words, Forms, Signatures, Shortcuts, Letters, Digits, FunctionKeys,
          MaxCommands, MaxShortcuts

ASSUME RegistryAssumption ==
    /\ Forms \subseteq {"bare", "slash", "slashBlank"}
    /\ \A s \in Signatures : {s.required, s.optional} \subseteq Nat
    /\ Shortcuts \subseteq Seq(STRING)
    /\ None \notin Shortcuts /\ None \notin Signatures
    /\ MaxCommands \in Nat

VARIABLES uses, tools, commands, byName, shortcuts, profiles, submit, advertised, call

Registry == INSTANCE ExtensionRegistry

registryVars == <<tools, commands, byName, shortcuts, profiles, submit, advertised, call>>
extensionVars == <<uses, eventVars, registryVars>>

ExtensionInit == uses \in Mixes /\ EventInit /\ Registry!Init

\* initialize() answers with both tables.
ExtensionInitialize(remote, takesSubmit) ==
    Initialize /\ Registry!Initialize(remote, takesSubmit) /\ UNCHANGED uses

EventNext == "events" \in uses /\ (Registers \/ Handles) /\ UNCHANGED <<uses, registryVars>>

RegistryNext ==
    /\ \/ "tools" \in uses /\ Registry!ToolNext
       \/ "commands" \in uses /\ Registry!CommandNext
       \/ "shortcuts" \in uses /\ Registry!ShortcutNext
       \/ "profiles" \in uses /\ Registry!RegisterProfile
       \/ Registry!RunNext
    /\ UNCHANGED <<uses, eventVars>>

ExtensionNext ==
    \/ EventNext \/ RegistryNext
    \/ \E remote, takesSubmit \in BOOLEAN : ExtensionInitialize(remote, takesSubmit)

ExtensionSpec == ExtensionInit /\ [][ExtensionNext]_extensionVars

-----------------------------------------------------------------------------
(* Properties *)

\* What is registered is found under the names that were told to the host, and run with
\* what its signature takes, once unless its own TypeError looks like one of the call;
\* the exceptions that the code makes are part of the properties of ExtensionRegistry
\* (api.py:577-720, 860-943, 1149-1168).
RegisteredIsReached == Registry!RegistryInv
=============================================================================
