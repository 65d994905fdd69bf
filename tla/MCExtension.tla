----------------------------- MODULE MCExtension -----------------------------
(* The instance of Extension for TLC. *)
EXTENDS Extension

MCOutputEvents == {"tool.result"}

Returned(sets, adds, data, block) ==
    [sets |-> sets, adds |-> adds, data |-> data, block |-> block]

\* A rewrite of the output, a block with one, and a rewrite of the input with a message
\* and a falsy block.
MCResults ==
    {Returned({"output"}, {}, TRUE, "absent"),
     Returned({"output"}, {"disable"}, FALSE, "truthy"),
     Returned({"input", "message"}, {"followUps", "disable"}, FALSE, "falsy")}

MCPriorities == {-1, 1}
MCTimeouts == {None, 0, 5, 9}

\* Handlers of no to three parameters, and small ones that take others by default.
PlainHandler == [required |-> 2, optional |-> 0]
MCSignatures ==
    [required : 0 .. 3, optional : {0}] \cup [required : {0}, optional : 1 .. 2]
        \cup {[required |-> 1, optional |-> 1]}

\* Chords under two names and orders, and some that are refused.
MCShortcuts ==
    {<<"ctrl", "a">>, <<"a", "control">>, <<"ctrl", "alt", "a">>, <<"option", "control", "a">>,
     <<"alt", "i">>, <<"ctrl", "i">>, <<"alt", "5">>, <<"ctrl", "5">>, <<"f5">>, <<"alt", "f5">>,
     <<"a">>, <<"ctrl", "control", "a">>, <<"shift", "a">>, <<"ctrl", "alt">>}

MCMixes == {{"events"}, {"commands"}, {"tools", "profiles"}, {"shortcuts"}}

\* Bounds: events are handled without hints and for the simplest host, by three handlers
\* only where all are of one event, and one handler changes values in place; two commands
\* have up to two aliases together, and of two commands, or one with aliases, the handlers
\* are plain; a command with aliases is called after another was registered too.
OneThing ==
    /\ state # "idle" =>
          /\ submit # FALSE
          /\ \A i \in DOMAIN handlers : handlers[i].timeout = None
          /\ Len(handlers) > 2 => \A i \in DOMAIN handlers : handlers[i].event = handlers[1].event
    /\ Cardinality(UNION {tool[f].edits : f \in {g \in ToolFields : tool[g] # None}}) <= 1
    /\ (\E i \in DOMAIN commands : i > 1 \/ commands[i].aliases # <<>>) =>
          \A i \in DOMAIN commands : commands[i].handler = PlainHandler
    /\ Len(commands) = 1 /\ call.state # "idle" => commands[1].aliases = <<>>
    /\ Len(commands) = 2 => Len(commands[1].aliases) + Len(commands[2].aliases) <= 2
=============================================================================
