--------------------------- MODULE ExtensionRegistry ---------------------------
(***************************************************************************)
(* What an extension registers (api.py), what initialize() tells the host  *)
(* of it, and how the host's calls find and run the handlers: tools,       *)
(* commands with aliases, and shortcuts.                                   *)
(*                                                                         *)
(* A command name is a word in the form it was written in: bare, after a   *)
(* slash, after a slash and a blank, or after a blank; the word None is    *)
(* the empty one.  A shortcut is the sequence of the parts between its     *)
(* plus signs, in lower case.  A handler is its signature: the positional  *)
(* parameters it requires and those it has defaults for.                   *)
(***************************************************************************)
EXTENDS Integers, Sequences, FiniteSets, Functions, SequencesExt

CONSTANTS
    Tools, Words, Forms, Signatures, None,
    Shortcuts,                        \* the ways of writing one, as sequences of parts
    Letters, Digits, FunctionKeys,    \* the parts that are not modifiers
    MaxCommands, MaxShortcuts         \* bounds on registrations

VARIABLES
    tools,       \* _tools: the handler of a name
    commands,    \* _command_registrations
    byName,      \* _commands_by_name: the index of the command
    shortcuts,   \* _shortcuts: what was written for a key
    profiles,    \* some profile is declared
    submit,      \* _init_params: None, or whether the host takes submit results
    advertised,  \* history variable: the number of commands told to the host
    call         \* the call being served

tableVars == <<tools, commands, byName, shortcuts, profiles>>
hostVars == <<submit, advertised>>
vars == <<tableVars, hostVars, call>>

Written == [form : Forms, word : Words]
Names == [form : {"bare", "slash", "slashBlank", "blank"}, word : Words]
Keys == UNION {[1 .. n -> {"ctrl", "alt"} \cup Letters \cup Digits \cup FunctionKeys] : n \in 1 .. 3}
Outcomes == {"value", "nothing", "unknown", "invalid", "pass", "error", "typeError", "unsupported"}

Idle == [state |-> "idle"]

TypeOK ==
    /\ tools \in [Tools -> Signatures \cup {None}]
    /\ \A i \in DOMAIN commands :
          /\ commands[i].primary \in Names
          /\ commands[i].aliases \in Seq(Written)
          /\ commands[i].handler \in Signatures
    /\ Len(commands) =< MaxCommands
    /\ byName \in [Names -> DOMAIN commands \cup {None}]
    /\ DOMAIN shortcuts \subseteq Keys /\ \A k \in DOMAIN shortcuts : shortcuts[k] \in Shortcuts
    /\ profiles \in BOOLEAN /\ submit \in BOOLEAN \cup {None} /\ advertised \in Nat
    /\ call.state \in {"idle", "calling", "answered"}
    /\ call.state = "calling" => call.arguments \in 0 .. 2
    /\ call.state = "answered" => call.outcome \in Outcomes

Init ==
    /\ tools = [n \in Tools |-> None]
    /\ commands = <<>> /\ byName = [n \in Names |-> None]
    /\ shortcuts = [k \in {} |-> None]
    /\ profiles = FALSE /\ submit = None /\ advertised = 0
    /\ call = Idle

-----------------------------------------------------------------------------
(* Registration: a call that raises changes nothing *)

RegisterTool(n, handler) ==
    /\ tools[n] = None
    /\ tools' = [tools EXCEPT ![n] = handler]
    /\ UNCHANGED <<commands, byName, shortcuts, profiles, hostVars, call>>

\* strip() and then lstrip("/"): a blank that follows the slash stays, unless it is
\* the last character.
NormalizeCommand(name) ==
    [name EXCEPT !.form = IF @ = "slashBlank" /\ name.word # None THEN "blank" ELSE "bare"]

\* An empty alias is passed over.
CommandNames(name, aliases) ==
    {name} \cup {NormalizeCommand(aliases[i]) : i \in {j \in DOMAIN aliases : aliases[j].word # None}}

\* An alias that is the name itself is passed over too, one that is given twice is not.
AreDistinct(primary, aliases) ==
    \A i, j \in DOMAIN aliases :
        /\ i < j /\ aliases[i].word # None
        /\ NormalizeCommand(aliases[i]) = NormalizeCommand(aliases[j])
        => NormalizeCommand(aliases[i]) = NormalizeCommand(primary)

\* Mutant: the names are entered one by one, up to the first that is taken.
RegisterCommandPartly(primary, aliases, handler) ==
    LET name == NormalizeCommand(primary)
        entered == {n \in CommandNames(name, aliases) : byName[n] = None}
    IN
    /\ Len(commands) < MaxCommands
    /\ AreDistinct(primary, aliases) /\ byName[name] = None
    /\ commands' = Append(commands, [primary |-> name, aliases |-> aliases, handler |-> handler])
    /\ byName' = [n \in Names |-> IF n \in entered THEN Len(commands) + 1 ELSE byName[n]]
    /\ UNCHANGED <<tools, shortcuts, profiles, hostVars, call>>

RegisterCommand(primary, aliases, handler) ==
    LET name == NormalizeCommand(primary)
        names == CommandNames(name, aliases)
    IN
    /\ Len(commands) < MaxCommands
    /\ AreDistinct(primary, aliases) /\ \A n \in names : byName[n] = None
    /\ commands' = Append(commands, [primary |-> name, aliases |-> aliases, handler |-> handler])
    /\ byName' = [n \in Names |-> IF n \in names THEN Len(commands) + 1 ELSE byName[n]]
    /\ UNCHANGED <<tools, shortcuts, profiles, hostVars, call>>

Canonical(part) ==
    CASE part = "control" -> "ctrl" [] part = "option" -> "alt" [] OTHER -> part

\* The key of a shortcut, <<>> when it is refused: one part that is no modifier,
\* modifiers once each, and a combination that a terminal reports.
NormalizeShortcut(written) ==
    LET parts == [i \in DOMAIN written |-> Canonical(written[i])]
        modifiers == ToSet(parts) \cap {"ctrl", "alt"}
        bases == ToSet(parts) \ {"ctrl", "alt"}
        base == CHOOSE b \in bases : TRUE
        reported ==
            \/ base \in FunctionKeys /\ modifiers = {}
            \/ /\ base \in Letters /\ modifiers # {}
               /\ ~ ("ctrl" \in modifiers /\ base \in {"i", "m"})
            \/ base \in Digits /\ modifiers = {"alt"}
    IN IF IsInjective(parts) /\ (\E b \in bases : bases = {b}) /\ reported
       THEN (IF "ctrl" \in modifiers THEN <<"ctrl">> ELSE <<>>)
                \o (IF "alt" \in modifiers THEN <<"alt">> ELSE <<>>) \o <<base>>
       ELSE <<>>

RegisterShortcut(written) ==
    LET key == NormalizeShortcut(written) IN
    /\ Cardinality(DOMAIN shortcuts) < MaxShortcuts
    /\ key # <<>> /\ key \notin DOMAIN shortcuts
    /\ shortcuts' = [k \in DOMAIN shortcuts \cup {key} |-> IF k = key THEN written ELSE shortcuts[k]]
    /\ UNCHANGED <<tools, commands, byName, profiles, hostVars, call>>

RegisterProfile ==
    /\ profiles' = TRUE
    /\ UNCHANGED <<tools, commands, byName, shortcuts, hostVars, call>>

\* The host initializes the extension; a host without remote profiles is refused
\* an extension that has some.
Initialize(remote, takesSubmit) ==
    /\ submit = None
    /\ profiles => remote
    /\ submit' = takesSubmit /\ advertised' = Len(commands)
    /\ UNCHANGED <<tableVars, call>>

-----------------------------------------------------------------------------
(* Calls of the host *)

NotCalled(outcome) ==
    [state |-> "answered", outcome |-> outcome, handler |-> None, runs |-> <<>>]
\* runs is how each run of the body ended.
Answered(c, outcome) ==
    [state |-> "answered", outcome |-> outcome, handler |-> c.handler,
     arguments |-> c.arguments, runs |-> c.runs]
Calling(kind, handler, arguments, runs) ==
    [state |-> "calling", kind |-> kind, handler |-> handler, arguments |-> arguments, runs |-> runs]

MayCall == call.state # "calling" /\ submit # None

ExecuteTool(n, valid) ==
    /\ MayCall
    /\ call' = IF tools[n] = None THEN NotCalled("unknown")
               ELSE IF ~ valid THEN NotCalled("invalid")
               ELSE Calling("tool", tools[n], 2, <<>>)
    /\ UNCHANGED <<tableVars, hostVars>>

\* A command whose input is refused passes the route on.
ExecuteCommand(written, valid) ==
    LET found == byName[NormalizeCommand(written)] IN
    /\ MayCall
    /\ call' = IF found = None THEN NotCalled("unknown")
               ELSE IF ~ valid THEN NotCalled("pass")
               ELSE Calling("command", commands[found].handler, 2, <<>>)
    /\ UNCHANGED <<tableVars, hostVars>>

\* The handler of a shortcut takes the context and nothing else.
ExecuteShortcut(written) ==
    LET key == NormalizeShortcut(written) IN
    /\ MayCall
    /\ call' = IF key \notin DOMAIN shortcuts THEN NotCalled("unknown")
               ELSE Calling("shortcut", [required |-> 1, optional |-> 0], 1, <<>>)
    /\ UNCHANGED <<tableVars, hostVars>>

Takes(handler, n) == n \in handler.required .. handler.required + handler.optional

Result(kind, value) ==
    IF kind = "command" /\ value = "nothing" THEN "pass"
    ELSE IF kind = "shortcut" /\ value = "value" /\ ~ submit THEN "unsupported"
    ELSE value

\* Mutant: a call that was repeated is repeated again.
RetriesEveryTime(c) == c.handler.required < 2

\* A TypeError of a call with both arguments is taken for the wrong number of them
\* when fewer than two parameters are required.
Retries(c) == c.arguments = 2 /\ c.handler.required < 2

AfterTypeError(c) ==
    IF Retries(c) THEN Calling(c.kind, c.handler, c.handler.required, c.runs)
    ELSE Answered(c, "typeError")

\* The body of the handler runs.
Body(value) ==
    /\ call.state = "calling" /\ Takes(call.handler, call.arguments)
    /\ LET ran == [call EXCEPT !.runs = Append(@, value)] IN
       call' = IF value = "typeError" THEN AfterTypeError(ran)
               ELSE Answered(ran, Result(ran.kind, value))
    /\ UNCHANGED <<tableVars, hostVars>>

\* The arguments do not fit and the body does not run.
WrongArguments ==
    /\ call.state = "calling" /\ ~ Takes(call.handler, call.arguments)
    /\ call' = AfterTypeError(call)
    /\ UNCHANGED <<tableVars, hostVars>>

\* What the program and the host do with tools, commands and shortcuts.
ToolNext ==
    \E n \in Tools : \/ \E h \in Signatures : RegisterTool(n, h)
                     \/ \E valid \in BOOLEAN : ExecuteTool(n, valid)

CommandNext ==
    \E written \in Written :
        \/ \E aliases \in SeqOf(Written, 2), h \in Signatures : RegisterCommand(written, aliases, h)
        \/ \E valid \in BOOLEAN : ExecuteCommand(written, valid)

ShortcutNext == \E written \in Shortcuts : RegisterShortcut(written) \/ ExecuteShortcut(written)

RunNext ==
    \/ \E value \in {"value", "nothing", "error", "typeError"} : Body(value)
    \/ WrongArguments

-----------------------------------------------------------------------------
(* Properties *)

\* The two tables of commands agree: a registered command has its name and all of its
\* aliases, and a name leads to a command that was registered with it.  A registration
\* that is refused for one alias leaves none of its names behind (api.py:605-628).
NamesBelongToTheirCommand ==
    /\ \A i \in DOMAIN commands :
          \A n \in CommandNames(commands[i].primary, commands[i].aliases) : byName[n] = i
    /\ \A n \in Names : byName[n] # None =>
          n \in CommandNames(commands[byName[n]].primary, commands[byName[n]].aliases)

\* How the host may write a name that it was told of and reach its command.  What was
\* told with a blank after the slash is found only so; a primary name is told without
\* its slash, and with such a blank it is found only when the host writes the slash.
Spellings(name) == IF name.form \in {"bare", "slash"} THEN {"bare", "slash"} ELSE {"slashBlank"}

\* A name or alias that the host was told of leads to the command that was told with
\* it, bare and after a slash ("Leading slashes are accepted and normalized away for
\* dispatch", api.py:584-585; 815-818, 877-880).  Two exceptions are in the code: a
\* name with a blank after its slash is not found without them (_utils.py:36), and an
\* alias that is only a slash is told, but leads nowhere (api.py:605-611).
AdvertisedNamesDispatch ==
    \A i \in 1 .. advertised :
        LET told == {alias \in ToSet(commands[i].aliases) : alias.word # None} IN
        \A name \in {commands[i].primary} \cup told : \A form \in Spellings(name) :
            byName[NormalizeCommand([name EXCEPT !.form = form])] = i

Count(written, part) == Cardinality({i \in DOMAIN written : Canonical(written[i]) = part})
SameChord(v, w) ==
    \A part \in {Canonical(p) : p \in ToSet(v) \cup ToSet(w)} : Count(v, part) = Count(w, part)

\* The host may name the chord of a shortcut in any order of its modifiers and under
\* either of their names, and reaches the handler that was registered for it; no other
\* chord reaches it (api.py:696-703, 912-915, 1217-1283).
ChordsReachTheirHandler ==
    \A k \in DOMAIN shortcuts : \A v \in Shortcuts :
        SameChord(v, shortcuts[k]) = (NormalizeShortcut(v) = k)

\* The call was repeated, and left out parameters that have defaults: only those without
\* are counted (api.py:1155-1167).
Shortened(c) ==
    c.handler.required < 2 /\ c.handler.optional > 0 /\ c.arguments = c.handler.required

\* A handler that requires up to two parameters is run by a call that finds it, and only
\* one that requires more is not ("Allow zero/one-argument handlers", api.py:1149-1168).
\* It is given as many of the input and the context as it takes, except where the call
\* was repeated with fewer: since it does not take both, or after its own TypeError.
SmallHandlersRun ==
    call.state = "answered" /\ call.handler # None =>
        /\ call.runs = <<>> <=> call.handler.required > 2
        /\ call.runs # <<>> =>
              \/ LET most == call.handler.required + call.handler.optional IN
                 call.arguments = IF most < 2 THEN most ELSE 2
              \/ Shortened(call) /\ (Takes(call.handler, 2) => Len(call.runs) = 2)

\* The body of a handler runs once for a call.  The one exception is a body that raised
\* a TypeError of its own, though its handler takes both arguments, and requires fewer:
\* it is run a second time, without the parameters that have defaults, and never a
\* third.  The code means to exclude it ("avoid hiding TypeErrors raised from inside the
\* handler body when the signature actually accepts two args", api.py:1152-1153), but
\* asks only for the parameters that are required (api.py:1160-1167).
RunsAgainOnlyAfterTypeError ==
    call.state # "idle" =>
        \/ Len(call.runs) =< 1
        \/ /\ Len(call.runs) = 2 /\ call.runs[1] = "typeError"
           /\ Takes(call.handler, 2) /\ Shortened(call)

\* The tables, what the host was told of them, and the calls agree
\* (api.py:577-720, 860-943, 1149-1168).
RegistryInv ==
    /\ TypeOK
    /\ NamesBelongToTheirCommand /\ AdvertisedNamesDispatch /\ ChordsReachTheirHandler
    /\ SmallHandlersRun /\ RunsAgainOnlyAfterTypeError
=============================================================================
