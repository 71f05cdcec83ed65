------------------------------ MODULE AddonHost ------------------------------
(***************************************************************************)
(* The addon host: the plugin class Addons (dictionary of loaded addons,   *)
(* registry of addon commands, hook callbacks, /addon command) together    *)
(* with the class Addon (life cycle of one Lua state).                     *)
(*                                                                         *)
(* Every entry point takes the re-entrant monitor m_AddonsLock and keeps   *)
(* it until it returns, so what runs under the lock is one call stack,     *)
(* `stack`: host frames (a handler of Addons, suspended while a script it  *)
(* called is running) and script frames (Lua code of an addon).  A script  *)
(* may call back into the host on the same thread, because sending a       *)
(* packet raises hooks again; that pushes a host frame on the script       *)
(* frame.  The lock is free exactly when the stack is empty.  Only         *)
(* `config` (/addon reloadcfg) and `chat` (other plugins) are written      *)
(* without the lock.                                                       *)
(*                                                                         *)
(* Abstractions.  An addon object is named by its key in the dictionary    *)
(* (the lower-case folder name).  A chat command has one alias.  A list of *)
(* commands is a set: RegisterCommand keeps it free of duplicates.         *)
(* Permissions, the arguments of hooks and what callbacks and scripts      *)
(* write into them (args.Handled) are left out; of the messages to players *)
(* only those in the middle of an unload are kept, because sending them    *)
(* raises hooks.  A dictionary entry added while a dispatch enumerates the *)
(* dictionary is not visited by that dispatch.  Finalizers that a script   *)
(* gives to its own tables do not call the host from inside Release.       *)
(***************************************************************************)
EXTENDS Naturals, Sequences, FiniteSets

CONSTANTS
    Keys,            \* keys of m_Addons
    NoKey,           \* "no addon"
    Names,           \* command names as scripts spell them
    Lower,           \* Lower[n] is n.ToLower()
    Plugins,         \* the other owners of chat commands: TShock, other plugins
    VotingHooks,     \* hooks whose callback inspects the values scripts return
    PlainHooks,      \* hooks whose callback ignores them
    MaxDepth,        \* bound on the depth of the call stack
    LatePlugins,     \* TRUE: another plugin may add chat commands at any time
    ScriptsManage,   \* TRUE: a script may issue /addon and chat commands itself
    DisposeMayThrow, \* TRUE: disposing a Lua state may raise an exception
    PacketsMayThrow  \* TRUE: sending a message to a player may raise one

ASSUME NoKeyAssumption   == NoKey \notin Keys
ASSUME LowerAssumption   == /\ Lower \in [Names -> Names]
                            /\ \A n \in Names : Lower[Lower[n]] = Lower[n]
ASSUME DepthAssumption   == MaxDepth \in Nat
ASSUME SwitchAssumption  == {LatePlugins, ScriptsManage, DisposeMayThrow, PacketsMayThrow}
                                \subseteq BOOLEAN
ASSUME HookAssumption    == {"load", "unload", "GamePostUpdate"}
                               \cap (VotingHooks \cup PlainHooks) = {}

Commands == {Lower[n] : n \in Names}
Events   == {"load", "unload", "GamePostUpdate"} \cup VotingHooks \cup PlainHooks
States   == {"Error", "Ok", "Loading", "Released"}
Configs  == {"auto", "manual", "null"}

\* The plugin's own commands in Commands.ChatCommands are marked Self.
Self == "addons"
Callback(c) == [alias |-> c, by |-> Self]
ChatCommand == [alias : Commands, by : Plugins \cup {Self}]
ASSUME SelfAssumption == Self \notin Plugins

VARIABLES
    loaded,      \* the keys of m_Addons
    state,       \* state[k]: State of the Addon object of k
    lua,         \* lua[k]: its LuaState is not null
    events,      \* events[k]: the keys of its Lua table __addon_events
    callbacks,   \* callbacks[k]: the keys of its Lua table __addon_commands
    owned,       \* owned[k]: m_AddonCommands[k], {} when there is no entry
    chat,        \* Commands.ChatCommands
    config,      \* Configuration.AutoReloadAddons; "null": no object at all
    stack,       \* what runs under m_AddonsLock
    freed        \* the positions in the stack of scripts whose Lua state was
                 \* disposed or replaced beneath them

addonVars == <<state, lua, events, callbacks, freed>>
vars == <<loaded, state, lua, events, callbacks, owned, chat, config, stack, freed>>

-----------------------------------------------------------------------------
(* Frames *)

ScriptKinds == {"main", "event", "command"}
ManageKinds == {"tick", "load", "unload", "unloadall", "reload", "dispose"}
HostKinds   == ManageKinds \cup {"hook"}
Places      == {"run", "visit", "scan", "reload", "init", "add", "release", "notify", "reinit", "end"}

\* key: the addon a frame works on, NoKey while it works on none.  at: where a
\* host frame continues.  todo: the addons an enumeration has still to visit.
\* hook: the hook a dispatch serves.
WorksOnAddon(f) == \/ f.kind \in ScriptKinds \cup {"load", "unload", "reload"}
                   \/ f.at \in {"init", "release", "notify", "add", "reinit", "end"}
Frame == {f \in [kind : ScriptKinds \cup HostKinds, key : Keys \cup {NoKey}, at : Places,
                 todo : SUBSET Keys, hook : Events] :
             WorksOnAddon(f) => f.key \in Keys}

HostFrame(kind, k, at, todo, e) ==
    [kind |-> kind, key |-> k, at |-> at, todo |-> todo, hook |-> e]
ScriptFrame(kind, k) == HostFrame(kind, k, "run", {}, "load")

Depth   == Len(stack)
Top     == stack[Depth]
Pop     == SubSeq(stack, 1, Depth - 1)
GoTo(at) == [stack EXCEPT ![Depth].at = at]

TopIs(kinds, at) == Depth > 0 /\ Top.kind \in kinds /\ Top.at = at

\* A script is on top, and it is still that of its addon: its Lua state was
\* neither disposed nor replaced.
ScriptOnTop == Depth > 0 /\ Top.kind \in ScriptKinds
Running == ScriptOnTop /\ lua[Top.key] /\ Depth \notin freed

\* The script frames of k among the n lowest frames.
ScriptsOf(k, n) == {i \in 1..n : stack[i].kind \in ScriptKinds /\ stack[i].key = k}

\* A chat command reaches the host: the lock is free, or the running script
\* issued the command itself.
CommandEntry == Depth = 0 \/ (ScriptsManage /\ Running /\ Depth < MaxDepth)

\* No frame works for k.
Idle(k) == \A i \in 1..Depth : stack[i].key # k
-----------------------------------------------------------------------------
(* Helpers of the handlers *)

\* Addon.InvokeEvent: the call stack once event e of k has been looked up.
InvokeEvent(rest, k, e) ==
    IF state[k] = "Ok" /\ lua[k] /\ e \in events[k]
    THEN Append(rest, ScriptFrame("event", k))
    ELSE rest

\* What Addon.Release may leave behind, for an Addon object in state s
\* afterwards, when the n lowest frames stay.  Its catch clause keeps the Lua
\* state.
Release(k, s, n) ==
    \/ /\ state'     = [state EXCEPT ![k] = s]
       /\ lua'       = [lua EXCEPT ![k] = FALSE]
       /\ events'    = [events EXCEPT ![k] = {}]
       /\ callbacks' = [callbacks EXCEPT ![k] = {}]
       /\ freed'     = (freed \cap 1..n) \cup ScriptsOf(k, n)
    \/ /\ DisposeMayThrow /\ lua[k]
       /\ state' = [state EXCEPT ![k] = "Error"]
       /\ freed' = freed \cap 1..n
       /\ UNCHANGED <<lua, events, callbacks>>

\* Addon.Initialize up to the call of the script: a new Lua state.
NewLuaState(k) ==
    /\ state'     = [state EXCEPT ![k] = "Loading"]
    /\ lua'       = [lua EXCEPT ![k] = TRUE]
    /\ events'    = [events EXCEPT ![k] = {}]
    /\ callbacks' = [callbacks EXCEPT ![k] = {}]
    /\ freed'     = freed \cup ScriptsOf(k, Depth)

\* RegisterCommand: nobody owns command c yet.  (mutant: only k's own entry is
\* searched)
UnownedByCaller(c) == c \notin owned[Top.key]
Unowned(c) == \A k \in Keys : c \notin owned[k]

\* RegisterCommand: the chat commands without those that answer to c.
\* (mutant: only commands of the plugin itself are erased)
EraseOwn(c) == chat \ {Callback(c)}
Erase(c) == {x \in chat : x.alias # c}

Ambiguous(c) == \E x, y \in chat : x # y /\ x.alias = c /\ y.alias = c

\* Addons.RemoveAddonCommands, to its end...  (mutant: the entry is kept)
RemoveChatCommands(k) ==
    /\ chat'  = {x \in chat : x.alias \notin owned[k]}
    /\ UNCHANGED owned

RemoveAddonCommands(k) ==
    /\ \A c \in owned[k] : ~Ambiguous(c)
    /\ chat'  = {x \in chat : x.alias \notin owned[k]}
    /\ owned' = [owned EXCEPT ![k] = {}]

\* ...or left by the exception of SingleOrDefault at an ambiguous command,
\* after the commands `done` were taken out of the chat commands.
RemoveAddonCommandsThrows(k) ==
    /\ \E c \in owned[k] : Ambiguous(c)
    /\ \E done \in SUBSET {c \in owned[k] : ~Ambiguous(c)} :
          chat' = {x \in chat : x.alias \notin done}
    /\ UNCHANGED owned
-----------------------------------------------------------------------------
(* Hooks: the On... callbacks of Addons *)

Dispatch(kind, h) ==
    /\ stack' = Append(stack, HostFrame(kind, NoKey, "visit", loaded, h))
    /\ UNCHANGED <<loaded, addonVars, owned, chat, config>>

\* A hook is raised by the game when the lock is free, by what the running
\* script does (SendPacket, NetMessage.SendData), or by the message to the
\* player whose /addon command has just released an addon.
HookEntry == \/ Depth = 0
             \/ Depth < MaxDepth /\ (Running \/ TopIs({"unload", "unloadall"}, "notify"))
HookBegin(h) == HookEntry /\ Dispatch("hook", h)

\* OnGamePostUpdate: raised by the game loop only.  (mutant: a script can
\* raise it, too)
TickFromScript == HookEntry /\ Dispatch("tick", "GamePostUpdate")
TickBegin == Depth = 0 /\ Dispatch("tick", "GamePostUpdate")

\* The enumeration reaches one more addon.
Visit(k) ==
    /\ TopIs({"hook", "tick"}, "visit")
    /\ k \in Top.todo
    /\ LET rest == [stack EXCEPT ![Depth].todo = @ \ {k}]
       IN  stack' = IF k \in loaded THEN InvokeEvent(rest, k, Top.hook) ELSE rest
    /\ UNCHANGED <<loaded, addonVars, owned, chat, config>>

HookEnd ==
    /\ TopIs({"hook"}, "visit")
    /\ Top.todo = {}
    /\ stack' = Pop
    /\ UNCHANGED <<loaded, addonVars, owned, chat, config>>

\* (mutant of TickScan: the switch is read the wrong way round)
TickScanManual ==
    /\ TopIs({"tick"}, "visit")
    /\ Top.todo = {}
    /\ stack' = IF config = "manual"
                THEN [stack EXCEPT ![Depth].at = "reload", ![Depth].todo = loaded]
                ELSE Pop
    /\ UNCHANGED <<loaded, addonVars, owned, chat, config>>

\* OnGamePostUpdate after the dispatch: the configuration is read here.  A
\* null configuration raises an exception, which leaves the callback.
TickScan ==
    /\ TopIs({"tick"}, "visit")
    /\ Top.todo = {}
    /\ stack' = IF config = "auto"
                THEN [stack EXCEPT ![Depth].at = "reload", ![Depth].todo = loaded]
                ELSE Pop
    /\ UNCHANGED <<loaded, addonVars, owned, chat, config>>

\* One addon of the lazy Where(State == Error): Reload, then InvokeEvent("load").
TickReload(k) ==
    /\ TopIs({"tick"}, "reload")
    /\ k \in Top.todo \cap loaded
    /\ state[k] = "Error"
    /\ NewLuaState(k)
    /\ stack' = Append([stack EXCEPT ![Depth].at = "init", ![Depth].key = k,
                                     ![Depth].todo = @ \ {k}],
                       ScriptFrame("main", k))
    /\ UNCHANGED <<loaded, owned, chat, config>>

TickSkip(k) ==
    /\ TopIs({"tick"}, "reload")
    /\ k \in Top.todo
    /\ k \notin loaded \/ state[k] # "Error"
    /\ stack' = [stack EXCEPT ![Depth].todo = @ \ {k}]
    /\ UNCHANGED <<loaded, addonVars, owned, chat, config>>

TickOnLoad ==
    /\ TopIs({"tick"}, "init")
    /\ stack' = InvokeEvent([stack EXCEPT ![Depth].at = "reload", ![Depth].key = NoKey],
                            Top.key, "load")
    /\ UNCHANGED <<loaded, addonVars, owned, chat, config>>

TickEnd ==
    /\ TopIs({"tick"}, "reload")
    /\ Top.todo = {}
    /\ stack' = Pop
    /\ UNCHANGED <<loaded, addonVars, owned, chat, config>>
-----------------------------------------------------------------------------
(* LoadAddon: Initialize the object, InvokeEvent("load"), then TryAdd *)

LoadBegin(k) ==
    /\ CommandEntry
    /\ k \notin loaded
    /\ Idle(k)      \* bound: one Addon object for a key at a time
    /\ NewLuaState(k)
    /\ stack' = stack \o <<HostFrame("load", k, "init", {}, "load"), ScriptFrame("main", k)>>
    /\ UNCHANGED <<loaded, owned, chat, config>>

LoadInitialized ==
    /\ TopIs({"load"}, "init")
    /\ stack' = IF state[Top.key] = "Ok" THEN InvokeEvent(GoTo("add"), Top.key, "load")
                                         ELSE Pop
    /\ UNCHANGED <<loaded, addonVars, owned, chat, config>>

LoadAdd ==
    /\ TopIs({"load"}, "add")
    /\ loaded' = loaded \cup {Top.key}
    /\ stack' = Pop
    /\ UNCHANGED <<addonVars, owned, chat, config>>
-----------------------------------------------------------------------------
(* /addon unload, /addon unloadall, /addon reload, Dispose *)

UnloadBegin(k) ==
    /\ CommandEntry
    /\ k \in loaded
    /\ loaded' = loaded \ {k}
    /\ stack' = InvokeEvent(Append(stack, HostFrame("unload", k, "release", {}, "load")),
                            k, "unload")
    /\ UNCHANGED <<addonVars, owned, chat, config>>

UnloadAllBegin ==
    /\ CommandEntry
    /\ stack' = Append(stack, HostFrame("unloadall", NoKey, "visit", loaded, "load"))
    /\ UNCHANGED <<loaded, addonVars, owned, chat, config>>

\* (mutant of UnloadAllVisit: TryGetValue where TryRemove is meant)
UnloadAllKeeps(k) ==
    /\ TopIs({"unloadall"}, "visit")
    /\ k \in Top.todo
    /\ stack' = InvokeEvent([stack EXCEPT ![Depth].at = "release", ![Depth].key = k,
                                          ![Depth].todo = @ \ {k}],
                            k, "unload")
    /\ UNCHANGED <<loaded, addonVars, owned, chat, config>>

UnloadAllVisit(k) ==
    /\ TopIs({"unloadall"}, "visit")
    /\ k \in Top.todo
    /\ loaded' = loaded \ {k}
    /\ stack' = IF k \notin loaded THEN [stack EXCEPT ![Depth].todo = @ \ {k}]
                ELSE InvokeEvent([stack EXCEPT ![Depth].at = "release", ![Depth].key = k,
                                               ![Depth].todo = @ \ {k}],
                                 k, "unload")
    /\ UNCHANGED <<addonVars, owned, chat, config>>

\* Once the script's "unload" handler has returned, the Lua state goes...
UnloadRelease ==
    /\ TopIs({"unload", "unloadall"}, "release")
    /\ Release(Top.key, "Released", Depth)
    /\ stack' = GoTo("notify")
    /\ UNCHANGED <<loaded, owned, chat, config>>

\* ...the player is told, which raises hooks (HookEntry) or an exception that
\* leaves the whole handler...
NotifyThrows ==
    /\ PacketsMayThrow
    /\ TopIs({"unload", "unloadall"}, "notify")
    /\ stack' = Pop
    /\ UNCHANGED <<loaded, addonVars, owned, chat, config>>

\* ...and the commands go, unless that raises one.
UnloadNotified ==
    /\ TopIs({"unload", "unloadall"}, "notify")
    /\ \/ /\ RemoveAddonCommands(Top.key)
          /\ stack' = IF Top.kind = "unload" THEN Pop
                      ELSE [stack EXCEPT ![Depth].at = "visit", ![Depth].key = NoKey]
       \/ /\ RemoveAddonCommandsThrows(Top.key)
          /\ stack' = Pop
    /\ UNCHANGED <<loaded, addonVars, config>>

UnloadAllEnd ==
    /\ TopIs({"unloadall"}, "visit")
    /\ Top.todo = {}
    /\ stack' = Pop
    /\ UNCHANGED <<loaded, addonVars, owned, chat, config>>

ReloadBegin(k) ==
    /\ CommandEntry
    /\ k \in loaded
    /\ stack' = InvokeEvent(Append(stack, HostFrame("reload", k, "reinit", {}, "load")),
                            k, "unload")
    /\ UNCHANGED <<loaded, addonVars, owned, chat, config>>

ReloadReinit ==
    /\ TopIs({"reload"}, "reinit")
    /\ RemoveAddonCommands(Top.key)
    /\ NewLuaState(Top.key)
    /\ stack' = Append(GoTo("init"), ScriptFrame("main", Top.key))
    /\ UNCHANGED <<loaded, config>>

ReloadThrows ==
    /\ TopIs({"reload"}, "reinit")
    /\ RemoveAddonCommandsThrows(Top.key)
    /\ stack' = Pop
    /\ UNCHANGED <<loaded, addonVars, config>>

ReloadOnLoad ==
    /\ TopIs({"reload"}, "init")
    /\ stack' = InvokeEvent(GoTo("end"), Top.key, "load")
    /\ UNCHANGED <<loaded, addonVars, owned, chat, config>>

ReloadEnd ==
    /\ TopIs({"reload"}, "end")
    /\ stack' = Pop
    /\ UNCHANGED <<loaded, addonVars, owned, chat, config>>

DisposeBegin ==
    /\ Depth = 0
    /\ stack' = Append(stack, HostFrame("dispose", NoKey, "visit", loaded, "load"))
    /\ UNCHANGED <<loaded, addonVars, owned, chat, config>>

DisposeVisit(k) ==
    /\ TopIs({"dispose"}, "visit")
    /\ k \in Top.todo
    /\ stack' = InvokeEvent([stack EXCEPT ![Depth].at = "release", ![Depth].key = k,
                                          ![Depth].todo = @ \ {k}],
                            k, "unload")
    /\ UNCHANGED <<loaded, addonVars, owned, chat, config>>

DisposeRelease ==
    /\ TopIs({"dispose"}, "release")
    /\ Release(Top.key, "Released", Depth)
    /\ stack' = [stack EXCEPT ![Depth].at = "visit", ![Depth].key = NoKey]
    /\ UNCHANGED <<loaded, owned, chat, config>>

DisposeEnd ==
    /\ TopIs({"dispose"}, "visit")
    /\ Top.todo = {}
    /\ loaded' = {}
    /\ owned' = [k \in Keys |-> {}]
    /\ stack' = Pop
    /\ UNCHANGED <<addonVars, chat, config>>
-----------------------------------------------------------------------------
(* HandleAddonCallbackCommand(c): a player issued command c *)

CallbackInvoke(c, k) ==
    /\ CommandEntry
    /\ Callback(c) \in chat
    /\ c \in owned[k] /\ k \in loaded
    /\ state[k] = "Ok" /\ lua[k] /\ c \in callbacks[k]
    /\ stack' = Append(stack, ScriptFrame("command", k))
    /\ UNCHANGED <<loaded, addonVars, owned, chat, config>>

\* (mutant of CallbackDrop: a command that its addon cannot serve now is dropped,
\* too)
CallbackDropUnserved(c, k) ==
    /\ CommandEntry
    /\ Callback(c) \in chat
    /\ c \in owned[k] /\ (k \notin loaded \/ state[k] # "Ok")
    /\ ~Ambiguous(c)
    /\ chat' = Erase(c)
    /\ owned' = [owned EXCEPT ![k] = @ \ {c}]
    /\ UNCHANGED <<loaded, addonVars, config, stack>>

\* The owner is not loaded: the command is dropped.  An ambiguous command
\* raises an exception before anything is changed.
CallbackDrop(c, k) ==
    /\ CommandEntry
    /\ Callback(c) \in chat
    /\ c \in owned[k] /\ k \notin loaded
    /\ ~Ambiguous(c)
    /\ chat' = Erase(c)
    /\ owned' = [owned EXCEPT ![k] = @ \ {c}]
    /\ UNCHANGED <<loaded, addonVars, config, stack>>
-----------------------------------------------------------------------------
(* What a running script does *)

\* events.register_event
RegisterEvent(e) ==
    /\ Running
    /\ events' = [events EXCEPT ![Top.key] = @ \cup {e}]
    /\ UNCHANGED <<loaded, state, lua, callbacks, owned, chat, config, stack, freed>>

\* commands.register_command and Addons.RegisterCommand.  (mutant: the name
\* is not lower-cased)
RegisterVerbatim(n) ==
    /\ Running
    /\ Unowned(n)
    /\ chat' = Erase(n) \cup {Callback(n)}
    /\ owned' = [owned EXCEPT ![Top.key] = @ \cup {n}]
    /\ callbacks' = [callbacks EXCEPT ![Top.key] = @ \cup {n}]
    /\ UNCHANGED <<loaded, state, lua, events, config, stack, freed>>

RegisterCommand(n) ==
    LET c == Lower[n] IN
    /\ Running
    /\ Unowned(c)
    /\ chat' = Erase(c) \cup {Callback(c)}
    /\ owned' = [owned EXCEPT ![Top.key] = @ \cup {c}]
    /\ callbacks' = [callbacks EXCEPT ![Top.key] = @ \cup {n}]
    /\ UNCHANGED <<loaded, state, lua, events, config, stack, freed>>

\* The script returns; ret tells whether its first value is nil.  The main
\* chunk of an addon returns to Initialize, which finds _addon complete.  The
\* callback of a voting hook reads the value: nil raises an exception in
\* ret[0].ToString(), which ends the dispatch.  A script whose Lua state went
\* away beneath it has undefined behaviour: it returns or fails, and a main
\* chunk returns to an Initialize that asks the state the addon has then.
ScriptReturn(ret) ==
    /\ ScriptOnTop
    /\ Top.kind = "main" => lua[Top.key]
    /\ state' = IF Top.kind = "main" THEN [state EXCEPT ![Top.key] = "Ok"] ELSE state
    /\ freed' = freed \ {Depth}
    /\ LET below == Depth - 1
           voting == /\ Top.kind = "event" /\ below > 0
                     /\ stack[below].kind = "hook" /\ stack[below].hook \in VotingHooks
       IN  stack' = IF voting /\ ret = "nil" THEN SubSeq(stack, 1, below - 1) ELSE Pop
    /\ UNCHANGED <<loaded, lua, events, callbacks, owned, chat, config>>

\* The script raises an error.  For a main chunk this stands for every
\* exception Initialize catches: no file, bad syntax, incomplete _addon.
ScriptFails ==
    /\ ScriptOnTop
    /\ IF Top.kind = "main" THEN Release(Top.key, "Error", Depth - 1)
       ELSE /\ state' = [state EXCEPT ![Top.key] = "Error"]
            /\ freed' = freed \ {Depth}
            /\ UNCHANGED <<lua, events, callbacks>>
    /\ stack' = Pop
    /\ UNCHANGED <<loaded, owned, chat, config>>

\* A name that is owned already: register_command raises a Lua error.  (Under
\* pcall the script goes on, and nothing has changed.)  (mutant: the function
\* is stored before the host is asked)
RegisterThenAsk(n) ==
    /\ Running
    /\ ~Unowned(Lower[n])
    /\ callbacks' = [callbacks EXCEPT ![Top.key] = @ \cup {n}]
    /\ UNCHANGED <<loaded, state, lua, events, owned, chat, config, stack, freed>>
RegisterRefused(n) == Running /\ ~Unowned(Lower[n]) /\ ScriptFails
-----------------------------------------------------------------------------
(* What happens without the lock *)

\* /addon reloadcfg
ReloadConfig(c) ==
    /\ config' = c
    /\ UNCHANGED <<loaded, addonVars, owned, chat, stack>>

\* Another plugin adds a chat command.
PluginAddsCommand(p, c) ==
    /\ LatePlugins
    /\ chat' = chat \cup {[alias |-> c, by |-> p]}
    /\ UNCHANGED <<loaded, addonVars, owned, config, stack>>
-----------------------------------------------------------------------------
Init ==
    /\ loaded = {}
    /\ state = [k \in Keys |-> "Released"]
    /\ lua = [k \in Keys |-> FALSE]
    /\ events = [k \in Keys |-> {}]
    /\ callbacks = [k \in Keys |-> {}]
    /\ owned = [k \in Keys |-> {}]
    /\ chat \in SUBSET [alias : Commands, by : Plugins]
    /\ config \in Configs
    /\ stack = <<>>
    /\ freed = {}

HookStep ==
    \/ \E h \in VotingHooks \cup PlainHooks : HookBegin(h)
    \/ \E k \in Keys : Visit(k)
    \/ HookEnd

TickStep ==
    \/ TickScan
    \/ \E k \in Keys : TickReload(k) \/ TickSkip(k)
    \/ TickOnLoad
    \/ TickEnd

LoadStep == (\E k \in Keys : LoadBegin(k)) \/ LoadInitialized \/ LoadAdd

UnloadStep ==
    \/ \E k \in Keys : UnloadBegin(k) \/ UnloadAllVisit(k)
    \/ UnloadAllBegin
    \/ UnloadRelease \/ NotifyThrows \/ UnloadNotified
    \/ UnloadAllEnd

ReloadStep ==
    \/ \E k \in Keys : ReloadBegin(k)
    \/ ReloadReinit \/ ReloadThrows \/ ReloadOnLoad \/ ReloadEnd

DisposeStep ==
    \/ DisposeBegin
    \/ \E k \in Keys : DisposeVisit(k)
    \/ DisposeRelease \/ DisposeEnd

CallbackStep == \E c \in Commands, k \in Keys : CallbackInvoke(c, k) \/ CallbackDrop(c, k)

Returns == {"nil", "other"}

ScriptStep ==
    \/ \E e \in Events : RegisterEvent(e)
    \/ \E n \in Names : RegisterCommand(n) \/ RegisterRefused(n)
    \/ \E ret \in Returns : ScriptReturn(ret)
    \/ ScriptFails

FreeStep ==
    \/ \E c \in Configs : ReloadConfig(c)
    \/ \E p \in Plugins, c \in Commands : PluginAddsCommand(p, c)

Next ==
    \/ HookStep \/ TickBegin \/ TickStep \/ LoadStep \/ UnloadStep \/ ReloadStep
    \/ DisposeStep \/ CallbackStep \/ ScriptStep \/ FreeStep

Spec == Init /\ [][Next]_vars

(* The game loop runs for ever and gets the lock again and again; the host   *)
(* runs on; and a script returns or fails after finitely many steps of its   *)
(* own, and a message to a player is sent, however many hooks that raises.   *)
HostStep == TickStep \/ DisposeStep \/ HookEnd \/ LoadInitialized \/ LoadAdd
            \/ UnloadRelease \/ UnloadAllEnd \/ ReloadReinit \/ ReloadThrows
            \/ ReloadOnLoad \/ ReloadEnd \/ (\E k \in Keys : Visit(k) \/ UnloadAllVisit(k))
HostProgress == Depth > 0 /\ HostStep
\* The frame at depth d ends: a script, or an unload that sends its message.
EndsAt(d) == Depth = d /\ ((\E ret \in Returns : ScriptReturn(ret)) \/ ScriptFails
                           \/ NotifyThrows \/ UnloadNotified)

Fairness ==
    /\ SF_vars(TickBegin)
    /\ WF_vars(HostProgress)
    /\ \A d \in 1..MaxDepth + 1 : SF_vars(EndsAt(d))

FairSpec == Spec /\ Fairness
-----------------------------------------------------------------------------
(* Properties *)

ScriptFrames == {i \in 1..Depth : stack[i].kind \in ScriptKinds}

TypeOK ==
    /\ loaded \subseteq Keys
    /\ state \in [Keys -> States]
    /\ lua \in [Keys -> BOOLEAN]
    /\ events \in [Keys -> SUBSET Events]
    /\ callbacks \in [Keys -> SUBSET Names]
    /\ owned \in [Keys -> SUBSET Commands]
    /\ chat \subseteq ChatCommand
    /\ config \in Configs
    /\ stack \in Seq(Frame)
    /\ freed \subseteq Nat

\* No command is owned by two addons, whatever loads, failed loads and reloads
\* came before: HandleAddonCallbackCommand looks its owner up with
\* SingleOrDefault, which throws when there are two.
CommandOwnedOnce ==
    \A j, k \in Keys : j # k => owned[j] \cap owned[k] = {}

\* As long as no other plugin adds commands later, each owned command is exactly
\* one entry of the chat commands, the host's own callback: players reach the
\* owner, and RemoveAddonCommands never meets an ambiguous name.
OwnedIsRegistered ==
    \A k \in Keys : \A c \in owned[k] : {x \in chat : x.alias = c} = {Callback(c)}

\* While a script runs, its Lua state is neither disposed nor replaced, nested
\* hooks included: Release and Reload only happen on objects that no frame of
\* the call stack is executing.
LiveWhileRunning == \A i \in ScriptFrames : lua[stack[i].key] /\ i \notin freed

\* Once an addon has been released and no handler is working on it, it owns no
\* command, also when its "unload" handler registered some, and whatever scripts
\* the message between Release and RemoveAddonCommands runs.  (While Dispose runs,
\* the registry is cleared at the end only; an exception of that message leaves
\* the commands to the player who calls them next.)
ReleasedOwnsNothing ==
    \A k \in Keys : state[k] = "Released" /\ Idle(k) =>
        \/ owned[k] = {} /\ callbacks[k] = {} /\ ~lua[k]
        \/ \E i \in 1..Depth : stack[i].kind = "dispose"

\* A function in the table __addon_commands of a live addon is under a command
\* that the addon owns: no other addon's handler is called in its place.
CallbacksAreOwned ==
    \A k \in Keys : lua[k] => {Lower[n] : n \in callbacks[k]} \subseteq owned[k]

\* When the lock is free, no addon is left half-way: every addon in the
\* dictionary is Ok, with a Lua state, or in the Error state that the automatic
\* reload looks for.
QuiescentAddonsAreSettled ==
    Depth = 0 => \A k \in Keys :
        /\ state[k] # "Loading"
        /\ k \in loaded => state[k] = "Error" \/ (state[k] = "Ok" /\ lua[k])

\* If automatic reload stays switched on, no loaded addon stays in the Error
\* state: the game loop tries to reload it.
AutoReloadHappens ==
    <>[](config = "auto") =>
        \A k \in Keys : []<>~(k \in loaded /\ state[k] = "Error")

\* The command registry the host implements.
OwnerIn(own, c) == IF \E k \in Keys : c \in own[k]
                   THEN CHOOSE k \in Keys : c \in own[k] ELSE NoKey
Owner(c) == OwnerIn(owned, c)
StatusIn(ld, st, lu, k) == IF k \notin ld THEN "out"
                           ELSE IF st[k] = "Ok" /\ lu[k] THEN "serving" ELSE "busy"
Registry == INSTANCE CommandRegistry WITH
               Addons <- Keys, Nobody <- NoKey,
               route  <- [c \in Commands |-> Owner(c)],
               status <- [k \in Keys |-> StatusIn(loaded, state, lua, k)]

\* The host implements the abstract command registry: commands are claimed only
\* when nobody has them and never handed over; an addon in the dictionary loses
\* its commands all together, in the step that takes it out of service, and an
\* addon that is out loses them all together or one that a player called.
ImplementsRegistry == Registry!RegistrySpec
=============================================================================
