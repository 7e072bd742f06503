------------------------------ MODULE EnvReset ------------------------------
(***************************************************************************)
(* Who owns the Lua states: the users' entries, compile_lua, or a callback *)
(* that reset_env gave to the server to close them in the background; and  *)
(* the life of the engine context they belong to, from OnLoad with its     *)
(* rollback to OnUnload (engine_luajit.c).                                 *)
(*                                                                         *)
(* A lua_State is named by the slot it was created for and a number that   *)
(* is free again once it is closed, as its memory is.  What is inside a    *)
(* state, and the libraries a reset drops, are the subject of ScriptEngine.*)
(***************************************************************************)
EXTENDS Integers, Sequences, FiniteSets

CONSTANTS
    Users,
    EngineNames,   \* names of scripting engines
    Configs,       \* what engine-name may be set to, split at the commas
    DefaultName,
    MaxNames,      \* MAX_ENGINE_NAMES
    MaxOpen        \* bound: open states of one slot

ASSUME NamesAssumption ==
    /\ DefaultName \in EngineNames
    /\ Configs \subseteq Seq(EngineNames)
    /\ MaxNames \in Nat \ {0}
    /\ MaxOpen \in Nat

VARIABLES
    phase,      \* of OnLoad
    names,      \* engine_names
    next,       \* the name OnLoad registers next
    registered, \* the server: whose context an engine name stands for
    current,    \* the state in each slot, or NoState
    open,       \* the states that exist
    callbacks   \* the reset callbacks not run yet, each the states it closes

vars == <<phase, names, next, registered, current, open, callbacks>>

Kinds       == {"eval", "function"}
UserSlots   == Users \X Kinds
CompileSlot == <<"compile_lua", "scratch">>
Slots       == UserSlots \cup {CompileSlot}
NoState     == 0
States      == Slots \X (1..MaxOpen)

\* A slot is empty without a context; a user's slots are until the first call.
Empty      == [s \in Slots |-> NoState]
Held(ss)   == {<<s, current[s]>> : s \in {t \in ss : current[t] # NoState}}
HasRoom(ss) == \A s \in ss : \E g \in 1..MaxOpen : <<s, g>> \notin open
Fresh(s)   == CHOOSE g \in 1..MaxOpen : <<s, g>> \notin open
Created(ss) == {<<s, Fresh(s)>> : s \in ss}

Init ==
    /\ phase = "unloaded"
    /\ names = <<>>
    /\ next = 1
    /\ registered \in [EngineNames -> {"nobody", "other"}]
    /\ current = Empty
    /\ open = {}
    /\ callbacks = {}

-----------------------------------------------------------------------------
(* OnLoad.                                                                 *)

CreateContext ==
    /\ phase = "unloaded"
    /\ HasRoom({CompileSlot})
    /\ phase' = "created"
    /\ names' = IF names = <<>> THEN <<DefaultName>> ELSE names
    /\ current' = [current EXCEPT ![CompileSlot] = Fresh(CompileSlot)]
    /\ open' = open \cup Created({CompileSlot})
    /\ UNCHANGED <<next, registered, callbacks>>

\* destroyEngineContext: the entries' states and compile_lua.
DestroyContext ==
    /\ open' = open \ Held(Slots)
    /\ current' = Empty
    /\ phase' = "unloaded"

\* Names past the table's length are dropped.
SetNames(config) ==
    /\ phase = "created"
    /\ phase' = "registering"
    /\ names' = SubSeq(config, 1, IF Len(config) < MaxNames THEN Len(config) ELSE MaxNames)
    /\ next' = 1
    /\ UNCHANGED <<registered, current, open, callbacks>>

ConfigsFail ==
    /\ phase = "created"
    /\ DestroyContext
    /\ names' = <<>>
    /\ UNCHANGED <<next, registered, callbacks>>

RegisterName ==
    /\ phase = "registering"
    /\ next \in DOMAIN names
    /\ registered[names[next]] = "nobody"
    /\ registered' = [registered EXCEPT ![names[next]] = "ours"]
    /\ next' = next + 1
    /\ UNCHANGED <<phase, names, current, open, callbacks>>

Unregister(ns) == registered' = [n \in EngineNames |-> IF n \in ns THEN "nobody" ELSE registered[n]]

\* Mutant: the name that was refused is taken back too.
NameTakenWrongly ==
    /\ phase = "registering"
    /\ next \in DOMAIN names
    /\ registered[names[next]] # "nobody"
    /\ Unregister({names[j] : j \in 1..next})
    /\ DestroyContext
    /\ UNCHANGED <<names, next, callbacks>>

\* Mutant: the last name that was registered is not taken back.
NameTakenShort ==
    /\ phase = "registering"
    /\ next \in DOMAIN names
    /\ registered[names[next]] # "nobody"
    /\ Unregister({names[j] : j \in 1..next - 2})
    /\ DestroyContext
    /\ UNCHANGED <<names, next, callbacks>>

\* Another module has the name, or the configuration has it twice.  The names
\* registered before are taken back; the strings stay in the table.
NameTaken ==
    /\ phase = "registering"
    /\ next \in DOMAIN names
    /\ registered[names[next]] # "nobody"
    /\ Unregister({names[j] : j \in 1..next - 1})
    /\ DestroyContext
    /\ UNCHANGED <<names, next, callbacks>>

LoadEnds ==
    /\ phase = "registering"
    /\ next \notin DOMAIN names
    /\ phase' = "serving"
    /\ UNCHANGED <<names, next, registered, current, open, callbacks>>

\* Callbacks the server has not run yet keep their states.
Unload ==
    /\ phase = "serving"
    /\ Unregister({names[j] : j \in DOMAIN names})
    /\ DestroyContext
    /\ names' = <<>>
    /\ UNCHANGED <<next, callbacks>>

-----------------------------------------------------------------------------
(* Calls and resets.  The server reaches the engine under a name.          *)

Serving == phase = "serving" /\ \E n \in EngineNames : registered[n] = "ours"

\* getOrCreateUserState: the first call of a user makes both states.
FirstCall(u) ==
    LET ss == {u} \X Kinds
    IN  /\ Serving
        /\ Held(ss) = {}
        /\ HasRoom(ss)
        /\ current' = [s \in Slots |-> IF s \in ss THEN Fresh(s) ELSE current[s]]
        /\ open' = open \cup Created(ss)
        /\ UNCHANGED <<phase, names, next, registered, callbacks>>

Entries(ks) == {s \in Users \X ks : current[s] # NoState}

\* Mutant: a callback is returned also when no state was detached.
DetachAlways(old, async, closed, made) ==
    /\ callbacks' = IF async THEN callbacks \cup {old} ELSE callbacks
    /\ open' = (open \ (closed \cup IF async THEN {} ELSE old)) \cup made

\* The old states are closed by the returned callback, or at once.
Detach(old, async, closed, made) ==
    /\ callbacks' = IF async /\ old # {} THEN callbacks \cup {old} ELSE callbacks
    /\ open' = (open \ (closed \cup IF async THEN {} ELSE old)) \cup made

\* Mutant: the entry keeps the state that was detached.
ResetKindKeeping(k, async) ==
    LET ss == Entries({k}) \cup {CompileSlot}
    IN  /\ Serving
        /\ HasRoom(ss)
        /\ current' = [s \in Slots |-> IF s = CompileSlot THEN Fresh(s) ELSE current[s]]
        /\ Detach(Held(Entries({k})), async, Held({CompileSlot}), Created(ss))
        /\ UNCHANGED <<phase, names, next, registered>>

\* Mutant: the entry is left without a state of the kind.
ResetKindEmptying(k, async) ==
    /\ Serving
    /\ HasRoom({CompileSlot})
    /\ current' = [s \in Slots |-> IF s = CompileSlot THEN Fresh(s)
                                   ELSE IF s \in Entries({k}) THEN NoState ELSE current[s]]
    /\ Detach(Held(Entries({k})), async, Held({CompileSlot}), Created({CompileSlot}))
    /\ UNCHANGED <<phase, names, next, registered>>

\* One kind of state is replaced in every entry.
ResetKind(k, async) ==
    LET ss == Entries({k}) \cup {CompileSlot}
    IN  /\ Serving
        /\ HasRoom(ss)
        /\ current' = [s \in Slots |-> IF s \in ss THEN Fresh(s) ELSE current[s]]
        /\ Detach(Held(Entries({k})), async, Held({CompileSlot}), Created(ss))
        /\ UNCHANGED <<phase, names, next, registered>>

\* The entries go with their states.
ResetAll(async) ==
    /\ Serving
    /\ HasRoom({CompileSlot})
    /\ current' = [Empty EXCEPT ![CompileSlot] = Fresh(CompileSlot)]
    /\ Detach(Held(UserSlots), async, Held({CompileSlot}), Created({CompileSlot}))
    /\ UNCHANGED <<phase, names, next, registered>>

\* Mutant: an entry without an eval state is passed over.
RunCallbackEvalOnly(cb) ==
    /\ open' = open \ {st \in cb : st[1][2] = "eval"}
    /\ callbacks' = callbacks \ {cb}
    /\ UNCHANGED <<phase, names, next, registered, current>>

\* In the server's background thread, at any time.
RunCallback(cb) ==
    /\ open' = open \ cb
    /\ callbacks' = callbacks \ {cb}
    /\ UNCHANGED <<phase, names, next, registered, current>>

-----------------------------------------------------------------------------
Next ==
    \/ CreateContext
    \/ \E config \in Configs : SetNames(config)
    \/ ConfigsFail
    \/ RegisterName
    \/ NameTaken
    \/ LoadEnds
    \/ Unload
    \/ \E u \in Users : FirstCall(u)
    \/ \E k \in Kinds, async \in BOOLEAN : ResetKind(k, async)
    \/ \E async \in BOOLEAN : ResetAll(async)
    \/ \E cb \in callbacks : RunCallback(cb)

Spec == Init /\ [][Next]_vars

\* The background thread works its queue off.
FairSpec == Spec /\ \A st \in States : WF_vars(\E cb \in callbacks : st \in cb /\ RunCallback(cb))

-----------------------------------------------------------------------------
(* Properties                                                              *)

\* The engine's tables have the types of the C structures; no callback is
\* handed to the server without work for it.
TypeOK ==
    /\ phase \in {"unloaded", "created", "registering", "serving"}
    /\ names \in Seq(EngineNames)
    /\ next \in 1..MaxNames + 1
    /\ registered \in [EngineNames -> {"nobody", "other", "ours"}]
    /\ current \in [Slots -> {NoState} \cup 1..MaxOpen]
    /\ open \subseteq States
    /\ callbacks \subseteq (SUBSET States) \ {{}}

\* Every state that exists has one owner, a slot or a callback, which closes
\* it; what they own exists.  So no state is leaked, closed twice, or closed
\* while a user's entry has it, whatever resets, calls and unloads happen
\* before a callback is run.
OneOwner ==
    /\ open = Held(Slots) \cup UNION callbacks
    /\ \A cb \in callbacks : cb \cap Held(Slots) = {}
    /\ \A c, d \in callbacks : c # d => c \cap d = {}

\* An entry has both of a user's states: calls do not test for NULL.
EntriesWhole ==
    \A u \in Users : current[<<u, "eval">>] = NoState <=> current[<<u, "function">>] = NoState

\* The server never holds the context under a name after it is destroyed,
\* however far OnLoad got.
ContextServed == phase = "unloaded" => \A n \in EngineNames : registered[n] # "ours"

\* OnLoad's rollback and OnUnload take back no name of another module's.
OthersKept ==
    [][\A n \in EngineNames : registered[n] = "other" => registered'[n] = "other"]_vars

\* A detached state is closed, also if the engine is unloaded first.
DetachedClosed == \A st \in States : st \in open /\ st \notin Held(Slots) ~> st \notin open
=============================================================================
