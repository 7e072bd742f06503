---------------------------- MODULE FunctionLoad ----------------------------
(***************************************************************************)
(* One FUNCTION LOAD, seen from inside: the source runs in a scratch state *)
(* under the load hook, its calls of server.register_function collect      *)
(* pending functions (function_luajit.c), and what it collected becomes    *)
(* the compiled functions the server gets.  Later the same source runs in  *)
(* a user's state, where register_function is another one                  *)
(* (script_luajit.c).                                                      *)
(*                                                                         *)
(* A source is a sequence of statements.  A call takes its arguments by    *)
(* position or as a table, whose fields lua_next yields in any order.  The strings the load creates are told apart by the          *)
(* statement and the field they were read from.                            *)
(***************************************************************************)
EXTENDS Integers, Sequences, FiniteSets

CONSTANTS
    Names,   \* function names
    Sources, \* the library sources
    Bad,     \* a value of the wrong type for its argument
    Throws,  \* flags whose elements are read by a metamethod that raises
    None     \* nil, NULL

Keys == {"function_name", "callback", "description", "flags", "unknown", "nonstring"}

\* exact: the key is written as the user's state looks it up.  The value is
\* a function name, Bad, Throws, or None for any other of the right type.
Field == [key : Keys, exact : BOOLEAN, value : Names \cup {Bad, Throws, None}]

\* A statement: register_function with arguments by position, in a table, or
\* the wrong number or kind of them; an error; code without effect here.
\* guarded: it is in a pcall.  sameLine: it follows another on its line.
Statement == [op : {"positional", "named", "misused", "raise", "loop"},
              fields : SUBSET Field, guarded : BOOLEAN, sameLine : BOOLEAN]

\* A table has one value for a key.  Every name is one of Names.
ASSUME SourcesAssumption ==
    /\ Sources \subseteq Seq(Statement)
    /\ \A c \in Sources : \A k \in DOMAIN c : \A f, g \in c[k].fields :
           /\ f.key = g.key /\ f.exact = g.exact => f = g
           /\ f.key = "function_name" => f.value # None
ASSUME ValuesAssumption ==
    Bad # Throws /\ None \notin {Bad, Throws} /\ {Bad, Throws, None} \cap Names = {}

VARIABLES
    source,    \* the source being loaded
    phase,     \* of the load, and of what it returned
    pc,        \* the statement that runs
    unread,    \* the arguments of the current call not read yet
    pf,        \* the pendingFunc of the current call, or None
    functions, \* load_ctx.functions, then the compiled functions
    created,   \* the strings created
    freed,     \* the strings freed
    late,      \* the load hook has found the load late
    strict,    \* the load hook is set for every line
    userPc,    \* the statement that runs in the user's state
    userPhase, \* of the run in the user's state
    table      \* the names registered in the user's state

loadVars == <<source, phase, pc, unread, pf, functions, created, freed,
              late, strict>>
userVars == <<userPc, userPhase, table>>
vars     == <<loadVars, userVars>>

-----------------------------------------------------------------------------
\* A created string: where it was read, and the name it spells.
String(f) == [at |-> pc, key |-> f.key, exact |-> f.exact, value |-> f.value]
Strings   == [at : Nat, key : {"function_name", "description"}, exact : BOOLEAN,
              value : Names \cup {None}]
Pending   == [name : Strings \cup {None}, desc : Strings \cup {None}, callback : BOOLEAN]
ASSUME NoneAssumption == None \notin Strings /\ None \notin Pending

NoStrings == [name |-> None, desc |-> None, callback |-> FALSE]
Held(p)   == {p.name, p.desc} \ {None}

Phases == {"idle", "running", "failed", "loaded", "released"}

Init ==
    /\ source \in Sources
    /\ phase = "idle"
    /\ pc = 1
    /\ unread = {}
    /\ pf = None
    /\ functions = <<>>
    /\ created = {}
    /\ freed = {}
    /\ late = FALSE
    /\ strict = FALSE
    /\ userPc = 1
    /\ userPhase = "idle"
    /\ table = {}

-----------------------------------------------------------------------------
(* The load.                                                               *)

Current == source[pc]
HeldBy(fs) == UNION {Held(fs[k]) : k \in DOMAIN fs}

\* Mutant: the arguments of the refused call are still read.
RaiseReading(gone, guarded) ==
    /\ pf' = None
    /\ IF guarded
       THEN /\ pc' = pc + 1
            /\ freed' = freed \cup gone
            /\ UNCHANGED <<phase, functions>>
       ELSE /\ phase' = "failed"
            /\ freed' = freed \cup gone \cup HeldBy(functions)
            /\ functions' = <<>>
            /\ UNCHANGED pc
    /\ UNCHANGED <<source, unread, userVars>>

\* An error leaves the statement: pcall stops it, or the load fails and frees
\* every pending function.  gone: strings freed before it was raised.
Raise(gone, guarded) ==
    /\ pf' = None
    /\ unread' = {}
    /\ IF guarded
       THEN /\ pc' = pc + 1
            /\ freed' = freed \cup gone
            /\ UNCHANGED <<phase, functions>>
       ELSE /\ phase' = "failed"
            /\ freed' = freed \cup gone \cup HeldBy(functions)
            /\ functions' = <<>>
            /\ UNCHANGED pc
    /\ UNCHANGED <<source, userVars>>

StartLoad ==
    /\ phase = "idle"
    /\ phase' = "running"
    /\ UNCHANGED <<source, pc, unread, pf, functions, created, freed, late, strict, userVars>>

\* A statement starts.  When the hook is set for every line, only one that
\* continues a line does.
Runs(ops) ==
    /\ phase = "running"
    /\ pf = None
    /\ pc \in DOMAIN source
    /\ Current.op \in ops
    /\ strict => Current.sameLine

StartCall ==
    /\ Runs({"positional", "named"})
    /\ pf' = NoStrings
    /\ unread' = Current.fields
    /\ UNCHANGED <<source, phase, pc, functions, created, freed, late, strict, userVars>>

\* The wrong number of arguments, or one that is no table.
Misused == Runs({"misused"}) /\ Raise({}, Current.guarded) /\ UNCHANGED <<created, late, strict>>

RaiseError == Runs({"raise"}) /\ Raise({}, Current.guarded) /\ UNCHANGED <<created, late, strict>>

\* Any argument of a table may be next; by position the name comes first.
MayRead(f) ==
    /\ phase = "running"
    /\ pf # None
    /\ f \in unread
    /\ Current.op = "positional" => f.key = "function_name" \/ pf.name # None

\* Keys are compared without case; anything unknown or of a wrong type is
\* refused.
Unfit(f) == \/ f.key \in {"unknown", "nonstring"}
            \/ f.value = Bad
            \/ f.value = Throws /\ f.key # "flags"
Throwing(f) == f.key = "flags" /\ f.value = Throws

\* A string read before under the same key in another case is lost.
ReadName(f) ==
    /\ MayRead(f)
    /\ ~Unfit(f)
    /\ f.key = "function_name"
    /\ pf' = [pf EXCEPT !.name = String(f)]
    /\ created' = created \cup {String(f)}
    /\ unread' = unread \ {f}
    /\ UNCHANGED <<source, phase, pc, functions, freed, late, strict, userVars>>

ReadDescription(f) ==
    /\ MayRead(f)
    /\ ~Unfit(f)
    /\ f.key = "description"
    /\ pf' = [pf EXCEPT !.desc = String(f)]
    /\ created' = created \cup {String(f)}
    /\ unread' = unread \ {f}
    /\ UNCHANGED <<source, phase, pc, functions, freed, late, strict, userVars>>

ReadOther(f) ==
    /\ MayRead(f)
    /\ ~Unfit(f) /\ ~Throwing(f)
    /\ f.key \in {"callback", "flags"}
    /\ pf' = [pf EXCEPT !.callback = @ \/ f.key = "callback"]
    /\ unread' = unread \ {f}
    /\ UNCHANGED <<source, phase, pc, functions, created, freed, late, strict, userVars>>

\* The error of a metamethod passes register_function by: what the call has
\* read is not freed.  In the metamethod the hook may find the load late.
FlagsThrow(f) ==
    /\ MayRead(f)
    /\ Throwing(f)
    /\ Raise({}, Current.guarded)
    /\ \/ UNCHANGED <<late, strict>>
       \/ late' = TRUE /\ strict' = TRUE
    /\ UNCHANGED created

\* Mutant: the strings read so far are not freed.
RefuseArgumentKeeping(f) ==
    /\ MayRead(f)
    /\ Unfit(f)
    /\ Raise({}, Current.guarded)
    /\ UNCHANGED <<created, late, strict>>

\* What has been read is freed, but for the string this argument replaced.
RefuseArgument(f) ==
    /\ MayRead(f)
    /\ Unfit(f)
    /\ Raise(Held([pf EXCEPT !.name = IF f.key = "function_name" THEN None ELSE @,
                              !.desc = IF f.key = "description" THEN None ELSE @]),
             Current.guarded)
    /\ UNCHANGED <<created, late, strict>>

ReadAll == phase = "running" /\ pf # None /\ unread = {}

\* Mutant: a table without a callback is accepted.
RegisterUnchecked ==
    /\ ReadAll
    /\ pf.name # None
    /\ functions' = Append(functions, pf)
    /\ pf' = None
    /\ pc' = pc + 1
    /\ UNCHANGED <<source, phase, unread, created, freed, late, strict, userVars>>

Register ==
    /\ ReadAll
    /\ pf.name # None /\ pf.callback
    /\ functions' = Append(functions, pf)
    /\ pf' = None
    /\ pc' = pc + 1
    /\ UNCHANGED <<source, phase, unread, created, freed, late, strict, userVars>>

RefuseIncomplete ==
    /\ ReadAll
    /\ pf.name = None \/ ~pf.callback
    /\ Raise(Held(pf), Current.guarded)
    /\ UNCHANGED <<created, late, strict>>

LoopEnds ==
    /\ Runs({"loop"})
    /\ pc' = pc + 1
    /\ UNCHANGED <<source, phase, unread, pf, functions, created, freed, late, strict, userVars>>

HookRuns == phase = "running" /\ pf = None

\* Mutant: the hook is left as it was.
TimeoutOnce ==
    /\ HookRuns
    /\ pc \in DOMAIN source
    /\ Raise({}, Current.guarded)
    /\ late' = TRUE
    /\ UNCHANGED <<created, strict>>

\* The hook finds the load late, in any statement.  It raises, and is set for
\* every line so that a pcall does not keep the load alive.
Timeout ==
    /\ HookRuns
    /\ pc \in DOMAIN source
    /\ Raise({}, Current.guarded)
    /\ late' = TRUE
    /\ strict' = TRUE
    /\ UNCHANGED created

\* The next line after a timeout.  There may be none: the end of the source is
\* on a line or not, and a statement that continues one need not call the hook.
LineHook ==
    /\ HookRuns
    /\ strict
    /\ Raise({}, pc \in DOMAIN source /\ Current.sameLine /\ Current.guarded)
    /\ UNCHANGED <<created, late, strict>>

FinishLoad ==
    /\ phase = "running"
    /\ pc \notin DOMAIN source
    /\ phase' = "loaded"
    /\ UNCHANGED <<source, pc, unread, pf, functions, created, freed, late, strict, userVars>>

\* free_function for every function, in the server's own time.
Release ==
    /\ phase = "loaded"
    /\ userPhase # "running"
    /\ phase' = "released"
    /\ freed' = freed \cup HeldBy(functions)
    /\ functions' = <<>>
    /\ UNCHANGED <<source, pc, unread, pf, created, late, strict, userVars>>

-----------------------------------------------------------------------------
(* The same source in a user's state.                                      *)

UserValues(s, key) == {f.value : f \in {g \in s.fields : g.key = key /\ g.exact}} \ {Bad, Throws}

\* The keys are looked up as they are spelt, and no others are looked at.
UserAccepts(s) ==
    /\ s.op \in {"positional", "named"}
    /\ UserValues(s, "function_name") # {}
    /\ UserValues(s, "callback") # {}

UserStarts ==
    /\ phase = "loaded"
    /\ userPhase = "idle"
    /\ userPhase' = "running"
    /\ UNCHANGED <<loadVars, userPc, table>>

UserStatement ==
    /\ userPhase = "running"
    /\ phase = "loaded"
    /\ userPc \in DOMAIN source
    /\ LET s == source[userPc]
       IN  IF s.op = "loop" \/ UserAccepts(s) \/ s.guarded
           THEN /\ userPc' = userPc + 1
                /\ table' = IF UserAccepts(s) THEN table \cup UserValues(s, "function_name")
                                              ELSE table
                /\ UNCHANGED userPhase
           ELSE /\ userPhase' = "raised"
                /\ UNCHANGED <<userPc, table>>
    /\ UNCHANGED loadVars

UserEnds ==
    /\ userPhase = "running"
    /\ phase = "loaded"
    /\ userPc \notin DOMAIN source
    /\ userPhase' = "compiled"
    /\ UNCHANGED <<loadVars, userPc, table>>

-----------------------------------------------------------------------------
Next ==
    \/ StartLoad
    \/ StartCall
    \/ Misused
    \/ RaiseError
    \/ \E f \in unread : ReadName(f)
    \/ \E f \in unread : ReadDescription(f)
    \/ \E f \in unread : ReadOther(f)
    \/ \E f \in unread : FlagsThrow(f)
    \/ \E f \in unread : RefuseArgument(f)
    \/ Register
    \/ RefuseIncomplete
    \/ LoopEnds
    \/ Timeout
    \/ LineHook
    \/ FinishLoad
    \/ Release
    \/ UserStarts
    \/ UserStatement
    \/ UserEnds

Spec == Init /\ [][Next]_vars

-----------------------------------------------------------------------------
(* Properties                                                              *)

\* Both sides' bookkeeping has the types of the C structures.
TypeOK ==
    /\ source \in Sources
    /\ phase \in Phases
    /\ pc \in 1..Len(source) + 1
    /\ pc \in DOMAIN source => unread \subseteq Current.fields
    /\ pf \in Pending \cup {None}
    /\ functions \in Seq(Pending)
    /\ created \subseteq Strings
    /\ freed \subseteq created
    /\ late \in BOOLEAN
    /\ strict \in BOOLEAN
    /\ userPc \in 1..Len(source) + 1
    /\ userPhase \in {"idle", "running", "compiled", "raised"}
    /\ table \subseteq Names

HeldByCall == IF pf = None THEN {} ELSE Held(pf)

\* The source gives this argument again, in another case.
GivenTwice(str) ==
    \E f \in source[str.at].fields : f.key = str.key /\ f.exact # str.exact

\* The call it was read in was left by a metamethod's error.
LeftByError(str) == \E f \in source[str.at].fields : Throwing(f)

\* Every string has one owner, a pending or compiled function, or was freed,
\* whether the load ends, fails half way or times out, and however calls are
\* refused.  Lost is at most what was read before a metamethod raised or before
\* the argument was given again, in another case.
StringsOwned ==
    /\ (HeldBy(functions) \cup HeldByCall) \cap freed = {}
    /\ HeldBy(functions) \cap HeldByCall = {}
    /\ \A j, k \in DOMAIN functions : j # k => Held(functions[j]) \cap Held(functions[k]) = {}
    /\ \A str \in created \ (freed \cup HeldBy(functions) \cup HeldByCall) :
           GivenTwice(str) \/ LeftByError(str)

\* "Used to cancel the execution in case of a timeout": once the hook has
\* found the load late no further function is registered on another line, even
\* if the source catches the error.
NothingRegisteredLate ==
    [][late => Len(functions') <= Len(functions) \/ Current.sameLine]_vars

\* Spelt as documented and without pcall, a source that loads registers in a
\* user's state exactly the functions it was loaded with.
Plain ==
    \A k \in DOMAIN source :
        /\ \A f \in source[k].fields : f.exact
        /\ source[k].op \in {"positional", "named"} => ~source[k].guarded
RegistersAlike ==
    Plain /\ phase = "loaded" =>
        /\ userPhase # "raised"
        /\ userPhase = "compiled" =>
             table = {functions[k].name.value : k \in DOMAIN functions}

\* "The library source is recompiled in the per-user lua_State and functions
\* are registered there": what loads does not raise there.
AcceptedByUsers == phase = "loaded" => userPhase # "raised"
=============================================================================
