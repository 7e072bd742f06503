---------------------------- MODULE ScriptEngine ----------------------------
(***************************************************************************)
(* The LuaJIT scripting engine as the server drives it: compile_code,      *)
(* call_function, free_function and reset_env of engine_luajit.c, over the *)
(* libraries dictionary, the id counters and, for every user, the tables   *)
(* its two Lua states keep in their registries.                            *)
(*                                                                         *)
(* The server (external) owns the compiled functions that compile_code     *)
(* returned: it links, deletes and frees them.  A command runs to its end  *)
(* on the main thread, so while functions wait to be linked or freed       *)
(* (~Idle) no other command starts.  SpecLazy adds FUNCTION FLUSH ASYNC,   *)
(* after which a background thread hands the old functions to              *)
(* free_function at any later time.                                        *)
(***************************************************************************)
EXTENDS Integers, Sequences, FiniteSets

CONSTANTS
    Users,     \* user names
    LibNames,  \* library names, the name= of a library's shebang
    Names,     \* function names
    Codes,     \* library sources
    Scripts,   \* EVAL sources that parse
    LibOf,     \* the library name of a source
    Declares,  \* the names a source registers when loaded, in order
    Defines,   \* the names it registers when run in a user's state
    Runs,      \* the sources whose run in a user's state ends without error
    Rebinds,   \* the names a call into one of its functions registers again
    MaxFuncId, \* bound: function ids handed out
    MaxLibId,  \* bound: library ids handed out
    None       \* Lua nil, a missing dictionary entry, no name, no reply

FuncIds == 1..MaxFuncId
LibIds  == 1..MaxLibId
Bodies  == Codes \cup Scripts
Failures == {"library_missing", "compile_error", "not_found"}

ASSUME BoundsAssumption == MaxFuncId \in Nat /\ MaxLibId \in Nat
ASSUME SourcesAssumption ==
    /\ Codes \cap Scripts = {}
    /\ LibOf \in [Codes -> LibNames]
    /\ Declares \in [Codes -> Seq(Names)]
    /\ Defines \in [Codes -> SUBSET Names]
    /\ Runs \subseteq Codes
    /\ Rebinds \in [Codes -> SUBSET Names]
ASSUME NoneAssumption == None \notin Bodies \cup Names /\ Bodies \cap Failures = {}

VARIABLES
    libraries,  \* ctx->libraries: by lib_id, the stored source and ref_count
    nextLibId,  \* ctx->next_lib_id
    nextFuncId, \* ctx->next_func_id
    states,     \* the users with an entry in ctx->user_states
    libFuncs,   \* __library_functions of a user's function_lua
    compiled,   \* __library_compiled of a user's function_lua
    funcCache,  \* the function cache of a user's function_lua
    evalCache,  \* the function cache of a user's eval_lua
    func,       \* luajitFunction: what the function object with an id says
    owner,      \* the server's use of that object
    reply       \* what the call that just returned answered

engineVars == <<libraries, nextLibId, nextFuncId>>
userVars   == <<states, libFuncs, compiled, funcCache, evalCache>>
hostVars   == <<func, owner>>
vars       == <<engineVars, userVars, hostVars, reply>>

-----------------------------------------------------------------------------
Library  == [code : Codes, refs : Int]
NoLib    == [code |-> None, refs |-> 0]
FuncRec  == [name : Names \cup {None}, lib : {0} \cup LibIds, code : Bodies \cup {None}]
NoFunc   == [name |-> None, lib |-> 0, code |-> None]
Owner    == {"unused", "pending", "linked", "doomed", "lazy", "script", "freed"}
NoReply  == [id |-> 0, out |-> None]

\* A closure is told apart by the source it was compiled from: a source
\* registers one function under a name.
EmptyNames == [n \in Names |-> None]
EmptyCache == [i \in FuncIds |-> None]

Owned(o) == {i \in FuncIds : owner[i] = o}

\* Between two commands nothing waits to be linked or freed.
Idle == Owned("pending") = {} /\ Owned("doomed") = {}

Init ==
    /\ libraries = [l \in LibIds |-> NoLib]
    /\ nextLibId = 0
    /\ nextFuncId = 0
    /\ states = {}
    /\ libFuncs = [u \in Users |-> EmptyNames]
    /\ compiled = [u \in Users |-> {}]
    /\ funcCache = [u \in Users |-> EmptyCache]
    /\ evalCache = [u \in Users |-> EmptyCache]
    /\ func = [i \in FuncIds |-> NoFunc]
    /\ owner = [i \in FuncIds |-> "unused"]
    /\ reply = NoReply

-----------------------------------------------------------------------------
(* compile_code                                                            *)

\* FUNCTION LOAD: the source has run in the scratch state and registered
\* Declares[c], possibly nothing.  The library entry counts its functions.
CompileLibrary(c) ==
    LET k   == Len(Declares[c])
        l   == nextLibId + 1
        new == nextFuncId + 1 .. nextFuncId + k
    IN  /\ Idle
        /\ nextFuncId + k <= MaxFuncId
        /\ l <= MaxLibId
        /\ libraries' = [libraries EXCEPT ![l] = [code |-> c, refs |-> k]]
        /\ nextLibId' = l
        /\ nextFuncId' = nextFuncId + k
        /\ func' = [i \in FuncIds |->
                      IF i \in new
                      THEN [name |-> Declares[c][i - nextFuncId], lib |-> l, code |-> c]
                      ELSE func[i]]
        /\ owner' = [i \in FuncIds |-> IF i \in new THEN "pending" ELSE owner[i]]
        /\ reply' = NoReply
        /\ UNCHANGED userVars

\* SCRIPT LOAD or the first EVAL of a script: only its text is kept.
CompileScript(s) ==
    LET i == nextFuncId + 1
    IN  /\ Idle
        /\ \A j \in Owned("script") : func[j].code # s
        /\ i <= MaxFuncId
        /\ nextFuncId' = i
        /\ func' = [func EXCEPT ![i] = [name |-> None, lib |-> 0, code |-> s]]
        /\ owner' = [owner EXCEPT ![i] = "script"]
        /\ reply' = NoReply
        /\ UNCHANGED <<libraries, nextLibId, userVars>>

-----------------------------------------------------------------------------
(* The server's use of what compile_code returned (external).              *)

SameLibrary(i, j) == LibOf[func[i].code] = LibOf[func[j].code]

\* A name registered twice by the source, or taken by another library.
Clash ==
    \E i \in Owned("pending") :
        \/ \E j \in Owned("pending") : i # j /\ func[i].name = func[j].name
        \/ \E j \in Owned("linked") : ~SameLibrary(i, j) /\ func[i].name = func[j].name

Replaced(i) == owner[i] = "linked" /\ \E j \in Owned("pending") : SameLibrary(i, j)

\* The new library takes effect; the one it replaces is freed.
Link ==
    /\ Owned("pending") # {}
    /\ ~Clash
    /\ owner' = [i \in FuncIds |-> IF owner[i] = "pending" THEN "linked"
                                 ELSE IF Replaced(i) THEN "doomed" ELSE owner[i]]
    /\ reply' = NoReply
    /\ UNCHANGED <<engineVars, userVars, func>>

\* The load fails after compile_code: its functions are freed.
Reject ==
    /\ Clash
    /\ owner' = [i \in FuncIds |-> IF owner[i] = "pending" THEN "doomed" ELSE owner[i]]
    /\ reply' = NoReply
    /\ UNCHANGED <<engineVars, userVars, func>>

DeleteLibrary(ln) ==
    LET gone == {i \in Owned("linked") : LibOf[func[i].code] = ln}
    IN  /\ Idle
        /\ gone # {}
        /\ owner' = [i \in FuncIds |-> IF i \in gone THEN "doomed" ELSE owner[i]]
        /\ reply' = NoReply
        /\ UNCHANGED <<engineVars, userVars, func>>

-----------------------------------------------------------------------------
(* free_function                                                           *)

\* Mutants: no purge; no check that the entry is there; the count is never
\* taken down.
PurgeNothing(n) == UNCHANGED libFuncs
UnrefUnchecked(l) ==
    libraries' = [libraries EXCEPT ![l] = [code |-> @.code, refs |-> @.refs - 1]]
UnrefNothing(l) == UNCHANGED libraries

\* The name is removed from the table of every user who has one.
PurgeName(n) ==
    libFuncs' = [u \in Users |-> IF u \in states THEN [libFuncs[u] EXCEPT ![n] = None]
                                                 ELSE libFuncs[u]]

\* The library entry, if it is still there, loses a reference and is dropped
\* with its last one.
Unref(l) ==
    IF libraries[l] = NoLib THEN UNCHANGED libraries
    ELSE libraries' = [libraries EXCEPT ![l] =
                         IF @.refs - 1 = 0 THEN NoLib
                                           ELSE [code |-> @.code, refs |-> @.refs - 1]]

FreeLibraryFunction(i) ==
    /\ PurgeName(func[i].name)
    /\ Unref(func[i].lib)
    /\ owner' = [owner EXCEPT ![i] = "freed"]
    /\ UNCHANGED <<nextLibId, nextFuncId, states, compiled, funcCache, evalCache, func>>

Free(i) ==
    /\ owner[i] = "doomed"
    /\ FreeLibraryFunction(i)
    /\ reply' = NoReply

\* The server evicts a script: only its text goes.
FreeScript(i) ==
    /\ Idle
    /\ owner[i] = "script"
    /\ owner' = [owner EXCEPT ![i] = "freed"]
    /\ reply' = NoReply
    /\ UNCHANGED <<engineVars, userVars, func>>

-----------------------------------------------------------------------------
(* call_function.  A user's states come into being at its first call.      *)

\* A run of a source in u's function_lua registers its names.
Registered(u, c) == [n \in Names |-> IF n \in Defines[c] THEN c ELSE libFuncs[u][n]]

\* The table the called function is looked up in: the library runs first
\* unless u's state has compiled its lib_id before.
LookupTable(u, i) ==
    IF func[i].lib \in compiled[u] THEN libFuncs[u]
                                   ELSE Registered(u, libraries[func[i].lib].code)

\* The body runs; register_function is still there for it to call.
AfterBody(table, body) == [n \in Names |-> IF n \in Rebinds[body] THEN body ELSE table[n]]

CallStarts(u, i) ==
    /\ Idle
    /\ owner[i] = "linked"
    /\ states' = states \cup {u}
    /\ UNCHANGED <<engineVars, evalCache, hostVars>>

FcallHit(u, i) ==
    /\ CallStarts(u, i)
    /\ funcCache[u][i] # None
    /\ libFuncs' = [libFuncs EXCEPT ![u] = AfterBody(@, funcCache[u][i])]
    /\ reply' = [id |-> i, out |-> funcCache[u][i]]
    /\ UNCHANGED <<compiled, funcCache>>

FcallLibraryMissing(u, i) ==
    /\ CallStarts(u, i)
    /\ funcCache[u][i] = None
    /\ libraries[func[i].lib] = NoLib
    /\ reply' = [id |-> i, out |-> "library_missing"]
    /\ UNCHANGED <<libFuncs, compiled, funcCache>>

\* Mutant: the library is marked compiled before its run is known to succeed.
FcallCompileErrorMarked(u, i) ==
    /\ CallStarts(u, i)
    /\ funcCache[u][i] = None
    /\ libraries[func[i].lib] # NoLib
    /\ func[i].lib \notin compiled[u]
    /\ libraries[func[i].lib].code \notin Runs
    /\ libFuncs' = [libFuncs EXCEPT ![u] = Registered(u, libraries[func[i].lib].code)]
    /\ compiled' = [compiled EXCEPT ![u] = @ \cup {func[i].lib}]
    /\ reply' = [id |-> i, out |-> "compile_error"]
    /\ UNCHANGED funcCache

\* The source raises in the user's state: what it registered before stays,
\* and the library is not marked compiled.
FcallCompileError(u, i) ==
    LET lib == libraries[func[i].lib]
    IN  /\ CallStarts(u, i)
        /\ funcCache[u][i] = None
        /\ lib # NoLib
        /\ func[i].lib \notin compiled[u]
        /\ lib.code \notin Runs
        /\ libFuncs' = [libFuncs EXCEPT ![u] = Registered(u, lib.code)]
        /\ reply' = [id |-> i, out |-> "compile_error"]
        /\ UNCHANGED <<compiled, funcCache>>

\* The library is, or has just been, compiled in the user's state.
LibraryReady(u, i) ==
    /\ funcCache[u][i] = None
    /\ libraries[func[i].lib] # NoLib
    /\ func[i].lib \in compiled[u] \/ libraries[func[i].lib].code \in Runs
    /\ compiled' = [compiled EXCEPT ![u] = @ \cup {func[i].lib}]

FcallNotFound(u, i) ==
    /\ CallStarts(u, i)
    /\ LibraryReady(u, i)
    /\ LookupTable(u, i)[func[i].name] = None
    /\ libFuncs' = [libFuncs EXCEPT ![u] = LookupTable(u, i)]
    /\ reply' = [id |-> i, out |-> "not_found"]
    /\ UNCHANGED funcCache

FcallMiss(u, i) ==
    LET body == LookupTable(u, i)[func[i].name]
    IN  /\ CallStarts(u, i)
        /\ LibraryReady(u, i)
        /\ body # None
        /\ libFuncs' = [libFuncs EXCEPT ![u] = AfterBody(LookupTable(u, i), body)]
        /\ funcCache' = [funcCache EXCEPT ![u][i] = body]
        /\ reply' = [id |-> i, out |-> body]

Fcall(u, i) ==
    \/ FcallHit(u, i)
    \/ FcallLibraryMissing(u, i)
    \/ FcallCompileError(u, i)
    \/ FcallNotFound(u, i)
    \/ FcallMiss(u, i)

\* EVAL: the kept text is loaded in u's eval_lua unless its id is cached.
Eval(u, i) ==
    LET body == IF evalCache[u][i] # None THEN evalCache[u][i] ELSE func[i].code
    IN  /\ Idle
        /\ owner[i] = "script"
        /\ states' = states \cup {u}
        /\ evalCache' = [evalCache EXCEPT ![u][i] = body]
        /\ reply' = [id |-> i, out |-> body]
        /\ UNCHANGED <<engineVars, libFuncs, compiled, funcCache, hostVars>>

-----------------------------------------------------------------------------
(* reset_env.  Old Lua states go away with everything in their registries; *)
(* whether at once or in the returned callback is module EnvReset's.       *)

\* Mutant: the states are kept and only their caches emptied.
EmptiedCaches ==
    /\ funcCache' = [u \in Users |-> EmptyCache]
    /\ UNCHANGED <<libFuncs, compiled>>

FreshFunctionStates ==
    /\ libFuncs' = [u \in Users |-> EmptyNames]
    /\ compiled' = [u \in Users |-> {}]
    /\ funcCache' = [u \in Users |-> EmptyCache]

ForgetLibraries ==
    /\ libraries' = [l \in LibIds |-> NoLib]
    /\ nextLibId' = 0

\* Mutant: the function ids start again as the library ids do.
ResetFunctionsAndIds(fate) ==
    /\ Idle
    /\ ForgetLibraries
    /\ FreshFunctionStates
    /\ nextFuncId' = 0
    /\ owner' = [i \in FuncIds |-> IF owner[i] = "linked" THEN fate ELSE owner[i]]
    /\ reply' = NoReply
    /\ UNCHANGED <<states, evalCache, func>>

\* FUNCTION FLUSH: the functions are the server's to free afterwards, in the
\* same command (doomed) or later in the background (lazy).
ResetFunctions(fate) ==
    /\ Idle
    /\ ForgetLibraries
    /\ FreshFunctionStates
    /\ owner' = [i \in FuncIds |-> IF owner[i] = "linked" THEN fate ELSE owner[i]]
    /\ reply' = NoReply
    /\ UNCHANGED <<nextFuncId, states, evalCache, func>>

\* Mutant: the library ids start again whichever subsystem is reset.
ResetScriptsAndIds ==
    /\ Idle
    /\ nextLibId' = 0
    /\ evalCache' = [u \in Users |-> EmptyCache]
    /\ owner' = [i \in FuncIds |-> IF owner[i] = "script" THEN "freed" ELSE owner[i]]
    /\ reply' = NoReply
    /\ UNCHANGED <<libraries, nextFuncId, states, libFuncs, compiled, funcCache, func>>

\* SCRIPT FLUSH
ResetScripts ==
    /\ Idle
    /\ evalCache' = [u \in Users |-> EmptyCache]
    /\ owner' = [i \in FuncIds |-> IF owner[i] = "script" THEN "freed" ELSE owner[i]]
    /\ reply' = NoReply
    /\ UNCHANGED <<engineVars, states, libFuncs, compiled, funcCache, func>>

\* reset_env of both subsystems: the dictionary of users starts anew.
ResetAll ==
    /\ Idle
    /\ ForgetLibraries
    /\ FreshFunctionStates
    /\ evalCache' = [u \in Users |-> EmptyCache]
    /\ states' = {}
    /\ owner' = [i \in FuncIds |-> IF owner[i] = "linked" THEN "doomed"
                                 ELSE IF owner[i] = "script" THEN "freed" ELSE owner[i]]
    /\ reply' = NoReply
    /\ UNCHANGED <<nextFuncId, func>>

\* The background thread frees a function of an asynchronous flush.
LazyFree(i) ==
    /\ owner[i] = "lazy"
    /\ FreeLibraryFunction(i)
    /\ UNCHANGED reply

-----------------------------------------------------------------------------
Next ==
    \/ \E c \in Codes : CompileLibrary(c)
    \/ \E s \in Scripts : CompileScript(s)
    \/ Link
    \/ Reject
    \/ \E ln \in LibNames : DeleteLibrary(ln)
    \/ \E i \in FuncIds : Free(i)
    \/ \E i \in FuncIds : FreeScript(i)
    \/ \E u \in Users, i \in FuncIds : Fcall(u, i)
    \/ \E u \in Users, i \in FuncIds : Eval(u, i)
    \/ ResetFunctions("doomed")
    \/ ResetScripts
    \/ ResetAll

NextLazy ==
    \/ Next
    \/ ResetFunctions("lazy")
    \/ \E i \in FuncIds : LazyFree(i)

Spec     == Init /\ [][Next]_vars
SpecLazy == Init /\ [][NextLazy]_vars

\* A command that has begun is carried to its end.
FairSpec == Spec /\ WF_vars(Link) /\ WF_vars(Reject) /\ WF_vars(\E i \in FuncIds : Free(i))
-----------------------------------------------------------------------------
(* Properties                                                              *)

\* The tables hold what the C structures and the Lua registries can hold: an
\* EVAL script never gets into a function table, nor a library into eval_lua.
TypeOK ==
    /\ libraries \in [LibIds -> Library \cup {NoLib}]
    /\ nextLibId \in 0..MaxLibId
    /\ nextFuncId \in 0..MaxFuncId
    /\ states \subseteq Users
    /\ libFuncs \in [Users -> [Names -> Codes \cup {None}]]
    /\ compiled \in [Users -> SUBSET LibIds]
    /\ funcCache \in [Users -> [FuncIds -> Codes \cup {None}]]
    /\ evalCache \in [Users -> [FuncIds -> Scripts \cup {None}]]
    /\ func \in [FuncIds -> FuncRec]
    /\ owner \in [FuncIds -> Owner]
    /\ reply \in [id : {0} \cup FuncIds, out : Bodies \cup Failures \cup {None}]

\* The functions of library l that the server has yet to free.
Unfreed(l) ==
    {i \in FuncIds : owner[i] \in {"pending", "linked", "doomed"} /\ func[i].lib = l}

\* The reference count of a library is the number of its functions that
\* free_function has still to be called for: lib_id is never mistaken for
\* that of an earlier library, although reset_env starts the ids again.
RefCountExact ==
    \A l \in LibIds :
        libraries[l] # NoLib => libraries[l].refs = Cardinality(Unfreed(l))

\* A function that can be called has its library, with its own source: the
\* server never frees the last reference of a library it still serves.
LiveLibrary ==
    \A i \in Owned("linked") :
        LET lib == libraries[func[i].lib] IN lib # NoLib /\ lib.code = func[i].code

\* What a user's state has registered under a name is the function of that
\* name which is linked, or which this command is about to free: no deleted
\* or replaced library leaves a function behind for a namesake to run.
RegistrationSound ==
    \A u \in Users, n \in Names :
        libFuncs[u][n] # None =>
            \E i \in Owned("linked") \cup Owned("doomed") :
                func[i].name = n /\ func[i].code = libFuncs[u][n]

\* A cached closure belongs to the function object with that id.  Neither
\* free_function nor a reset of the other subsystem purges the caches: it is
\* next_func_id that must never run backwards.
CacheSound ==
    \A u \in Users, i \in FuncIds :
        /\ funcCache[u][i] # None => funcCache[u][i] = func[i].code
        /\ evalCache[u][i] # None => evalCache[u][i] = func[i].code

DeclaredNames(c) == {Declares[c][k] : k \in DOMAIN Declares[c]}

\* Sources register in a user's state only names they registered at load, and
\* their functions register none.  The code does not enforce either.
LoadOnlySources ==
    \A c \in Codes : Defines[c] \subseteq DeclaredNames(c) /\ Rebinds[c] = {}

\* A call that runs something runs the called function's own source.
AnswersOwnBody == reply.out \in Bodies => reply.out = func[reply.id].code

\* A later load of the same name went through free_function.
NamePurgedSince(i) ==
    \E j \in Owned("freed") \cup Owned("doomed") : j > i /\ func[j].name = func[i].name

\* Once a user's state has compiled a linked function's library, the function
\* is registered there, unless a refused load of its name was freed since.
RegisteredUnlessPurged ==
    \A u \in Users, i \in Owned("linked") :
        /\ func[i].lib \in compiled[u]
        /\ libFuncs[u][func[i].name] = None
        => NamePurgedSince(i)

\* A function that can be called, of a source that runs, is never answered
\* "ERR Function %s not found in library".
LinkedFunctionIsFound == reply.out # "not_found"

\* However late the functions of a flush are freed, a library is never kept
\* for more references than it has functions to free.
NoExtraReference ==
    \A l \in LibIds :
        libraries[l] # NoLib => libraries[l].refs <= Cardinality(Unfreed(l))

\* Only loading a library registers functions: whatever is registered in a
\* user's state is a name its source registers at FUNCTION LOAD.
RegisteredByLoadOnly ==
    \A u \in Users, n \in Names :
        libFuncs[u][n] # None => n \in DeclaredNames(libFuncs[u][n])

\* A library without a linked function is not kept: the functions of a
\* refused load or a replaced library are freed to the last reference.
\* (One that registered nothing has none to free, and is kept.)
Orphan(l) ==
    /\ libraries[l] # NoLib
    /\ Declares[libraries[l].code] # <<>>
    /\ \A i \in Owned("linked") : func[i].lib # l
OrphansReclaimed == \A l \in LibIds : []<>~Orphan(l)

-----------------------------------------------------------------------------
(* The engine implements the service.                                      *)

LinkedAs(n) == {i \in Owned("linked") : func[i].name = n}
ServedCode(n) == IF LinkedAs(n) = {} THEN None
                 ELSE func[CHOOSE i \in LinkedAs(n) : TRUE].code
AnswerOf(r) ==
    IF r = NoReply THEN [to |-> None, out |-> None]
    ELSE [to  |-> IF func[r.id].name = None THEN func[r.id].code ELSE func[r.id].name,
          out |-> IF r.out \in Failures THEN "error" ELSE r.out]

Service == INSTANCE ScriptService WITH
    served  <- [n \in Names |-> ServedCode(n)],
    clouded <- {n \in Names : \E i \in LinkedAs(n) : NamePurgedSince(i)},
    scripts <- {func[i].code : i \in Owned("script")},
    answer  <- AnswerOf(reply)

\* Every step of the engine is a step of the service or none: loads take
\* effect whole, calls answer with the body being served, and errors are
\* confined to sources that do not run and names a refused load has used.
ImplementsService == Service!Spec
=============================================================================
