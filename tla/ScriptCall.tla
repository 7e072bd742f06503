----------------------------- MODULE ScriptCall -----------------------------
(***************************************************************************)
(* One Lua state of a user while it answers calls (script_luajit.c, and    *)
(* luajitEngineFunctionCall of engine_luajit.c around it): the stack left  *)
(* between calls, the run context that server.* commands find in the       *)
(* registry, the hook a kill works through, and the process-wide guard     *)
(* against recursive commands.                                             *)
(*                                                                         *)
(* A script is any program: at each step it may run on, enter or leave a   *)
(* pcall, raise, or call a function of the server table.                   *)
(***************************************************************************)
EXTENDS Integers, Sequences, FiniteSets

CONSTANTS
    Interval,     \* steps between two count hooks
    LineLength,   \* most steps of a script on one line without a jump back
    MaxDepth,     \* bound: nested pcalls, the engine's own included
    GcPeriod,     \* calls between two collection steps
    FullGcPeriod, \* calls between two full collections
    MaxLeaks,     \* bound: each kind of thing left behind
    EnableFfi,    \* the engine was loaded with its FFI API
    None          \* NULL

ASSUME BoundsAssumption ==
    /\ {Interval, LineLength, MaxDepth, GcPeriod, FullGcPeriod} \subseteq Nat \ {0}
    /\ MaxLeaks \in Nat
    /\ EnableFfi \in BOOLEAN

\* luajitFuncCallCtx: the RESP version and what is propagated where.
Context == [resp : {2, 3}, flags : SUBSET {"aof", "repl"}]
ASSUME NoneAssumption == None \notin Context

VARIABLES
    type,        \* the state is a user's eval_lua or function_lua
    phase,       \* of the call
    top,         \* elements on the Lua stack
    rctx,        \* the run context the registry points to, or None
    hook,        \* the installed debug hook
    ffiCtx,      \* __ffi_ctx is set
    frames,      \* the pcalls entered: what is left of the line each is on
    ticks,       \* steps since the last count hook
    killed,      \* the server has killed the running script
    raises,      \* the running command is server.call, not server.pcall
    format,      \* the letters of the last ValkeyModule_Call
    inuse,       \* luajitServerGenericCommand's static counter
    argv,        \* argument vectors allocated and not freed
    gcCount, fullGcCount, \* __gc_count, __full_gc_count
    answers,     \* replies given to the current or last call
    missing,     \* calls answered that the library is missing
    refused,     \* commands refused as recursive
    stranded     \* commands whose reply could not be converted

ctxVars   == <<rctx, hook, ffiCtx>>
runVars   == <<frames, ticks, killed>>
cmdVars   == <<raises, format, inuse, argv>>
gcVars    == <<gcCount, fullGcCount>>
leftVars  == <<missing, refused, stranded>>
vars == <<type, phase, top, ctxVars, runVars, cmdVars, gcVars, answers, leftVars>>

-----------------------------------------------------------------------------
\* initializeEvalExtras stores the error handler under two globals from one
\* pushed value: the second store pops below the empty stack.
EmptyTop(t) == IF t = "EVAL" THEN 1 - 2 ELSE 0

Init ==
    /\ type \in {"EVAL", "FUNCTION"}
    /\ phase = "idle"
    /\ top = EmptyTop(type)
    /\ rctx = None
    /\ hook = "none"
    /\ ffiCtx = FALSE
    /\ frames = <<>>
    /\ ticks = 0
    /\ killed = FALSE
    /\ raises = FALSE
    /\ format = <<>>
    /\ inuse = 0
    /\ argv = 0
    /\ gcCount = 0
    /\ fullGcCount = 0
    /\ answers = 1
    /\ missing = 0
    /\ refused = 0
    /\ stranded = 0

-----------------------------------------------------------------------------
(* Finding the function: the stack holds the cache, then what was found.   *)

FunctionCall ==
    /\ phase = "idle"
    /\ phase' = "lookup"
    /\ top' = top + 1
    /\ answers' = 0
    /\ UNCHANGED <<type, ctxVars, runVars, cmdVars, gcVars, leftVars>>

Answered(pops) ==
    /\ phase' = "idle"
    /\ answers' = answers + 1
    /\ top' = top - pops

\* luaL_loadbuffer leaves its message.
ScriptLoadError ==
    /\ phase = "lookup" /\ type = "EVAL"
    /\ Answered(2 - 1)
    /\ UNCHANGED <<type, ctxVars, runVars, cmdVars, gcVars, leftVars>>

\* Mutant: the missing library is answered without a return.
LibraryMissingGoesOn ==
    /\ phase = "lookup" /\ type = "FUNCTION"
    /\ missing < MaxLeaks
    /\ phase' = "toplevel"
    /\ answers' = answers + 1
    /\ missing' = missing + 1
    /\ UNCHANGED <<type, top, ctxVars, runVars, cmdVars, gcVars, refused, stranded>>

\* Two elements are popped, one was pushed.
LibraryMissing ==
    /\ phase = "lookup" /\ type = "FUNCTION"
    /\ missing < MaxLeaks
    /\ Answered(2)
    /\ missing' = missing + 1
    /\ UNCHANGED <<type, ctxVars, runVars, cmdVars, gcVars, refused, stranded>>

\* The library's source runs in the user's state: no context, no hook.
CompileLibrary ==
    /\ phase = "lookup" /\ type = "FUNCTION"
    /\ phase' = "toplevel"
    /\ UNCHANGED <<type, top, ctxVars, runVars, cmdVars, gcVars, answers, leftVars>>

\* The error value of lua_pcall lies above the cache.
CompileError ==
    /\ phase = "toplevel"
    /\ Answered(2 - 1)
    /\ UNCHANGED <<type, ctxVars, runVars, cmdVars, gcVars, leftVars>>

\* Mutant: the nil is not popped.
FunctionMissingShort ==
    /\ phase \in {"lookup", "toplevel"} /\ type = "FUNCTION"
    /\ Answered(2 - 2)
    /\ UNCHANGED <<type, ctxVars, runVars, cmdVars, gcVars, leftVars>>

\* cache, __library_functions and the nil found there.
FunctionMissing ==
    /\ phase \in {"lookup", "toplevel"} /\ type = "FUNCTION"
    /\ Answered(3 - 2)
    /\ UNCHANGED <<type, ctxVars, runVars, cmdVars, gcVars, leftVars>>

\* A cached, loaded or just compiled function takes the place of the cache,
\* the error handler goes below it; luajitCallFunction sets up its context.
CallFunction ==
    /\ phase \in {"lookup", "toplevel"}
    /\ phase' = "script"
    /\ top' = top + 1
    /\ ffiCtx' = EnableFfi
    /\ rctx' = [resp |-> 2, flags |-> {"aof", "repl"}]
    /\ hook' = "count"
    /\ frames' = <<LineLength>>
    /\ ticks' = 0
    /\ killed' = FALSE
    /\ UNCHANGED <<type, cmdVars, gcVars, answers, leftVars>>

-----------------------------------------------------------------------------
(* The script.  Under the count hook it makes Interval steps; under the    *)
(* line hook it can only finish lines already begun.                       *)

Last(s) == s[Len(s)]
Pop(s)  == SubSeq(s, 1, Len(s) - 1)

CanStep ==
    /\ phase = "script"
    /\ IF hook = "line" THEN Last(frames) > 0 ELSE ticks < Interval

\* The frames after a step on the current line, and the ticks.
Spent   == IF hook = "line" THEN [frames EXCEPT ![Len(frames)] = @ - 1] ELSE frames
Counted == ticks' = IF hook = "line" THEN ticks ELSE ticks + 1

\* lua_error: the innermost pcall returns it to its script, or the engine's.
Unwind ==
    IF Len(frames) > 1
    THEN /\ frames' = Pop(frames)
         /\ phase' = "script"
    ELSE /\ frames' = <<>>
         /\ phase' = "raised"

RunOn ==
    /\ CanStep
    /\ frames' = Spent
    /\ Counted
    /\ UNCHANGED <<type, phase, top, ctxVars, killed, cmdVars, gcVars, answers, leftVars>>

\* pcall and coroutine.resume.
EnterPcall ==
    /\ CanStep
    /\ Len(frames) < MaxDepth
    /\ frames' = Append(Spent, LineLength)
    /\ Counted
    /\ UNCHANGED <<type, phase, top, ctxVars, killed, cmdVars, gcVars, answers, leftVars>>

LeavePcall ==
    /\ CanStep
    /\ Len(frames) > 1
    /\ frames' = Pop(frames)
    /\ Counted
    /\ UNCHANGED <<type, phase, top, ctxVars, killed, cmdVars, gcVars, answers, leftVars>>

ScriptRaises ==
    /\ CanStep
    /\ Unwind
    /\ Counted
    /\ UNCHANGED <<type, top, ctxVars, killed, cmdVars, gcVars, answers, leftVars>>

ScriptReturns ==
    /\ CanStep
    /\ Len(frames) = 1
    /\ frames' = <<>>
    /\ phase' = "returned"
    /\ UNCHANGED <<type, top, ctxVars, ticks, killed, cmdVars, gcVars, answers, leftVars>>

\* Mutant: the killed script's hook stays the count hook.
HookStaysCount ==
    /\ phase = "script"
    /\ hook = "count" => ticks = Interval
    /\ killed' \in {killed, TRUE}
    /\ IF killed' THEN Unwind ELSE UNCHANGED <<phase, frames>>
    /\ ticks' = 0
    /\ UNCHANGED <<type, top, ctxVars, cmdVars, gcVars, answers, leftVars>>

\* luajitMaskCountHook, at a count or at a new line: asking for the execution
\* state lets the server receive a kill.
MaskCountHook ==
    /\ phase = "script"
    /\ hook = "count" => ticks = Interval
    /\ killed' \in {killed, TRUE}
    /\ hook' = IF killed' THEN "line" ELSE hook
    /\ IF killed' THEN Unwind ELSE UNCHANGED <<phase, frames>>
    /\ ticks' = 0
    /\ UNCHANGED <<type, top, rctx, ffiCtx, cmdVars, gcVars, answers, leftVars>>

-----------------------------------------------------------------------------
(* server.call and server.pcall.                                           *)

\* The functions of the server table: which take a run context from the
\* registry, and how each ends, but for those that are actions of their own.
ServerFunction == [
    log           |-> [needs |-> TRUE,  ends |-> {"returns", "raises"}],
    acl_check_cmd |-> [needs |-> TRUE,  ends |-> {"returns", "raises"}],
    sha1hex       |-> [needs |-> FALSE, ends |-> {"returns", "raises"}],
    error_reply   |-> [needs |-> FALSE, ends |-> {"returns"}],
    status_reply  |-> [needs |-> FALSE, ends |-> {"returns"}],
    call          |-> [needs |-> TRUE,  ends |-> {}],
    pcall         |-> [needs |-> TRUE,  ends |-> {}],
    set_repl      |-> [needs |-> TRUE,  ends |-> {}],
    setresp       |-> [needs |-> TRUE,  ends |-> {}]]

EndsAs(end) ==
    IF end = "raises"
    THEN Unwind
    ELSE frames' = Spent /\ phase' = "script"

CallServerFunction ==
    /\ CanStep
    /\ \E f \in DOMAIN ServerFunction : \E end \in ServerFunction[f].ends : EndsAs(end)
    /\ Counted
    /\ UNCHANGED <<type, top, ctxVars, killed, cmdVars, gcVars, answers, leftVars>>

\* server.set_repl: what is not a number counts as 0, REPL_NONE.
SetRepl ==
    /\ CanStep
    /\ \E fs \in SUBSET {"aof", "repl"} : rctx' = [rctx EXCEPT !.flags = fs]
    /\ frames' = Spent
    /\ Counted
    /\ UNCHANGED <<type, phase, top, hook, ffiCtx, killed, cmdVars, gcVars, answers, leftVars>>

SetResp ==
    /\ CanStep
    /\ \E v \in {2, 3} : rctx' = [rctx EXCEPT !.resp = v]
    /\ frames' = Spent
    /\ Counted
    /\ UNCHANGED <<type, phase, top, hook, ffiCtx, killed, cmdVars, gcVars, answers, leftVars>>

\* A wrong argument of set_repl or setresp, and of call; pcall returns it.
ArgumentsRefused ==
    /\ CanStep
    /\ \E end \in {"raises", "returns"} : EndsAs(end)
    /\ Counted
    /\ UNCHANGED <<type, top, ctxVars, killed, cmdVars, gcVars, answers, leftVars>>

\* Mutant: no room for the NUL of the longest format.
FormatSize12 == 12

\* fmt, its terminating NUL included, and the letters written to it.
FormatSize == 13

Format(user, ctx) ==
    LET without(f, c) == IF f \in ctx.flags THEN <<>> ELSE <<c>>
    IN  <<"v", "!", "E", "M", "S", "X">>
        \o (IF user THEN <<"C">> ELSE <<>>)
        \o without("aof", "A") \o without("repl", "R")
        \o (IF ctx.flags = {} THEN <<"A", "R">> ELSE <<>>)
        \o (IF ctx.resp = 3 THEN <<"3">> ELSE <<>>)

\* A recursive command: an error table is the value of both functions, and
\* the argument vector built for it is not freed.
RefuseRecursive ==
    /\ CanStep
    /\ inuse > 0
    /\ refused < MaxLeaks
    /\ argv' = argv + 1
    /\ refused' = refused + 1
    /\ frames' = Spent
    /\ Counted
    /\ UNCHANGED <<type, phase, top, ctxVars, killed, raises, format, inuse, gcVars,
                   answers, missing, stranded>>

Command ==
    /\ CanStep
    /\ inuse = 0
    /\ phase' = "command"
    /\ argv' = argv + 1
    /\ inuse' = inuse + 1
    /\ raises' \in BOOLEAN
    /\ \E user \in BOOLEAN : format' = Format(user, rctx)
    /\ frames' = Spent
    /\ Counted
    /\ UNCHANGED <<type, top, ctxVars, killed, gcVars, answers, leftVars>>

\* The command, its reply converted, is over; an error is raised by call.
CommandEnds(error) ==
    IF error /\ raises THEN Unwind ELSE phase' = "script" /\ UNCHANGED frames

\* Mutant: the guard stays taken when the server refuses the command.
CommandRefusedKeeping ==
    /\ phase = "command"
    /\ argv' = argv - 1
    /\ CommandEnds(TRUE)
    /\ UNCHANGED <<type, top, ctxVars, ticks, killed, raises, format, inuse, gcVars,
                   answers, leftVars>>

\* errno is set: the error is rewritten, the reply freed.
CommandRefused ==
    /\ phase = "command"
    /\ argv' = argv - 1
    /\ inuse' = inuse - 1
    /\ CommandEnds(TRUE)
    /\ UNCHANGED <<type, top, ctxVars, ticks, killed, raises, format, gcVars,
                   answers, leftVars>>

\* Mutant: the vector is left to the server.
CommandRepliesKeeping ==
    /\ phase = "command"
    /\ phase' = "reply"
    /\ UNCHANGED <<type, top, ctxVars, runVars, cmdVars, gcVars, answers, leftVars>>

CommandReplies ==
    /\ phase = "command"
    /\ phase' = "reply"
    /\ argv' = argv - 1
    /\ UNCHANGED <<type, top, ctxVars, runVars, raises, format, inuse, gcVars,
                   answers, leftVars>>

\* A collection while Lua values are made runs a finalizer of the script
\* (ffi.gc), which calls a command.  (A finalizer in the script is the script's
\* own call; those that lua_gc and the lookup's allocations run are left out.)
FinalizerCommand ==
    /\ phase = "reply"
    /\ EnableFfi
    /\ refused < MaxLeaks
    /\ argv' = argv + 1
    /\ refused' = refused + 1
    /\ UNCHANGED <<type, phase, top, ctxVars, runVars, raises, format, inuse, gcVars,
                   answers, missing, stranded>>

ReplyConverted ==
    /\ phase = "reply"
    /\ inuse' = inuse - 1
    /\ \E error \in BOOLEAN : CommandEnds(error)
    /\ UNCHANGED <<type, top, ctxVars, ticks, killed, raises, format, argv, gcVars,
                   answers, leftVars>>

\* A Lua error in callReplyToLuaType (no memory, a nil key) passes by the
\* rest of luajitServerGenericCommand.
ConversionRaises ==
    /\ phase = "reply"
    /\ stranded < MaxLeaks
    /\ stranded' = stranded + 1
    /\ Unwind
    /\ UNCHANGED <<type, top, ctxVars, ticks, killed, cmdVars, gcVars, answers,
                   missing, refused>>

-----------------------------------------------------------------------------
(* The end of the call.                                                    *)

\* Mutant: the counter is compared with > instead of >=.
CountPast(n, period) == IF n + 1 > period THEN 0 ELSE n + 1

\* A counter of calls, 0 again at its period.
CountTo(n, period) == IF n + 1 >= period THEN 0 ELSE n + 1

\* Mutant: the registry keeps the context of the finished call.
AnswerCallKeeping ==
    /\ phase \in {"returned", "raised"}
    /\ gcCount' = CountTo(gcCount, GcPeriod)
    /\ fullGcCount' = CountTo(fullGcCount, FullGcPeriod)
    /\ hook' = "none"
    /\ ffiCtx' = FALSE
    /\ Answered(2)
    /\ UNCHANGED <<type, rctx, runVars, cmdVars, leftVars>>

\* The collection, the reply (popping the result or the error), the hook and
\* the context taken away, the error handler popped.
AnswerCall ==
    /\ phase \in {"returned", "raised"}
    /\ gcCount' = CountTo(gcCount, GcPeriod)
    /\ fullGcCount' = CountTo(fullGcCount, FullGcPeriod)
    /\ hook' = "none"
    /\ rctx' = None
    /\ ffiCtx' = FALSE
    /\ Answered(2)
    /\ UNCHANGED <<type, runVars, cmdVars, leftVars>>

-----------------------------------------------------------------------------
(* Outside a call.                                                         *)

\* The functions a scratch state has, of those above.
ScratchFunctions == {"log"}

\* FUNCTION LOAD: a source runs in a state without a run context.
LoadRuns ==
    /\ phase = "idle" /\ type = "FUNCTION"
    /\ phase' = "scratch"
    /\ UNCHANGED <<type, top, ctxVars, runVars, cmdVars, gcVars, answers, leftVars>>

LoadEnds ==
    /\ phase = "scratch"
    /\ phase' = "idle"
    /\ UNCHANGED <<type, top, ctxVars, runVars, cmdVars, gcVars, answers, leftVars>>

\* A library's top level calls a function of the server table: those that
\* need a run context assert it.
TopLevelFunction ==
    /\ phase \in {"toplevel", "scratch"}
    /\ \E f \in IF phase = "scratch" THEN ScratchFunctions ELSE DOMAIN ServerFunction :
           phase' = IF ServerFunction[f].needs /\ rctx = None THEN "aborted" ELSE phase
    /\ UNCHANGED <<type, top, ctxVars, runVars, cmdVars, gcVars, answers, leftVars>>

Lookup  == FunctionCall \/ ScriptLoadError \/ LibraryMissing \/ CompileLibrary
           \/ CompileError \/ FunctionMissing \/ CallFunction
ScriptStep == RunOn \/ EnterPcall \/ LeavePcall \/ ScriptRaises \/ ScriptReturns
           \/ CallServerFunction \/ SetRepl \/ SetResp \/ ArgumentsRefused
           \/ RefuseRecursive \/ Command \/ MaskCountHook
CommandStep == CommandRefused \/ CommandReplies \/ ReplyConverted \/ ConversionRaises
               \/ FinalizerCommand
TopLevel == LoadRuns \/ LoadEnds \/ TopLevelFunction

Next == Lookup \/ ScriptStep \/ CommandStep \/ AnswerCall \/ TopLevel

\* LuaJIT gives every script its next step and runs the hook; the server
\* answers every command.  A library's top level may run for ever.
Fairness == WF_vars(ScriptStep) /\ WF_vars(CommandStep) /\ WF_vars(AnswerCall)

Spec == Init /\ [][Next]_vars /\ Fairness

-----------------------------------------------------------------------------
(* Properties.                                                             *)

Phases == {"idle", "lookup", "toplevel", "scratch", "script", "command", "reply",
           "returned", "raised", "aborted"}
InScript == phase \in {"script", "command", "reply"}
InCall   == InScript \/ phase \in {"returned", "raised"}

\* The variables have their types; the collection counters stay below their
\* periods and the steps between two hooks below Interval.
TypeOK ==
    /\ type \in {"EVAL", "FUNCTION"}
    /\ phase \in Phases
    /\ top \in Int
    /\ rctx \in Context \cup {None}
    /\ hook \in {"none", "count", "line"}
    /\ ffiCtx \in BOOLEAN
    /\ frames \in Seq(0 .. LineLength) /\ Len(frames) <= MaxDepth
    /\ ticks \in 0 .. Interval
    /\ killed \in BOOLEAN /\ raises \in BOOLEAN
    /\ format \in Seq({"v", "!", "E", "M", "S", "X", "C", "A", "R", "3"})
    /\ {inuse, argv, missing, refused, stranded} \subseteq Nat
    /\ answers \in {0, 1}
    /\ gcCount \in 0 .. GcPeriod - 1 /\ fullGcCount \in 0 .. FullGcPeriod - 1

\* The run context, a pointer into luajitCallFunction's frame, is registered
\* exactly while that frame lives; the hook and __ffi_ctx go with it, and the
\* pcalls entered are those of a running script.
ContextOnlyInCall ==
    /\ InCall <=> rctx # None
    /\ InCall <=> hook # "none"
    /\ ffiCtx <=> InCall /\ EnableFfi
    /\ InScript <=> frames # <<>>
    /\ hook = "line" => killed

\* Whatever the path, a call leaves the state's stack as it found it, but
\* for the element popped too many each time a library is missing.
StackBalance == phase = "idle" => top = EmptyTop(type) - missing

\* A call is answered exactly once, and not before it is over.
AnswerOnce ==
    phase # "aborted" => answers = IF phase \in {"idle", "scratch"} THEN 1 ELSE 0

\* The recursion guard counts the running command and those whose reply
\* could not be converted: only these close server.call for every script.
GuardAccounted ==
    inuse = stranded + (IF phase \in {"command", "reply"} THEN 1 ELSE 0)

\* Argument vectors: the running command's, and one for each refused command.
ArgvAccounted == argv = refused + (IF phase = "command" THEN 1 ELSE 0)

\* The letters of a command and their NUL fit the buffer.
FormatFits == Len(format) + 1 <= FormatSize

\* A killed script ends, whatever it catches with pcall on its way out.
KillEnds == killed /\ phase = "script" ~> phase = "idle"

\* "Only supported inside script invocation" (script_luajit.c:1113): no
\* command finds the registry without a run context.
ContextWhereNeeded == phase # "aborted"
=============================================================================
