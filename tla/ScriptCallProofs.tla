-------------------------- MODULE ScriptCallProofs --------------------------
(***************************************************************************)
(* What ScriptCall keeps for every hook interval, nesting bound and        *)
(* number of leaks.  The inductive invariant adds to the properties where  *)
(* the stack stands in every phase, and that a format is at most 12 long.  *)
(***************************************************************************)
EXTENDS ScriptCall, SequenceTheorems, TLAPS

\* The pcalls entered.
FramesOK ==
    /\ frames \in Seq(0 .. LineLength)
    /\ Len(frames) <= MaxDepth
    /\ InScript <=> frames # <<>>

\* The other variables have their types.
RestTyped ==
    /\ type \in {"EVAL", "FUNCTION"}
    /\ phase \in Phases
    /\ top \in Int
    /\ rctx \in Context \cup {None}
    /\ hook \in {"none", "count", "line"}
    /\ ffiCtx \in BOOLEAN
    /\ ticks \in 0 .. Interval
    /\ killed \in BOOLEAN /\ raises \in BOOLEAN
    /\ inuse \in Nat /\ argv \in Nat
    /\ missing \in Nat /\ refused \in Nat /\ stranded \in Nat
    /\ answers \in {0, 1}
    /\ gcCount \in 0 .. GcPeriod - 1 /\ fullGcCount \in 0 .. FullGcPeriod - 1

Letters == {"v", "!", "E", "M", "S", "X", "C", "A", "R", "3"}
FormatOK == format \in Seq(Letters) /\ Len(format) <= 12

CallContext ==
    /\ InCall <=> rctx # None
    /\ InCall <=> hook # "none"
    /\ ffiCtx <=> (InCall /\ EnableFfi)
    /\ hook = "line" => killed

\* Where the stack stands: the cache of functions while one is looked for,
\* the error handler and the function or its result during the call.
TopByPhase ==
    phase # "aborted" =>
        top = EmptyTop(type) - missing
              + (IF InCall THEN 2 ELSE IF phase \in {"lookup", "toplevel"} THEN 1 ELSE 0)

Accounted == AnswerOnce /\ GuardAccounted /\ ArgvAccounted

IInv == RestTyped /\ FramesOK /\ FormatOK /\ CallContext /\ TopByPhase /\ Accounted

-----------------------------------------------------------------------------
(* Sequences.                                                              *)

\* The frames below the innermost one.
LEMMA PopFrames ==
    ASSUME NEW S, NEW s \in Seq(S), Len(s) > 1
    PROVE  Pop(s) \in Seq(S) /\ Len(Pop(s)) = Len(s) - 1 /\ Pop(s) # <<>>
<1>1. Len(s) \in Nat
    BY LenProperties
<1>2. Len(s) - 1 \in 0 .. Len(s) /\ 1 \in 1 .. Len(s) + 1
    BY <1>1
<1>3. Pop(s) \in Seq(S) /\ Len(Pop(s)) = Len(s) - 1
    BY <1>1, <1>2, SubSeqProperties DEF Pop
<1>. QED
    BY <1>1, <1>3

\* One letter, or none.
LEMMA Optional ==
    ASSUME NEW S, NEW c \in S, NEW p \in BOOLEAN
    PROVE  /\ (IF p THEN <<c>> ELSE <<>>) \in Seq(S)
           /\ Len(IF p THEN <<c>> ELSE <<>>) = IF p THEN 1 ELSE 0
<1>1. CASE p
    BY <1>1
<1>2. CASE ~p
    BY <1>2
<1>. QED
    BY <1>1, <1>2

LEMMA Two ==
    ASSUME NEW c, NEW d
    PROVE  Len(<<c, d>>) = 2
OBVIOUS

\* A format has at most twelve letters: all four of A and R when nothing is
\* propagated, one of them when one kind is.
LEMMA FormatShort ==
    ASSUME NEW user \in BOOLEAN, NEW ctx \in Context
    PROVE  Format(user, ctx) \in Seq(Letters) /\ Len(Format(user, ctx)) <= 12
<1> DEFINE W(f, c) == IF f \in ctx.flags THEN <<>> ELSE <<c>>
           b == <<"v", "!", "E", "M", "S", "X">>
           u == IF user THEN <<"C">> ELSE <<>>
           a == W("aof", "A")
           r == W("repl", "R")
           n == IF ctx.flags = {} THEN <<"A", "R">> ELSE <<>>
           v == IF ctx.resp = 3 THEN <<"3">> ELSE <<>>
<1>0. {"v", "!", "E", "M", "S", "X", "C", "A", "R", "3"} \subseteq Letters
    BY DEF Letters
<1>. HIDE DEF Letters
<1>1. b \in Seq(Letters) /\ Len(b) = 6
    BY <1>0
<1>2. u \in Seq(Letters) /\ Len(u) \in 0 .. 1
    BY <1>0, Optional
<1>3. a \in Seq(Letters) /\ Len(a) \in 0 .. 1 /\ ("aof" \in ctx.flags => Len(a) = 0)
    <2>1. a = IF "aof" \notin ctx.flags THEN <<"A">> ELSE <<>>
        OBVIOUS
    <2>. HIDE DEF a
    <2>. QED
        BY <1>0, <2>1, Optional
<1>4. r \in Seq(Letters) /\ Len(r) \in 0 .. 1 /\ ("repl" \in ctx.flags => Len(r) = 0)
    <2>1. r = IF "repl" \notin ctx.flags THEN <<"R">> ELSE <<>>
        OBVIOUS
    <2>. HIDE DEF r
    <2>. QED
        BY <1>0, <2>1, Optional
<1>5. n \in Seq(Letters) /\ Len(n) \in 0 .. 2 /\ (ctx.flags # {} => Len(n) = 0)
    <2>1. CASE ctx.flags = {}
        BY <1>0, <2>1
    <2>2. CASE ctx.flags # {}
        BY <2>2
    <2>. QED
        BY <2>1, <2>2
<1>6. v \in Seq(Letters) /\ Len(v) \in 0 .. 1
    BY <1>0, Optional
<1>7. ctx.flags # {} => "aof" \in ctx.flags \/ "repl" \in ctx.flags
    BY DEF Context
<1>. HIDE DEF b, u, a, r, n, v
<1>8. b \o u \o a \o r \o n \o v \in Seq(Letters)
    BY <1>1, <1>2, <1>3, <1>4, <1>5, <1>6, ConcatProperties
<1>9. Len(b \o u \o a \o r \o n \o v) = Len(b) + Len(u) + Len(a) + Len(r) + Len(n) + Len(v)
    <2>1. b \o u \in Seq(Letters) /\ Len(b \o u) = Len(b) + Len(u)
        BY <1>1, <1>2, ConcatProperties
    <2>2. b \o u \o a \in Seq(Letters) /\ Len(b \o u \o a) = Len(b \o u) + Len(a)
        BY <2>1, <1>3, ConcatProperties
    <2>3. b \o u \o a \o r \in Seq(Letters) /\ Len(b \o u \o a \o r) = Len(b \o u \o a) + Len(r)
        BY <2>2, <1>4, ConcatProperties
    <2>4. /\ b \o u \o a \o r \o n \in Seq(Letters)
          /\ Len(b \o u \o a \o r \o n) = Len(b \o u \o a \o r) + Len(n)
        BY <2>3, <1>5, ConcatProperties
    <2>5. Len(b \o u \o a \o r \o n \o v) = Len(b \o u \o a \o r \o n) + Len(v)
        BY <2>4, <1>6, ConcatProperties
    <2>. QED
        BY <2>1, <2>2, <2>3, <2>4, <2>5
<1>10. Len(b) + Len(u) + Len(a) + Len(r) + Len(n) + Len(v) <= 12
    <2>1. ASSUME NEW i \in 0 .. 1, NEW j \in 0 .. 1, NEW k \in 0 .. 1, NEW l \in 0 .. 2,
                 NEW m \in 0 .. 1, l = 0 => j = 0 \/ k = 0
          PROVE  6 + i + j + k + l + m <= 12
        BY <2>1
    <2>2. Len(n) = 0 => Len(a) = 0 \/ Len(r) = 0
        <3>1. CASE ctx.flags = {}
            BY <3>1, Two DEF n
        <3>2. CASE ctx.flags # {}
            BY <1>3, <1>4, <1>7, <3>2
        <3>. QED
            BY <3>1, <3>2
    <2>3. Len(b) = 6
        BY <1>1
    <2>4. PICK i \in 0 .. 1, j \in 0 .. 1, k \in 0 .. 1, l \in 0 .. 2, m \in 0 .. 1 :
              i = Len(u) /\ j = Len(a) /\ k = Len(r) /\ l = Len(n) /\ m = Len(v)
        BY <1>2, <1>3, <1>4, <1>5, <1>6
    <2>5. 6 + i + j + k + l + m <= 12
        BY <2>1, <2>2, <2>4
    <2>. QED
        BY <2>3, <2>4, <2>5
<1>11. Format(user, ctx) = b \o u \o a \o r \o n \o v
    BY DEF Format, b, u, a, r, n, v
<1>. QED
    BY <1>8, <1>9, <1>10, <1>11

-----------------------------------------------------------------------------
(* The pcalls entered.                                                     *)

\* A step of a running script is made by its innermost frame.
LEMMA CanStepFrames ==
    ASSUME FramesOK, CanStep
    PROVE  /\ Len(frames) \in Nat /\ Len(frames) > 0
           /\ Spent \in Seq(0 .. LineLength) /\ Len(Spent) = Len(frames)
           /\ Spent # <<>>
<1>1. Len(frames) \in Nat /\ Len(frames) > 0
    BY EmptySeq, LenProperties DEF FramesOK, CanStep, InScript
<1>2. CASE hook = "line"
    <2>1. Spent = [frames EXCEPT ![Len(frames)] = @ - 1]
        BY <1>2 DEF Spent
    <2>2. frames[Len(frames)] > 0 /\ frames[Len(frames)] \in 0 .. LineLength
        <3>1. Len(frames) \in 1 .. Len(frames)
            BY <1>1
        <3>2. frames[Len(frames)] \in 0 .. LineLength
            BY <3>1, ElementOfSeq DEF FramesOK
        <3>. QED
            BY <1>2, <3>2 DEF CanStep, Last
    <2>3. frames[Len(frames)] - 1 \in 0 .. LineLength
        BY <2>2, BoundsAssumption
    <2>4. [frames EXCEPT ![Len(frames)] = frames[Len(frames)] - 1] \in Seq(0 .. LineLength)
        BY <1>1, <2>3, ExceptSeq DEF FramesOK
    <2>5. Len([frames EXCEPT ![Len(frames)] = frames[Len(frames)] - 1]) = Len(frames)
        BY <1>1, <2>3, ExceptSeq DEF FramesOK
    <2>. QED
        BY <1>1, <2>1, <2>4, <2>5
<1>3. CASE hook # "line"
    BY <1>1, <1>3 DEF Spent, FramesOK
<1>. QED
    BY <1>1, <1>2, <1>3

\* An error goes to the script around the innermost pcall, or to the engine.
LEMMA UnwindFrames ==
    ASSUME FramesOK, Unwind
    PROVE  /\ frames' \in Seq(0 .. LineLength) /\ Len(frames') <= MaxDepth
           /\ phase' \in {"script", "raised"}
           /\ phase' = "script" <=> frames' # <<>>
<1>0. Len(frames) \in Nat
    BY LenProperties DEF FramesOK
<1>1. CASE Len(frames) > 1
    <2>1. Pop(frames) \in Seq(0 .. LineLength) /\ Len(Pop(frames)) = Len(frames) - 1
          /\ Pop(frames) # <<>>
        BY <1>1, PopFrames DEF FramesOK
    <2>2. frames' = Pop(frames) /\ phase' = "script"
        BY <1>1 DEF Unwind
    <2>. QED
        BY <1>0, <2>1, <2>2, BoundsAssumption DEF FramesOK
<1>2. CASE ~(Len(frames) > 1)
    BY <1>2, BoundsAssumption DEF Unwind
<1>. QED
    BY <1>1, <1>2

\* What a step inside the script does to the frames and the phase.
FramesMove ==
    /\ frames' \in Seq(0 .. LineLength) /\ Len(frames') <= MaxDepth
    /\ phase' \in {"script", "command", "reply", "returned", "raised"}
    /\ phase' \in {"script", "command", "reply"} <=> frames' # <<>>

LEMMA SpentMove ==
    ASSUME FramesOK, CanStep, frames' = Spent, phase' \in {"script", "command"}
    PROVE  FramesMove
BY CanStepFrames DEF FramesMove, FramesOK

LEMMA UnwindMove ==
    ASSUME FramesOK, Unwind
    PROVE  FramesMove /\ phase' \in {"script", "raised"}
BY UnwindFrames DEF FramesMove

LEMMA EndsMove ==
    ASSUME FramesOK, CanStep, NEW end, EndsAs(end)
    PROVE  FramesMove /\ phase' \in {"script", "raised"}
<1>1. CASE end = "raises"
    BY <1>1, UnwindMove DEF EndsAs
<1>2. CASE end # "raises"
    <2>1. frames' = Spent /\ phase' = "script"
        BY <1>2 DEF EndsAs
    <2>. QED
        BY <2>1, SpentMove
<1>. QED
    BY <1>1, <1>2

LEMMA CommandEndsMove ==
    ASSUME FramesOK, InScript, NEW error, CommandEnds(error)
    PROVE  FramesMove /\ phase' \in {"script", "raised"}
<1>1. CASE error /\ raises
    BY <1>1, UnwindMove DEF CommandEnds
<1>2. CASE ~(error /\ raises)
    <2>1. frames' = frames /\ phase' = "script"
        BY <1>2 DEF CommandEnds
    <2>. QED
        BY <2>1 DEF FramesMove, FramesOK
<1>. QED
    BY <1>1, <1>2

\* The script's own steps.
LEMMA ScriptStepMove ==
    ASSUME FramesOK, ScriptStep
    PROVE  FramesMove
<1>1. CASE RunOn \/ SetRepl \/ SetResp \/ RefuseRecursive \/ Command
    <2>1. CanStep /\ frames' = Spent /\ phase' \in {"script", "command"}
        BY <1>1 DEF RunOn, SetRepl, SetResp, RefuseRecursive, Command, CanStep
    <2>. QED
        BY <2>1, SpentMove
<1>2. CASE EnterPcall
    <2>1. CanStep /\ frames' = Append(Spent, LineLength) /\ phase' = "script"
          /\ Len(frames) < MaxDepth
        BY <1>2 DEF EnterPcall, CanStep
    <2>2. Spent \in Seq(0 .. LineLength) /\ Len(Spent) = Len(frames) /\ Len(frames) \in Nat
        BY <2>1, CanStepFrames
    <2>3. LineLength \in 0 .. LineLength
        BY BoundsAssumption
    <2>4. /\ Append(Spent, LineLength) \in Seq(0 .. LineLength)
          /\ Len(Append(Spent, LineLength)) = Len(Spent) + 1
          /\ Append(Spent, LineLength) # <<>>
        BY <2>2, <2>3, AppendProperties
    <2>5. Len(frames') <= MaxDepth
        BY <2>1, <2>2, <2>4, BoundsAssumption
    <2>. QED
        BY <2>1, <2>4, <2>5 DEF FramesMove
<1>3. CASE LeavePcall
    <2>1. CanStep /\ frames' = Pop(frames) /\ phase' = "script" /\ Len(frames) > 1
        BY <1>3 DEF LeavePcall, CanStep
    <2>2. /\ Pop(frames) \in Seq(0 .. LineLength) /\ Len(Pop(frames)) = Len(frames) - 1
          /\ Pop(frames) # <<>>
        BY <2>1, PopFrames DEF FramesOK
    <2>3. Len(frames') <= MaxDepth
        BY <2>1, <2>2, CanStepFrames, BoundsAssumption DEF FramesOK
    <2>. QED
        BY <2>1, <2>2, <2>3 DEF FramesMove
<1>4. CASE ScriptRaises
    BY <1>4, UnwindMove DEF ScriptRaises
<1>5. CASE ScriptReturns
    BY <1>5, BoundsAssumption DEF ScriptReturns, FramesMove
<1>6. CASE CallServerFunction \/ ArgumentsRefused
    <2>1. CanStep /\ \E end \in {"raises", "returns"} : EndsAs(end)
        BY <1>6 DEF CallServerFunction, ArgumentsRefused, ServerFunction
    <2>. QED
        BY <2>1, EndsMove
<1>7. CASE MaskCountHook
    <2>1. CASE Unwind
        BY <2>1, UnwindMove
    <2>2. CASE UNCHANGED <<phase, frames>>
        BY <1>7, <2>2 DEF MaskCountHook, FramesMove, FramesOK, InScript
    <2>. QED
        BY <1>7, <2>1, <2>2 DEF MaskCountHook
<1>. QED
    BY <1>1, <1>2, <1>3, <1>4, <1>5, <1>6, <1>7 DEF ScriptStep

\* The steps of a command.
LEMMA CommandStepMove ==
    ASSUME FramesOK, CommandStep
    PROVE  FramesMove
<1>1. CASE CommandRefused \/ ReplyConverted
    <2>1. InScript /\ \E error \in BOOLEAN : CommandEnds(error)
        BY <1>1 DEF CommandRefused, ReplyConverted, InScript
    <2>. QED
        BY <2>1, CommandEndsMove
<1>2. CASE ConversionRaises
    BY <1>2, UnwindMove DEF ConversionRaises
<1>3. CASE CommandReplies \/ FinalizerCommand
    BY <1>3 DEF CommandReplies, FinalizerCommand, FramesMove, FramesOK, InScript, runVars
<1>. QED
    BY <1>1, <1>2, <1>3 DEF CommandStep

\* Every step keeps the frames: empty unless a script runs.
LEMMA FramesStep ==
    ASSUME FramesOK, RestTyped, [Next]_vars
    PROVE  FramesOK'
<1>1. CASE ScriptStep \/ CommandStep
    BY <1>1, ScriptStepMove, CommandStepMove DEF FramesMove, FramesOK, InScript
<1>2. CASE CallFunction
    <2>1. frames' = <<LineLength>> /\ phase' = "script"
        BY <1>2 DEF CallFunction
    <2>2. LineLength \in 0 .. LineLength
        BY BoundsAssumption
    <2>3. frames' \in Seq(0 .. LineLength) /\ Len(frames') = 1 /\ frames' # <<>>
        BY <2>1, <2>2
    <2>. QED
        BY <2>1, <2>3, BoundsAssumption DEF FramesOK, InScript
<1>3. CASE UNCHANGED frames /\ ~InScript /\ ~InScript'
    BY <1>3 DEF FramesOK
<1>4. CASE \/ FunctionCall \/ ScriptLoadError \/ LibraryMissing \/ CompileLibrary
           \/ CompileError \/ FunctionMissing
    <2>1. UNCHANGED frames /\ ~InScript /\ ~InScript'
        BY <1>4 DEF FunctionCall, ScriptLoadError, LibraryMissing, CompileLibrary,
            CompileError, FunctionMissing, Answered, InScript, runVars
    <2>. QED
        BY <1>3, <2>1
<1>5. CASE AnswerCall \/ TopLevel
    <2>1. UNCHANGED frames /\ ~InScript /\ ~InScript'
        BY <1>5 DEF AnswerCall, TopLevel, LoadRuns, LoadEnds, TopLevelFunction, Answered,
            InScript, runVars
    <2>. QED
        BY <1>3, <2>1
<1>6. CASE UNCHANGED vars
    BY <1>6 DEF vars, runVars, FramesOK, InScript
<1>. QED
    BY <1>1, <1>2, <1>4, <1>5, <1>6 DEF Next, Lookup

-----------------------------------------------------------------------------
(* The rest of the state.                                                  *)

Rest == RestTyped /\ FormatOK /\ CallContext /\ TopByPhase /\ Accounted

\* The innermost definitions the steps need.
LEMMA Ranges == GcPeriod \in Nat /\ GcPeriod > 0 /\ FullGcPeriod \in Nat /\ FullGcPeriod > 0
                /\ Interval \in Nat /\ Interval > 0
BY BoundsAssumption

\* A step inside the script that changes no more than the hook, the ticks and
\* the phase.
LEMMA WithinScript ==
    ASSUME Rest, phase = "script", phase' \in {"script", "returned", "raised"},
           UNCHANGED <<type, top, rctx, ffiCtx, cmdVars, gcVars, answers, leftVars>>,
           ticks' \in 0 .. Interval, killed' \in BOOLEAN,
           hook' \in {"count", "line"}, hook' = "line" => killed'
    PROVE  Rest'
<1>. USE DEF Rest, cmdVars, gcVars, leftVars, InCall, InScript
<1>1. RestTyped'
    BY DEF RestTyped, Phases
<1>2. FormatOK'
    BY DEF FormatOK
<1>3. CallContext'
    BY DEF CallContext
<1>4. TopByPhase'
    BY DEF TopByPhase, EmptyTop
<1>5. Accounted'
    BY DEF Accounted, AnswerOnce, GuardAccounted, ArgvAccounted
<1>. QED
    BY <1>1, <1>2, <1>3, <1>4, <1>5

LEMMA CountedTicks ==
    ASSUME RestTyped, CanStep, Counted
    PROVE  ticks' \in 0 .. Interval
BY Ranges DEF RestTyped, CanStep, Counted

LEMMA HookInScript ==
    ASSUME CallContext, RestTyped, phase = "script"
    PROVE  hook \in {"count", "line"} /\ (hook = "line" => killed) /\ rctx \in Context
BY DEF CallContext, RestTyped, InCall, InScript

LEMMA PlainStepRest ==
    ASSUME Rest, FramesOK,
           RunOn \/ EnterPcall \/ LeavePcall \/ ScriptRaises \/ ScriptReturns
           \/ CallServerFunction \/ ArgumentsRefused
    PROVE  Rest'
<1>1. CanStep /\ phase = "script" /\ ticks' \in 0 .. Interval
    <2>1. CASE ScriptReturns
        BY <2>1 DEF ScriptReturns, CanStep, Rest, RestTyped
    <2>2. CASE RunOn \/ EnterPcall \/ LeavePcall \/ ScriptRaises
               \/ CallServerFunction \/ ArgumentsRefused
        <3>1. CanStep /\ Counted
            BY <2>2 DEF RunOn, EnterPcall, LeavePcall, ScriptRaises, CallServerFunction,
                ArgumentsRefused
        <3>. QED
            BY <3>1, CountedTicks DEF CanStep, Rest
    <2>. QED
        BY <2>1, <2>2
<1>2. UNCHANGED <<type, top, rctx, hook, ffiCtx, killed, cmdVars, gcVars, answers, leftVars>>
    BY DEF RunOn, EnterPcall, LeavePcall, ScriptRaises, ScriptReturns, CallServerFunction,
        ArgumentsRefused, ctxVars
<1>3. phase' \in {"script", "returned", "raised"}
    <2>1. CASE RunOn \/ EnterPcall \/ LeavePcall \/ ScriptReturns
        BY <1>1, <2>1 DEF RunOn, EnterPcall, LeavePcall, ScriptReturns
    <2>2. CASE ScriptRaises
        BY <2>2, UnwindMove DEF ScriptRaises
    <2>3. CASE CallServerFunction \/ ArgumentsRefused
        <3>1. \E end \in {"raises", "returns"} : EndsAs(end)
            BY <2>3 DEF CallServerFunction, ArgumentsRefused, ServerFunction
        <3>. QED
            BY <1>1, <3>1, EndsMove
    <2>. QED
        BY <2>1, <2>2, <2>3
<1>. QED
    BY <1>1, <1>2, <1>3, HookInScript, WithinScript DEF Rest, RestTyped

LEMMA HookRest ==
    ASSUME Rest, FramesOK, MaskCountHook
    PROVE  Rest'
<1>1. phase = "script" /\ hook \in {"count", "line"} /\ (hook = "line" => killed)
    BY HookInScript DEF MaskCountHook, Rest
<1>2. killed \in BOOLEAN
    BY DEF Rest, RestTyped
<1>3. killed' \in BOOLEAN /\ hook' \in {"count", "line"} /\ (hook' = "line" => killed')
    BY <1>1, <1>2 DEF MaskCountHook
<1>4. phase' \in {"script", "returned", "raised"}
    <2>1. CASE Unwind
        BY <2>1, UnwindMove
    <2>2. CASE UNCHANGED <<phase, frames>>
        BY <1>1, <2>2
    <2>. QED
        BY <2>1, <2>2 DEF MaskCountHook
<1>5. ticks' \in 0 .. Interval
    BY Ranges DEF MaskCountHook
<1>6. UNCHANGED <<type, top, rctx, ffiCtx, cmdVars, gcVars, answers, leftVars>>
    BY DEF MaskCountHook
<1>. QED
    BY <1>1, <1>3, <1>4, <1>5, <1>6, WithinScript

\* The context, changed by set_repl and setresp.
LEMMA ContextStepRest ==
    ASSUME Rest, FramesOK, SetRepl \/ SetResp
    PROVE  Rest'
<1>1. CanStep /\ Counted /\ phase = "script" /\ phase' = "script"
    BY DEF SetRepl, SetResp, CanStep
<1>2. rctx \in Context /\ hook \in {"count", "line"}
    BY <1>1, HookInScript DEF Rest
<1>3. rctx' \in Context
    BY <1>2 DEF SetRepl, SetResp, Context
<1>4. UNCHANGED <<type, top, hook, ffiCtx, killed, cmdVars, gcVars, answers, leftVars>>
    BY DEF SetRepl, SetResp
<1>5. ticks' \in 0 .. Interval
    BY <1>1, CountedTicks DEF Rest
<1>. USE DEF Rest, cmdVars, gcVars, leftVars, InCall, InScript
<1>6. RestTyped'
    BY <1>1, <1>3, <1>4, <1>5 DEF RestTyped, Phases
<1>7. FormatOK'
    BY <1>4 DEF FormatOK
<1>8. CallContext'
    BY <1>1, <1>2, <1>3, <1>4, NoneAssumption DEF CallContext
<1>9. TopByPhase' /\ Accounted'
    BY <1>1, <1>4 DEF TopByPhase, EmptyTop, Accounted, AnswerOnce, GuardAccounted, ArgvAccounted
<1>. QED
    BY <1>6, <1>7, <1>8, <1>9

\* A command that is refused as recursive, from the script or a finalizer.
LEMMA RefuseRest ==
    ASSUME Rest, FramesOK, RefuseRecursive \/ FinalizerCommand
    PROVE  Rest'
<1>. USE DEF Rest, gcVars, leftVars, ctxVars, runVars, InCall, InScript
<1>1. phase \in {"script", "reply"} /\ phase' = phase
    BY DEF RefuseRecursive, FinalizerCommand, CanStep
<1>2. ticks' \in 0 .. Interval
    BY CountedTicks DEF RefuseRecursive, FinalizerCommand, RestTyped
<1>3. /\ UNCHANGED <<type, top, rctx, hook, ffiCtx, killed, raises, format, inuse, gcCount,
                      fullGcCount, answers, missing, stranded>>
      /\ argv' = argv + 1 /\ refused' = refused + 1
    BY DEF RefuseRecursive, FinalizerCommand
<1>4. RestTyped'
    BY <1>1, <1>2, <1>3 DEF RestTyped, Phases
<1>5. FormatOK' /\ CallContext' /\ TopByPhase'
    BY <1>1, <1>3 DEF FormatOK, CallContext, TopByPhase, EmptyTop
<1>6. Accounted'
    BY <1>1, <1>3 DEF Accounted, AnswerOnce, GuardAccounted, ArgvAccounted, RestTyped
<1>. QED
    BY <1>4, <1>5, <1>6

\* A command starts: nothing is stranded, for the guard is free.
LEMMA CommandRest ==
    ASSUME Rest, FramesOK, Command
    PROVE  Rest'
<1>. USE DEF Rest, gcVars, leftVars, ctxVars, InCall, InScript
<1>1. phase = "script" /\ phase' = "command" /\ inuse = 0
    BY DEF Command, CanStep
<1>2. ticks' \in 0 .. Interval
    BY CountedTicks DEF Command
<1>3. /\ UNCHANGED <<type, top, rctx, hook, ffiCtx, killed, gcCount, fullGcCount, answers,
                      missing, refused, stranded>>
      /\ argv' = argv + 1 /\ inuse' = inuse + 1 /\ raises' \in BOOLEAN
    BY DEF Command
<1>4. RestTyped'
    BY <1>1, <1>2, <1>3 DEF RestTyped, Phases
<1>5. FormatOK'
    <2>1. PICK user \in BOOLEAN : format' = Format(user, rctx)
        BY DEF Command
    <2>2. rctx \in Context
        BY <1>1, HookInScript
    <2>. QED
        BY <2>1, <2>2, FormatShort DEF FormatOK
<1>6. CallContext' /\ TopByPhase'
    BY <1>1, <1>3 DEF CallContext, TopByPhase, EmptyTop
<1>7. Accounted'
    BY <1>1, <1>3 DEF Accounted, AnswerOnce, GuardAccounted, ArgvAccounted, RestTyped
<1>. QED
    BY <1>4, <1>5, <1>6, <1>7

\* The running command goes on or ends.
LEMMA CommandStepRest ==
    ASSUME Rest, FramesOK, CommandRefused \/ CommandReplies \/ ReplyConverted \/ ConversionRaises
    PROVE  Rest'
<1>. USE DEF Rest, gcVars, leftVars, ctxVars, runVars, cmdVars, InCall, InScript
<1>1. phase' \in {"script", "raised", "reply"} /\ (phase' = "reply" => CommandReplies)
    <2>1. CASE CommandRefused \/ ReplyConverted
        <3>1. \E error \in BOOLEAN : CommandEnds(error)
            BY <2>1 DEF CommandRefused, ReplyConverted
        <3>2. InScript
            BY <2>1 DEF CommandRefused, ReplyConverted
        <3>. QED
            BY <3>1, <3>2, CommandEndsMove
    <2>2. CASE ConversionRaises
        BY <2>2, UnwindMove DEF ConversionRaises
    <2>3. CASE CommandReplies
        BY <2>3 DEF CommandReplies
    <2>. QED
        BY <2>1, <2>2, <2>3
<1>2. UNCHANGED <<type, top, rctx, hook, ffiCtx, ticks, killed, raises, format, gcCount,
                  fullGcCount, answers, missing, refused>>
    BY DEF CommandRefused, CommandReplies, ReplyConverted, ConversionRaises
<1>3. \/ phase = "command" /\ argv' = argv - 1 /\ inuse' = inuse - 1 /\ stranded' = stranded
         /\ phase' # "reply"
      \/ phase = "command" /\ argv' = argv - 1 /\ inuse' = inuse /\ stranded' = stranded
         /\ phase' = "reply"
      \/ phase = "reply" /\ argv' = argv /\ inuse' = inuse - 1 /\ stranded' = stranded
         /\ phase' # "reply"
      \/ phase = "reply" /\ argv' = argv /\ inuse' = inuse /\ stranded' = stranded + 1
         /\ phase' # "reply"
    BY <1>1 DEF CommandRefused, CommandReplies, ReplyConverted, ConversionRaises
<1>4. Accounted'
    BY <1>1, <1>2, <1>3 DEF Accounted, AnswerOnce, GuardAccounted, ArgvAccounted, RestTyped
<1>5. RestTyped'
    <2>1. inuse' \in Nat /\ argv' \in Nat /\ stranded' \in Nat
        BY <1>1, <1>2, <1>3, <1>4 DEF Accounted, GuardAccounted, ArgvAccounted, RestTyped
    <2>. QED
        BY <1>1, <1>2, <2>1 DEF RestTyped, Phases
<1>6. FormatOK' /\ CallContext' /\ TopByPhase'
    BY <1>1, <1>2, <1>3 DEF FormatOK, CallContext, TopByPhase, EmptyTop
<1>. QED
    BY <1>4, <1>5, <1>6

\* A call that ends before the script runs, or moves on towards it.
LEMMA LookupRest ==
    ASSUME Rest, FramesOK,
           FunctionCall \/ ScriptLoadError \/ LibraryMissing \/ CompileLibrary \/ CompileError
           \/ FunctionMissing \/ LoadRuns \/ LoadEnds \/ TopLevelFunction
    PROVE  Rest'
<1>. USE DEF Rest, gcVars, leftVars, ctxVars, runVars, cmdVars, InCall, InScript
<1>1. UNCHANGED <<type, rctx, hook, ffiCtx, ticks, killed, raises, format, inuse, argv,
                  gcCount, fullGcCount, refused, stranded>>
    BY DEF FunctionCall, ScriptLoadError, LibraryMissing, CompileLibrary, CompileError,
        FunctionMissing, LoadRuns, LoadEnds, TopLevelFunction
<1>2. /\ phase \in {"idle", "lookup", "toplevel", "scratch"}
      /\ \/ /\ phase = "idle" /\ phase' = "lookup" /\ top' = top + 1 /\ answers' = 0
            /\ missing' = missing
         \/ /\ phase \in {"lookup", "toplevel"} /\ phase' = "idle" /\ top' = top - 1
            /\ answers' = answers + 1 /\ missing' = missing
         \/ /\ phase = "lookup" /\ phase' = "idle" /\ top' = top - 2
            /\ answers' = answers + 1 /\ missing' = missing + 1
         \/ /\ \/ phase = "lookup" /\ phase' = "toplevel"
               \/ phase = "idle" /\ phase' = "scratch"
               \/ phase = "scratch" /\ phase' = "idle"
               \/ phase \in {"toplevel", "scratch"} /\ phase' \in {phase, "aborted"}
            /\ UNCHANGED <<top, answers, missing>>
    BY DEF FunctionCall, ScriptLoadError, LibraryMissing, CompileLibrary, CompileError,
        FunctionMissing, LoadRuns, LoadEnds, TopLevelFunction, Answered
<1>3. Accounted'
    BY <1>1, <1>2 DEF Accounted, AnswerOnce, GuardAccounted, ArgvAccounted
<1>4. RestTyped'
    <2>1. answers' \in {0, 1} /\ top' \in Int /\ missing' \in Nat /\ phase' \in Phases
        BY <1>2 DEF Accounted, AnswerOnce, RestTyped, Phases
    <2>. QED
        BY <1>1, <2>1 DEF RestTyped
<1>5. FormatOK' /\ CallContext'
    BY <1>1, <1>2 DEF FormatOK, CallContext
<1>6. TopByPhase'
    BY <1>1, <1>2 DEF TopByPhase, EmptyTop, RestTyped
<1>. QED
    BY <1>3, <1>4, <1>5, <1>6

\* luajitCallFunction sets its context up.
LEMMA CallRest ==
    ASSUME Rest, FramesOK, CallFunction
    PROVE  Rest'
<1>. USE DEF Rest, gcVars, leftVars, ctxVars, runVars, cmdVars, InCall, InScript
<1>1. /\ phase \in {"lookup", "toplevel"} /\ phase' = "script" /\ top' = top + 1
      /\ ffiCtx' = EnableFfi /\ hook' = "count" /\ ticks' = 0 /\ killed' = FALSE
      /\ rctx' = [resp |-> 2, flags |-> {"aof", "repl"}]
      /\ UNCHANGED <<type, raises, format, inuse, argv, gcCount, fullGcCount, answers,
                     missing, refused, stranded>>
    BY DEF CallFunction
<1>2. rctx' \in Context
    BY <1>1 DEF Context
<1>3. RestTyped'
    <2>1. ffiCtx' \in BOOLEAN /\ killed' \in BOOLEAN /\ raises' \in BOOLEAN
        BY <1>1, BoundsAssumption DEF RestTyped
    <2>2. /\ type' \in {"EVAL", "FUNCTION"} /\ phase' \in Phases /\ top' \in Int
          /\ rctx' \in Context \cup {None} /\ hook' \in {"none", "count", "line"}
          /\ ticks' \in 0 .. Interval
        BY <1>1, <1>2, Ranges DEF RestTyped, Phases
    <2>3. /\ inuse' \in Nat /\ argv' \in Nat /\ missing' \in Nat
          /\ refused' \in Nat /\ stranded' \in Nat /\ answers' \in {0, 1}
          /\ gcCount' \in 0 .. GcPeriod - 1 /\ fullGcCount' \in 0 .. FullGcPeriod - 1
        BY <1>1 DEF RestTyped
    <2>. QED
        BY <2>1, <2>2, <2>3 DEF RestTyped
<1>4. FormatOK' /\ CallContext'
    BY <1>1, <1>2, NoneAssumption, BoundsAssumption DEF FormatOK, CallContext
<1>5. TopByPhase'
    BY <1>1 DEF TopByPhase, EmptyTop, RestTyped
<1>6. Accounted'
    BY <1>1 DEF Accounted, AnswerOnce, GuardAccounted, ArgvAccounted
<1>. QED
    BY <1>3, <1>4, <1>5, <1>6

\* luajitCallFunction takes its context away again and answers.
LEMMA AnswerRest ==
    ASSUME Rest, FramesOK, AnswerCall
    PROVE  Rest'
<1>. USE DEF Rest, gcVars, leftVars, ctxVars, runVars, cmdVars, InCall, InScript
<1>1. /\ phase \in {"returned", "raised"} /\ phase' = "idle" /\ top' = top - 2
      /\ ffiCtx' = FALSE /\ hook' = "none" /\ rctx' = None /\ answers' = answers + 1
      /\ UNCHANGED <<type, ticks, killed, raises, format, inuse, argv, missing, refused,
                     stranded>>
    BY DEF AnswerCall, Answered
<1>2. /\ gcCount' \in 0 .. GcPeriod - 1
      /\ fullGcCount' \in 0 .. FullGcPeriod - 1
    BY Ranges DEF AnswerCall, CountTo, RestTyped
<1>3. answers' = 1
    BY <1>1 DEF Accounted, AnswerOnce
<1>4. RestTyped'
    <2>1. ffiCtx' \in BOOLEAN /\ killed' \in BOOLEAN /\ raises' \in BOOLEAN
        BY <1>1 DEF RestTyped
    <2>2. /\ type' \in {"EVAL", "FUNCTION"} /\ phase' \in Phases /\ top' \in Int
          /\ rctx' \in Context \cup {None} /\ hook' \in {"none", "count", "line"}
          /\ ticks' \in 0 .. Interval
        BY <1>1 DEF RestTyped, Phases
    <2>3. /\ inuse' \in Nat /\ argv' \in Nat /\ missing' \in Nat
          /\ refused' \in Nat /\ stranded' \in Nat /\ answers' \in {0, 1}
          /\ gcCount' \in 0 .. GcPeriod - 1 /\ fullGcCount' \in 0 .. FullGcPeriod - 1
        BY <1>1, <1>2, <1>3 DEF RestTyped
    <2>. QED
        BY <2>1, <2>2, <2>3 DEF RestTyped
<1>5. FormatOK' /\ CallContext'
    BY <1>1 DEF FormatOK, CallContext
<1>6. TopByPhase'
    BY <1>1 DEF TopByPhase, EmptyTop, RestTyped
<1>7. Accounted'
    BY <1>1, <1>3 DEF Accounted, AnswerOnce, GuardAccounted, ArgvAccounted
<1>. QED
    BY <1>4, <1>5, <1>6, <1>7

-----------------------------------------------------------------------------
(* The theorems.                                                           *)

LEMMA InitIInv == Init => IInv
<1>. SUFFICES ASSUME Init PROVE IInv
    OBVIOUS
<1>1. FramesOK
    BY BoundsAssumption DEF Init, FramesOK, InScript
<1>2. FormatOK
    BY DEF Init, FormatOK
<1>3. RestTyped
    <2>1. ffiCtx \in BOOLEAN /\ killed \in BOOLEAN /\ raises \in BOOLEAN
        BY DEF Init
    <2>2. /\ type \in {"EVAL", "FUNCTION"} /\ phase \in Phases /\ top \in Int
          /\ rctx \in Context \cup {None} /\ hook \in {"none", "count", "line"}
          /\ ticks \in 0 .. Interval
        BY Ranges DEF Init, Phases, EmptyTop
    <2>3. /\ inuse \in Nat /\ argv \in Nat /\ missing \in Nat
          /\ refused \in Nat /\ stranded \in Nat /\ answers \in {0, 1}
          /\ gcCount \in 0 .. GcPeriod - 1 /\ fullGcCount \in 0 .. FullGcPeriod - 1
        BY Ranges DEF Init
    <2>. QED
        BY <2>1, <2>2, <2>3 DEF RestTyped
<1>4. CallContext /\ TopByPhase /\ Accounted
    BY DEF Init, CallContext, TopByPhase, Accounted, AnswerOnce, GuardAccounted,
        ArgvAccounted, InCall, InScript, EmptyTop
<1>. QED
    BY <1>1, <1>2, <1>3, <1>4 DEF IInv

LEMMA StepIInv == IInv /\ [Next]_vars => IInv'
<1>. SUFFICES ASSUME IInv, [Next]_vars PROVE IInv'
    OBVIOUS
<1>1. Rest /\ FramesOK
    BY DEF IInv, Rest
<1>2. FramesOK'
    BY <1>1, FramesStep DEF Rest
<1>3. ASSUME Lookup PROVE Rest'
    BY <1>1, <1>3, LookupRest, CallRest DEF Lookup
<1>4. ASSUME ScriptStep PROVE Rest'
    BY <1>1, <1>4, PlainStepRest, HookRest, ContextStepRest, RefuseRest, CommandRest DEF ScriptStep
<1>5. ASSUME CommandStep PROVE Rest'
    BY <1>1, <1>5, RefuseRest, CommandStepRest DEF CommandStep
<1>6. ASSUME AnswerCall \/ TopLevel PROVE Rest'
    BY <1>1, <1>6, AnswerRest, LookupRest DEF TopLevel
<1>7. ASSUME UNCHANGED vars PROVE Rest'
    BY <1>1, <1>7 DEF vars, Rest, RestTyped, FormatOK, CallContext, TopByPhase, Accounted,
        AnswerOnce, GuardAccounted, ArgvAccounted, InCall, InScript, ctxVars, runVars,
        cmdVars, gcVars, leftVars
<1>8. Rest'
    BY <1>3, <1>4, <1>5, <1>6, <1>7 DEF Next
<1>. QED
    BY <1>2, <1>8 DEF IInv, Rest

LEMMA Invariant == Spec => []IInv
BY InitIInv, StepIInv, PTL DEF Spec

\* Every variable keeps its type, the collection counters stay below their
\* periods, whatever those are.
THEOREM ScriptCallTyped == Spec => []TypeOK
<1>1. IInv => TypeOK
    BY DEF IInv, RestTyped, FramesOK, FormatOK, TypeOK, Letters
<1>. QED
    BY <1>1, Invariant, PTL

\* The registry never points to a luajitCallFunction that has returned, and
\* a running script never lacks its context, its hook or its FFI context.
THEOREM ContextLivesWithCall == Spec => []ContextOnlyInCall
<1>1. IInv => ContextOnlyInCall
    BY DEF IInv, CallContext, FramesOK, ContextOnlyInCall
<1>. QED
    BY <1>1, Invariant, PTL

\* The state's stack is the same after every call, less one element for each
\* library found missing.
THEOREM StackKept == Spec => []StackBalance
<1>1. IInv => StackBalance
    BY DEF IInv, TopByPhase, StackBalance, InCall, InScript, RestTyped, EmptyTop
<1>. QED
    BY <1>1, Invariant, PTL

\* A call gets one reply.
THEOREM OneAnswer == Spec => []AnswerOnce
<1>1. IInv => AnswerOnce
    BY DEF IInv, Accounted
<1>. QED
    BY <1>1, Invariant, PTL

\* The guard counts the running command and those whose reply could not be
\* converted, on every path, those an error takes included.
THEOREM GuardKept == Spec => []GuardAccounted
<1>1. IInv => GuardAccounted
    BY DEF IInv, Accounted
<1>. QED
    BY <1>1, Invariant, PTL

\* One argument vector is left behind for each refused command, none for any
\* other.
THEOREM OnlyRefusedKept == Spec => []ArgvAccounted
<1>1. IInv => ArgvAccounted
    BY DEF IInv, Accounted
<1>. QED
    BY <1>1, Invariant, PTL

\* No script makes the letters of a command outgrow their buffer.
THEOREM FormatNeverOverflows == Spec => []FormatFits
<1>1. IInv => FormatFits
    <2>1. ASSUME FormatOK PROVE FormatFits
        <3>1. Len(format) \in Nat /\ Len(format) <= 12
            BY <2>1, LenProperties DEF FormatOK
        <3>. QED
            BY <3>1 DEF FormatFits, FormatSize
    <2>. QED
        BY <2>1 DEF IInv
<1>. QED
    BY <1>1, Invariant, PTL
=============================================================================
