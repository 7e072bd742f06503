--------------------------- MODULE MCFunctionLoad ---------------------------
(* Instances of FunctionLoad for TLC: all sources of at most MaxLines of   *)
(* the statements below.                                                   *)
EXTENDS FunctionLoad, SequencesExt

CONSTANTS f, g, MaxLines

Arg(k, e, v)   == [key |-> k, exact |-> e, value |-> v]
Name(n)        == Arg("function_name", TRUE, n)
Callback(v)    == Arg("callback", TRUE, v)
OtherName(n)   == Arg("function_name", FALSE, n)
Line(op, args) == [op |-> op, fields |-> args, guarded |-> FALSE, sameLine |-> FALSE]
Guarded(s)     == [s EXCEPT !.guarded = TRUE]
SameLine(s)    == [s EXCEPT !.sameLine = TRUE]

Accepted == {
    Line("positional", {Name(f), Callback(None)}),
    Line("positional", {Name(g), Callback(None)}),
    Line("named", {Name(f), Callback(None), Arg("description", TRUE, None),
                   Arg("flags", TRUE, None)}) }

Refused == {
    Line("positional", {Name(Bad), Callback(None)}),
    Line("positional", {Name(g), Callback(Bad)}),
    Line("named", {Name(g), Arg("description", TRUE, None)}),
    Line("named", {Name(g), Callback(None), Arg("description", TRUE, Bad)}),
    Line("named", {Name(g), Callback(None), Arg("unknown", TRUE, None)}),
    Line("named", {Name(g), Callback(None), Arg("flags", TRUE, Throws)}),
    Line("misused", {}) }

OtherCase == {
    Line("named", {OtherName(f), Callback(None)}),
    Line("named", {Name(f), OtherName(g), Callback(None)}),
    Line("named", {Name(f), OtherName(Bad), Callback(None)}) }

Plainly == {Line("raise", {}), Line("loop", {})}

Statements == Accepted \cup OtherCase \cup Plainly
              \cup {Guarded(s) : s \in Refused \cup Plainly}
              \cup {SameLine(Line("positional", {Name(g), Callback(None)}))}

MCSources == BoundedSeq(Statements \cup Refused, MaxLines)
=============================================================================
