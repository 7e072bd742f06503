--------------------------- MODULE MCScriptEngine ---------------------------
(* Instances of ScriptEngine for TLC.                                      *)
EXTENDS ScriptEngine, TLC

CONSTANTS
    A, B, f, g,
    pair,   \* registers f and g for library A
    clash,  \* registers g for library B
    half,   \* registers f for library A, raises in a user's state before that
    empty   \* registers nothing, for library B

MCLibOf    == (pair :> A) @@ (clash :> B) @@ (half :> A) @@ (empty :> B)
MCDeclares == (pair :> <<f, g>>) @@ (clash :> <<g>>) @@ (half :> <<f>>) @@ (empty :> <<>>)
MCDefines  == (pair :> {f, g}) @@ (clash :> {g}) @@ (half :> {}) @@ (empty :> {})
MCRebinds  == [c \in Codes |-> {}]

\* A call of clash's function registers f as well.
MCRebindsClash == [c \in Codes |-> IF c = clash THEN {f} ELSE {}]

Symmetry == Permutations(Users)
=============================================================================
