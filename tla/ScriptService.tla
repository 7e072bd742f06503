--------------------------- MODULE ScriptService ----------------------------
(***************************************************************************)
(* What the engine promises the server's clients: which source answers to  *)
(* a function name, and what a call may answer.  It knows no ids, caches,  *)
(* reference counts or Lua states.                                         *)
(***************************************************************************)
EXTENDS Sequences, Functions

CONSTANTS LibNames, Names, Codes, Scripts, LibOf, Declares, Runs, None

VARIABLES
    served,   \* the source that answers to a function name, or None
    clouded,  \* served names that a refused load registered as well
    scripts,  \* the scripts that can be evaluated
    answer    \* what the call that just returned answered

vars == <<served, clouded, scripts, answer>>

NoAnswer == [to |-> None, out |-> None]
NamesOf(c) == Range(Declares[c])

Init ==
    /\ served = [n \in Names |-> None]
    /\ clouded = {}
    /\ scripts = {}
    /\ answer = NoAnswer

Replaces(n, c) == served[n] # None /\ LibOf[served[n]] = LibOf[c]

\* A load is all or nothing: every name of the source, and of the library it
\* replaces, changes hands at once.
Install(c) ==
    /\ NamesOf(c) # {}
    /\ IsInjective(Declares[c])
    /\ \A n \in NamesOf(c) : served[n] = None \/ Replaces(n, c)
    /\ served' = [n \in Names |-> IF n \in NamesOf(c) THEN c
                                  ELSE IF Replaces(n, c) THEN None ELSE served[n]]
    /\ clouded' = clouded \ {n \in Names : n \in NamesOf(c) \/ Replaces(n, c)}
    /\ answer' = NoAnswer
    /\ UNCHANGED scripts

Refuse(c) ==
    /\ clouded' = clouded \cup {n \in NamesOf(c) : served[n] # None}
    /\ answer' = NoAnswer
    /\ UNCHANGED <<served, scripts>>

\* FUNCTION DELETE of one library.
Remove(ln) ==
    /\ served' = [n \in Names |-> IF served[n] # None /\ LibOf[served[n]] = ln
                                  THEN None ELSE served[n]]
    /\ clouded' = {n \in clouded : served'[n] # None}
    /\ answer' = NoAnswer
    /\ UNCHANGED scripts

RemoveAll(kept) ==
    /\ served' = [n \in Names |-> None]
    /\ clouded' = {}
    /\ scripts' = kept
    /\ answer' = NoAnswer

SetScripts(s) ==
    /\ scripts' = s
    /\ answer' = NoAnswer
    /\ UNCHANGED <<served, clouded>>

\* A function answers with its own body.  It may answer an error only if its
\* source does not run in the user's state, or a refused load used its name.
Call(n) ==
    /\ served[n] # None
    /\ \/ answer' = [to |-> n, out |-> served[n]]
       \/ /\ served[n] \notin Runs \/ n \in clouded
          /\ answer' = [to |-> n, out |-> "error"]
    /\ UNCHANGED <<served, clouded, scripts>>

\* A script always answers with its own body.
Evaluate(s) ==
    /\ s \in scripts
    /\ answer' = [to |-> s, out |-> s]
    /\ UNCHANGED <<served, clouded, scripts>>

Quiet == answer' = NoAnswer /\ UNCHANGED <<served, clouded, scripts>>

Next ==
    \/ \E c \in Codes : Install(c) \/ Refuse(c)
    \/ \E ln \in LibNames : Remove(ln)
    \/ RemoveAll(scripts)
    \/ RemoveAll({})
    \/ \E s \in Scripts : SetScripts(scripts \cup {s}) \/ SetScripts(scripts \ {s})
    \/ SetScripts({})
    \/ \E n \in Names : Call(n)
    \/ \E s \in Scripts : Evaluate(s)
    \/ Quiet

Spec == Init /\ [][Next]_vars
=============================================================================
