------------------------- MODULE FunctionLoadProofs -------------------------
(***************************************************************************)
(* Proofs about FunctionLoad: every string of a load is owned once, for    *)
(* any sources, a late load registers nothing on another line, and a plain *)
(* source registers in a user's state what it was loaded with.             *)
(***************************************************************************)
EXTENDS FunctionLoad, SequenceTheorems, TLAPS

-----------------------------------------------------------------------------
(* The invariant.                                                          *)

Lost(str) == GivenTwice(str) \/ LeftByError(str)

\* The call that runs: its strings were read in this statement.
CallInv ==
    /\ pf = None => unread = {}
    /\ pf # None =>
        /\ phase = "running"
        /\ pc \in DOMAIN source
        /\ \A str \in Held(pf) : str \in created /\ str.at = pc
        /\ pf.name # None => pf.name.key = "function_name"
        /\ pf.desc # None => pf.desc.key = "description"
        /\ \A str \in created : str.at = pc => \E f \in Current.fields \ unread : str = String(f)

\* The statement a string was read in tells the owners apart.
OwnInv ==
    /\ \A str \in created : str.at <= pc
    /\ phase \in {"idle", "running"} /\ pf = None => \A str \in created : str.at < pc
    /\ phase = "running" => \A str \in freed \cup HeldBy(functions) : str.at < pc
    /\ HeldBy(functions) \subseteq created \ freed
    /\ \A j, k \in DOMAIN functions : j < k =>
           \A s \in Held(functions[j]), t \in Held(functions[k]) : s.at < t.at
    /\ \A str \in created \ (freed \cup HeldBy(functions) \cup HeldByCall) : Lost(str)

Inv == TypeOK /\ CallInv /\ OwnInv

LEMMA InvOwned == Inv => StringsOwned
<1> SUFFICES ASSUME Inv PROVE StringsOwned
  OBVIOUS
<1>1. /\ HeldBy(functions) \cap freed = {}
      /\ \A str \in created \ (freed \cup HeldBy(functions) \cup HeldByCall) :
             GivenTwice(str) \/ LeftByError(str)
  BY DEF Inv, OwnInv, Lost
<1>2. HeldByCall \cap freed = {} /\ HeldBy(functions) \cap HeldByCall = {}
  <2>1. CASE pf = None
    BY <2>1 DEF HeldByCall
  <2>2. CASE pf # None
    <3>1. phase = "running" /\ \A str \in HeldByCall : str.at = pc
      BY <2>2 DEF HeldByCall, Inv, CallInv
    <3>2. \A str \in freed \cup HeldBy(functions) : str.at < pc
      BY <3>1 DEF Inv, OwnInv
    <3>3. pc \in Int
      BY DEF Inv, TypeOK
    <3> QED
      BY <3>1, <3>2, <3>3
  <2> QED
    BY <2>1, <2>2
<1>3. ASSUME NEW j \in DOMAIN functions, NEW k \in DOMAIN functions, j # k,
             NEW str \in Held(functions[j]) \cap Held(functions[k])
      PROVE  FALSE
  <2>1. str.at \in Nat
    <3>1. str \in created
      BY DEF Inv, OwnInv, HeldBy
    <3> QED
      BY <3>1 DEF Inv, TypeOK, Strings
  <2>2. j < k \/ k < j
    BY <1>3 DEF Inv, TypeOK
  <2> QED
    BY <1>3, <2>1, <2>2 DEF Inv, OwnInv
<1> QED
  BY <1>1, <1>2, <1>3 DEF StringsOwned

-----------------------------------------------------------------------------
(* Arguments and errors.                                                   *)

\* An error keeps the invariant if what the call read is freed or may be lost.
LEMMA RaiseKeeps ==
    ASSUME Inv, NEW STATE gone, NEW STATE guarded,
           phase = "running", guarded => pc \in DOMAIN source,
           gone \subseteq HeldByCall,
           \A str \in HeldByCall \ gone : Lost(str),
           Raise(gone, guarded),
           created' = created, late' \in BOOLEAN, strict' \in BOOLEAN
    PROVE  Inv'
<1>1. HeldByCall \subseteq created
  BY DEF Inv, CallInv, HeldByCall
<1>2. /\ source' = source /\ pf' = None /\ unread' = {} /\ created' = created
      /\ userPc' = userPc /\ userPhase' = userPhase /\ table' = table
  BY DEF Raise, userVars
<1>3. HeldByCall' = {}
  BY <1>2 DEF HeldByCall
<1>4. CallInv'
  BY <1>2 DEF CallInv
<1>5. pc \in Nat /\ \A str \in created : str.at \in Nat /\ str.at <= pc
  BY DEF Inv, TypeOK, OwnInv, Strings
<1>6. \A str : Lost(str)' <=> Lost(str)
  BY <1>2 DEF Lost, GivenTwice, LeftByError, Throwing
<1>7. CASE guarded
  <2>1. pc' = pc + 1 /\ freed' = freed \cup gone /\ phase' = phase /\ functions' = functions
    BY <1>7 DEF Raise
  <2>2. HeldBy(functions)' = HeldBy(functions)
    BY <2>1 DEF HeldBy, Held
  <2>3. TypeOK'
    BY <1>1, <1>2, <1>7, <2>1 DEF Inv, TypeOK
  <2>4. \A str \in created : str.at < pc'
    BY <1>5, <2>1
  <2>5. HeldBy(functions) \subseteq created \ freed
    BY DEF Inv, OwnInv
  <2>6. HeldBy(functions) \cap HeldByCall = {}
    BY InvOwned DEF StringsOwned
  <2>7. \A str \in created' \ (freed' \cup HeldBy(functions)' \cup HeldByCall') : Lost(str)'
    BY <1>2, <1>6, <2>1, <2>2 DEF Inv, OwnInv
  <2>8. freed' \subseteq created
    BY <1>1, <2>1 DEF Inv, TypeOK
  <2> QED
    BY <1>2, <1>4, <1>5, <2>1, <2>2, <2>3, <2>4, <2>5, <2>6, <2>7, <2>8 DEF Inv, OwnInv, Held
<1>8. CASE ~guarded
  <2>1. /\ pc' = pc /\ phase' = "failed" /\ functions' = <<>>
        /\ freed' = freed \cup gone \cup HeldBy(functions)
    BY <1>8 DEF Raise
  <2>2. HeldBy(functions)' = {}
    BY <2>1 DEF HeldBy
  <2>3. TypeOK'
    BY <1>1, <1>2, <2>1 DEF Inv, TypeOK, OwnInv, Phases
  <2>4. \A str \in created' \ (freed' \cup HeldBy(functions)' \cup HeldByCall') : Lost(str)'
    BY <1>2, <1>6, <2>1, <2>2 DEF Inv, OwnInv
  <2> QED
    BY <1>2, <1>4, <1>5, <2>1, <2>2, <2>3, <2>4 DEF Inv, OwnInv
<1> QED
  BY <1>7, <1>8

-----------------------------------------------------------------------------
(* The strings of the call that runs.                                      *)

LEMMA CallFields ==
    ASSUME Inv, pf # None
    PROVE  /\ phase = "running" /\ pc \in DOMAIN source
           /\ pf \in Pending /\ Current \in Statement
           /\ unread \subseteq Current.fields
           /\ \A f, g \in Current.fields : f.key = g.key /\ f.exact = g.exact => f = g
           /\ HeldByCall = Held(pf)
<1>1. phase = "running" /\ pc \in DOMAIN source
  BY DEF Inv, CallInv
<1>2. source \in Seq(Statement) /\ source \in Sources
  BY SourcesAssumption DEF Inv, TypeOK
<1> QED
  BY <1>1, <1>2, SourcesAssumption DEF Inv, TypeOK, HeldByCall, Current

\* What a string read before under the same key says of the one that was read.
LEMMA Replaced ==
    ASSUME Inv, pf # None, NEW f \in unread,
           NEW str \in Held(pf), str.key = f.key
    PROVE  GivenTwice(str)
<1>1. PICK g \in Current.fields \ unread : str = String(g)
  BY DEF Inv, CallInv
<1>2. g.key = f.key /\ g.exact # f.exact /\ str.exact = g.exact /\ str.at = pc
  <2>1. str.key = g.key /\ str.exact = g.exact /\ str.at = pc
    BY <1>1 DEF String
  <2> QED
    BY <1>1, <2>1, CallFields
<1>3. f \in source[str.at].fields
  BY <1>2, CallFields DEF Current
<1> QED
  BY <1>2, <1>3 DEF GivenTwice

LEMMA StringTyped ==
    ASSUME Inv, pf # None, NEW f \in unread, ~Unfit(f),
           f.key \in {"function_name", "description"}
    PROVE  /\ String(f) \in Strings /\ String(f) # None
           /\ String(f).at = pc /\ String(f).key = f.key
<1>1. f \in Field
  BY CallFields DEF Statement
<1>2. f.value \in Names \cup {None} /\ f.exact \in BOOLEAN
  BY <1>1 DEF Field, Unfit
<1>3. pc \in Nat
  BY DEF Inv, TypeOK
<1>4. String(f) \in Strings
  BY <1>2, <1>3 DEF String, Strings
<1> QED
  BY <1>4, NoneAssumption DEF String

\* Reading a string, into the field of its key.
Reads(f) ==
    /\ pf' = IF f.key = "function_name" THEN [pf EXCEPT !.name = String(f)]
                                        ELSE [pf EXCEPT !.desc = String(f)]
    /\ created' = created \cup {String(f)}
    /\ unread' = unread \ {f}
    /\ UNCHANGED <<source, phase, pc, functions, freed, late, strict, userVars>>

LEMMA ReadKeeps ==
    ASSUME Inv, pf # None, NEW f \in unread, ~Unfit(f),
           f.key \in {"function_name", "description"}, Reads(f)
    PROVE  Inv'
<1>1. /\ String(f) \in Strings /\ String(f) # None
      /\ String(f).at = pc /\ String(f).key = f.key
  BY StringTyped
<1>2. /\ phase = "running" /\ pc \in DOMAIN source /\ pf \in Pending
      /\ unread \subseteq Current.fields /\ HeldByCall = Held(pf)
  BY CallFields
<1>3. /\ source' = source /\ phase' = phase /\ pc' = pc /\ functions' = functions
      /\ freed' = freed /\ late' = late /\ strict' = strict /\ Current' = Current
      /\ userPc' = userPc /\ userPhase' = userPhase /\ table' = table
      /\ created' = created \cup {String(f)} /\ unread' = unread \ {f}
  BY DEF Reads, userVars, Current
<1>4. /\ pf' \in Pending /\ pf' # None
      /\ pf'.name = IF f.key = "function_name" THEN String(f) ELSE pf.name
      /\ pf'.desc = IF f.key = "function_name" THEN pf.desc ELSE String(f)
  BY <1>1, <1>2, NoneAssumption DEF Reads, Pending
<1>5. Held(pf)' \subseteq Held(pf) \cup {String(f)} /\ String(f) \in Held(pf)'
  BY <1>1, <1>4 DEF Held
<1>6. \A str \in Held(pf) : str \in Held(pf)' \/ Lost(str)
  <2>1. \A str \in Held(pf) : str.key = f.key => GivenTwice(str)
    BY Replaced
  <2>2. /\ pf.name # None => pf.name.key = "function_name"
        /\ pf.desc # None => pf.desc.key = "description"
    BY DEF Inv, CallInv
  <2> QED
    BY <1>4, <2>1, <2>2 DEF Held, Lost
<1>7. \A str : Lost(str)' <=> Lost(str)
  BY <1>3 DEF Lost, GivenTwice, LeftByError, Throwing
<1>8. HeldBy(functions)' = HeldBy(functions) /\ HeldByCall' = Held(pf)'
  BY <1>3, <1>4 DEF HeldBy, HeldByCall, Held
<1>9. TypeOK'
  BY <1>1, <1>2, <1>3, <1>4 DEF Inv, TypeOK
<1>10. CallInv'
  <2>1. \A str \in Held(pf)' : str \in created' /\ str.at = pc
    BY <1>1, <1>3, <1>5 DEF Inv, CallInv
  <2>2. /\ pf'.name # None => pf'.name.key = "function_name"
        /\ pf'.desc # None => pf'.desc.key = "description"
    BY <1>1, <1>4 DEF Inv, CallInv
  <2>3. \A str \in created' : str.at = pc => \E g \in Current.fields \ unread' : str = String(g)
    <3>1. \A str \in created : str.at = pc => \E g \in Current.fields \ unread : str = String(g)
      BY DEF Inv, CallInv
    <3>2. f \in Current.fields \ unread' /\ unread' \subseteq unread
      BY <1>2, <1>3
    <3> QED
      BY <1>3, <3>1, <3>2
  <2>4. \A g : String(g)' = String(g)
    BY <1>3 DEF String
  <2> QED
    BY <1>2, <1>3, <1>4, <2>1, <2>2, <2>3, <2>4 DEF CallInv
<1>11. OwnInv'
  <2>1. \A str \in created' : str.at <= pc
    BY <1>1, <1>3 DEF Inv, OwnInv, TypeOK
  <2>2. \A str \in freed \cup HeldBy(functions) : str.at < pc
    BY <1>2 DEF Inv, OwnInv
  <2>3. HeldBy(functions) \subseteq created' \ freed
    BY <1>3 DEF Inv, OwnInv
  <2>4. \A str \in created' \ (freed \cup HeldBy(functions) \cup Held(pf)') : Lost(str)
    BY <1>2, <1>3, <1>5, <1>6 DEF Inv, OwnInv
  <2>5. \A j, k \in DOMAIN functions : j < k =>
           \A s \in Held(functions[j]), t \in Held(functions[k]) : s.at < t.at
    BY DEF Inv, OwnInv
  <2>6. \A k : Held(functions[k])' = Held(functions[k])
    BY <1>3 DEF Held
  <2> QED
    BY <1>3, <1>4, <1>7, <1>8, <2>1, <2>2, <2>3, <2>4, <2>5, <2>6 DEF OwnInv
<1> QED
  BY <1>9, <1>10, <1>11 DEF Inv

\* An argument without a string.
LEMMA ReadOtherKeeps ==
    ASSUME Inv, NEW f \in unread, ReadOther(f)
    PROVE  Inv'
<1>1. /\ pf # None
      /\ source' = source /\ phase' = phase /\ pc' = pc /\ functions' = functions
      /\ freed' = freed /\ late' = late /\ strict' = strict /\ Current' = Current
      /\ userPc' = userPc /\ userPhase' = userPhase /\ table' = table
      /\ created' = created /\ unread' = unread \ {f}
  BY DEF ReadOther, MayRead, userVars, Current
<1>2. pf \in Pending
  BY <1>1, CallFields
<1>3. pf' \in Pending /\ pf' # None /\ pf'.name = pf.name /\ pf'.desc = pf.desc
  BY <1>2, NoneAssumption DEF ReadOther, Pending
<1>4. Held(pf)' = Held(pf) /\ HeldBy(functions)' = HeldBy(functions) /\ HeldByCall' = HeldByCall
  BY <1>1, <1>3 DEF Held, HeldBy, HeldByCall
<1>5. (\A str : Lost(str)' <=> Lost(str)) /\ (\A g : String(g)' = String(g))
  BY <1>1 DEF Lost, GivenTwice, LeftByError, Throwing, String
<1>6. TypeOK'
  BY <1>1, <1>3 DEF Inv, TypeOK
<1>7. CallInv'
  BY <1>1, <1>3, <1>4, <1>5 DEF Inv, CallInv
<1>8. OwnInv'
  <2>1. \A k : Held(functions[k])' = Held(functions[k])
    BY <1>1 DEF Held
  <2> QED
    BY <1>1, <1>3, <1>4, <1>5, <2>1 DEF Inv, OwnInv
<1> QED
  BY <1>6, <1>7, <1>8 DEF Inv

-----------------------------------------------------------------------------
(* The other steps of the load.                                            *)

LEMMA StartCallKeeps ==
    ASSUME Inv, StartCall
    PROVE  Inv'
<1>1. /\ phase = "running" /\ pf = None /\ pc \in DOMAIN source
      /\ source' = source /\ phase' = phase /\ pc' = pc /\ functions' = functions
      /\ freed' = freed /\ late' = late /\ strict' = strict /\ Current' = Current
      /\ userPc' = userPc /\ userPhase' = userPhase /\ table' = table
      /\ created' = created /\ unread' = Current.fields /\ pf' = NoStrings
  BY DEF StartCall, Runs, userVars, Current
<1>2. NoStrings \in Pending /\ NoStrings # None
      /\ NoStrings.name = None /\ NoStrings.desc = None
  <2>1. NoStrings \in Pending
    <3>1. None \in Strings \cup {None}
      OBVIOUS
    <3> QED
      BY <3>1 DEF NoStrings, Pending
  <2>2. NoStrings.name = None /\ NoStrings.desc = None
    BY DEF NoStrings
  <2> QED
    BY <2>1, <2>2, NoneAssumption
<1>3. Held(pf)' = {} /\ HeldByCall' = {} /\ HeldByCall = {}
  BY <1>1, <1>2 DEF Held, HeldByCall
<1>4. HeldBy(functions)' = HeldBy(functions)
  BY <1>1 DEF HeldBy, Held
<1>5. \A str : Lost(str)' <=> Lost(str)
  BY <1>1 DEF Lost, GivenTwice, LeftByError, Throwing
<1>6. TypeOK'
  BY <1>1, <1>2 DEF Inv, TypeOK
<1>7. \A str \in created : str.at < pc
  BY <1>1 DEF Inv, OwnInv
<1>8. CallInv'
  <2>1. \A str \in created : str.at # pc
    BY <1>7 DEF Inv, TypeOK, Strings
  <2> QED
    BY <1>1, <1>2, <1>3, <2>1 DEF CallInv
<1>9. OwnInv'
  <2>1. \A k : Held(functions[k])' = Held(functions[k])
    BY <1>1 DEF Held
  <2> QED
    BY <1>1, <1>2, <1>3, <1>4, <1>5, <2>1 DEF Inv, OwnInv
<1> QED
  BY <1>6, <1>8, <1>9 DEF Inv

\* A pending function takes its strings out of the call.
LEMMA RegisterKeeps ==
    ASSUME Inv, Register
    PROVE  Inv'
<1>1. /\ phase = "running" /\ pf # None /\ unread = {}
      /\ source' = source /\ phase' = phase /\ pc' = pc + 1
      /\ functions' = Append(functions, pf)
      /\ freed' = freed /\ late' = late /\ strict' = strict
      /\ userPc' = userPc /\ userPhase' = userPhase /\ table' = table
      /\ created' = created /\ unread' = {} /\ pf' = None
  BY DEF Register, ReadAll, userVars
<1>2. pc \in DOMAIN source /\ pf \in Pending /\ HeldByCall = Held(pf)
  BY <1>1, CallFields
<1>3. functions \in Seq(Pending) /\ pc \in Nat
  BY DEF Inv, TypeOK
<1>4. PICK n \in Nat : n = Len(functions) /\ DOMAIN functions = 1..n
  BY <1>3
<1>5. /\ functions' \in Seq(Pending) /\ DOMAIN functions' = 1..n + 1
      /\ functions'[n + 1] = pf
      /\ \A k \in 1..n : functions'[k] = functions[k]
  BY <1>1, <1>2, <1>3, <1>4
<1>6. HeldByCall' = {}
  BY <1>1 DEF HeldByCall
<1>7. \A k \in 1..n + 1 : Held(functions[k])' = IF k = n + 1 THEN Held(pf) ELSE Held(functions[k])
  BY <1>4, <1>5 DEF Held
<1>8. HeldBy(functions)' = HeldBy(functions) \cup Held(pf)
  <2>1. \A x : x \in HeldBy(functions)' <=> \E k \in 1..n + 1 : x \in Held(functions[k])'
    BY <1>5 DEF HeldBy, Held
  <2>2. \A x : x \in HeldBy(functions) <=> \E k \in 1..n : x \in Held(functions[k])
    BY <1>4 DEF HeldBy
  <2>3. \A k \in 1..n + 1 : k = n + 1 \/ k \in 1..n
    BY <1>4
  <2>4. n + 1 \in 1..n + 1 /\ 1..n \subseteq 1..n + 1 /\ n + 1 \notin 1..n
    BY <1>4
  <2> QED
    BY <1>7, <2>1, <2>2, <2>3, <2>4
<1>9. \A str : Lost(str)' <=> Lost(str)
  BY <1>1 DEF Lost, GivenTwice, LeftByError, Throwing
<1>10. /\ \A str \in created : str.at \in Nat /\ str.at <= pc
       /\ \A str \in Held(pf) : str \in created /\ str.at = pc /\ str \notin freed
       /\ \A str \in freed \cup HeldBy(functions) : str \in created /\ str.at < pc
  <2>1. \A str \in freed \cup HeldBy(functions) : str \in created /\ str.at < pc
    BY <1>1 DEF Inv, TypeOK, OwnInv
  <2>2. \A str \in Held(pf) : str \in created /\ str.at = pc
    BY <1>1 DEF Inv, CallInv
  <2>3. \A str \in created : str.at \in Nat /\ str.at <= pc
    BY DEF Inv, TypeOK, OwnInv, Strings
  <2> QED
    BY <1>3, <2>1, <2>2, <2>3
<1>11. TypeOK'
  <2>1. pc' \in 1..Len(source') + 1
    <3>1. Len(source) \in Nat /\ DOMAIN source = 1..Len(source)
      BY SourcesAssumption DEF Inv, TypeOK
    <3> QED
      BY <1>1, <1>2, <3>1
  <2>2. source' \in Sources /\ phase' \in Phases /\ freed' \subseteq created'
    BY <1>1 DEF Inv, TypeOK
  <2>3. /\ created' \subseteq Strings /\ late' \in BOOLEAN /\ strict' \in BOOLEAN
        /\ userPc' \in 1..Len(source') + 1 /\ table' \subseteq Names
        /\ userPhase' \in {"idle", "running", "compiled", "raised"}
    BY <1>1 DEF Inv, TypeOK
  <2>4. unread' \subseteq Current.fields' /\ functions' \in Seq(Pending) /\ pf' \in Pending \cup {None}
    BY <1>1, <1>5
  <2> QED
    BY <2>1, <2>2, <2>3, <2>4 DEF TypeOK
<1>12. CallInv'
  BY <1>1 DEF CallInv
<1>13. OwnInv'
  <2>1. \A str \in created' : str.at < pc' /\ str.at <= pc'
    BY <1>1, <1>3, <1>10
  <2>2. \A str \in (freed \cup HeldBy(functions))' : str.at < pc'
    BY <1>1, <1>8, <1>10, <2>1
  <2>3. HeldBy(functions)' \subseteq created' \ freed'
    BY <1>1, <1>8, <1>10 DEF Inv, OwnInv
  <2>4. ASSUME NEW j \in 1..n + 1, NEW k \in 1..n + 1, j < k,
               NEW x \in Held(functions[j])', NEW y \in Held(functions[k])'
        PROVE  x.at < y.at
    <3>1. j \in 1..n /\ x \in Held(functions[j])
      BY <1>7, <2>4
    <3>2. x \in HeldBy(functions)
      BY <1>4, <3>1 DEF HeldBy
    <3>3. CASE k = n + 1
      BY <1>7, <1>10, <3>2, <3>3
    <3>4. CASE k \in 1..n
      <4>1. y \in Held(functions[k])
        BY <1>7, <3>4
      <4> QED
        BY <1>4, <2>4, <3>1, <3>4, <4>1 DEF Inv, OwnInv
    <3> QED
      BY <3>3, <3>4
  <2>5. \A str \in (created \ (freed \cup HeldBy(functions) \cup HeldByCall))' : Lost(str)'
    BY <1>1, <1>2, <1>6, <1>8, <1>9 DEF Inv, OwnInv
  <2> QED
    BY <1>5, <2>1, <2>2, <2>3, <2>4, <2>5 DEF OwnInv
<1> QED
  BY <1>11, <1>12, <1>13 DEF Inv

\* What the call has read is freed, but for a string this argument replaced.
LEMMA RefuseArgumentKeeps ==
    ASSUME Inv, NEW f \in unread, RefuseArgument(f)
    PROVE  Inv'
<1>1. pf # None /\ phase = "running"
  BY DEF RefuseArgument, MayRead
<1>2. PICK p : p = [pf EXCEPT !.name = IF f.key = "function_name" THEN None ELSE @,
                               !.desc = IF f.key = "description" THEN None ELSE @]
  OBVIOUS
<1>3. /\ Raise(Held(p), Current.guarded)
      /\ created' = created /\ late' = late /\ strict' = strict
  BY <1>2 DEF RefuseArgument
<1>4. pf \in Pending /\ pc \in DOMAIN source /\ HeldByCall = Held(pf)
  BY <1>1, CallFields
<1>5. /\ p.name = IF f.key = "function_name" THEN None ELSE pf.name
      /\ p.desc = IF f.key = "description" THEN None ELSE pf.desc
  BY <1>2, <1>4 DEF Pending
<1>6. Held(p) \subseteq HeldByCall
  BY <1>4, <1>5 DEF Held
<1>7. \A str \in HeldByCall \ Held(p) : Lost(str)
  <2>1. \A str \in Held(pf) : str.key = f.key => GivenTwice(str)
    BY <1>1, Replaced
  <2>2. /\ pf.name # None => pf.name.key = "function_name"
        /\ pf.desc # None => pf.desc.key = "description"
    BY <1>1 DEF Inv, CallInv
  <2> QED
    BY <1>4, <1>5, <2>1, <2>2 DEF Held, Lost
<1>8. late' \in BOOLEAN /\ strict' \in BOOLEAN
  BY <1>3 DEF Inv, TypeOK
<1> QED
  BY <1>1, <1>3, <1>4, <1>6, <1>7, <1>8, RaiseKeeps

LEMMA RefuseIncompleteKeeps ==
    ASSUME Inv, RefuseIncomplete
    PROVE  Inv'
<1>1. /\ pf # None /\ phase = "running" /\ Raise(Held(pf), Current.guarded)
      /\ created' = created /\ late' = late /\ strict' = strict
  BY DEF RefuseIncomplete, ReadAll
<1>2. pc \in DOMAIN source /\ HeldByCall = Held(pf)
  BY <1>1, CallFields
<1>3. late' \in BOOLEAN /\ strict' \in BOOLEAN
  BY <1>1 DEF Inv, TypeOK
<1> QED
  BY <1>1, <1>2, <1>3, RaiseKeeps

\* The error of a metamethod loses what the call has read, and only that.
LEMMA FlagsThrowKeeps ==
    ASSUME Inv, NEW f \in unread, FlagsThrow(f)
    PROVE  Inv'
<1>1. /\ pf # None /\ phase = "running" /\ Raise({}, Current.guarded)
      /\ created' = created /\ Throwing(f)
  BY DEF FlagsThrow, MayRead
<1>2. late' \in BOOLEAN /\ strict' \in BOOLEAN
  BY DEF FlagsThrow, Inv, TypeOK
<1>3. pc \in DOMAIN source /\ HeldByCall = Held(pf) /\ f \in source[pc].fields
  BY <1>1, CallFields DEF Current
<1>4. \A str \in HeldByCall \ {} : Lost(str)
  <2>1. \A str \in HeldByCall : str.at = pc
    BY <1>1, <1>3 DEF Inv, CallInv
  <2> QED
    BY <1>1, <1>3, <2>1 DEF Lost, LeftByError
<1>5. {} \subseteq HeldByCall
  OBVIOUS
<1> QED
  BY <1>1, <1>2, <1>3, <1>4, <1>5, RaiseKeeps

\* Errors outside a call.
LEMMA PlainRaiseKeeps ==
    ASSUME Inv, phase = "running", pf = None, NEW STATE guarded, guarded => pc \in DOMAIN source,
           Raise({}, guarded), created' = created, late' \in BOOLEAN, strict' \in BOOLEAN
    PROVE  Inv'
<1>1. {} \subseteq HeldByCall /\ \A str \in HeldByCall \ {} : Lost(str)
  BY DEF HeldByCall
<1> QED
  BY <1>1, RaiseKeeps

\* Steps that leave the strings and their owners as they are.
LEMMA QuietKeeps ==
    ASSUME Inv, pf = None, pf' = None,
           UNCHANGED <<source, unread, functions, created, freed>>,
           phase' \in Phases, pc' \in {pc, pc + 1},
           phase' \in {"idle", "running"} => phase \in {"idle", "running"},
           TypeOK'
    PROVE  Inv'
<1>1. CallInv' /\ HeldByCall' = {} /\ HeldByCall = {}
  BY DEF Inv, CallInv, HeldByCall
<1>2. HeldBy(functions)' = HeldBy(functions) /\ \A k : Held(functions[k])' = Held(functions[k])
  BY DEF HeldBy, Held
<1>3. \A str : Lost(str)' <=> Lost(str)
  BY DEF Lost, GivenTwice, LeftByError, Throwing
<1>4. \A str \in created : str.at \in Nat /\ str.at <= pc /\ pc \in Nat
  BY DEF Inv, TypeOK, OwnInv, Strings
<1>5. \A str \in created : str.at <= pc' /\ (str.at < pc => str.at < pc')
  BY <1>4
<1>6. HeldBy(functions) \cup freed \subseteq created
  BY DEF Inv, OwnInv, TypeOK
<1>7. phase' \in {"idle", "running"} => \A str \in created : str.at < pc'
  BY <1>5 DEF Inv, OwnInv
<1>8. phase' = "running" => \A str \in freed \cup HeldBy(functions) : str.at < pc'
  BY <1>6, <1>7
<1>9. OwnInv'
  BY <1>1, <1>2, <1>3, <1>5, <1>7, <1>8 DEF Inv, OwnInv
<1> QED
  BY <1>1, <1>9 DEF Inv

LEMMA ReleaseKeeps ==
    ASSUME Inv, Release
    PROVE  Inv'
<1>1. /\ phase = "loaded" /\ phase' = "released" /\ functions' = <<>>
      /\ freed' = freed \cup HeldBy(functions) /\ created' = created
      /\ source' = source /\ pc' = pc /\ pf' = pf /\ unread' = unread
      /\ late' = late /\ strict' = strict /\ Current' = Current
      /\ userPc' = userPc /\ userPhase' = userPhase /\ table' = table
  BY DEF Release, userVars, Current
<1>2. pf = None /\ HeldByCall = {} /\ HeldByCall' = {}
  BY <1>1 DEF Inv, CallInv, HeldByCall
<1>3. HeldBy(functions)' = {}
  BY <1>1 DEF HeldBy
<1>4. \A str : Lost(str)' <=> Lost(str)
  BY <1>1 DEF Lost, GivenTwice, LeftByError, Throwing
<1>5. TypeOK'
  BY <1>1 DEF Inv, TypeOK, OwnInv, Phases
<1>6. OwnInv'
  BY <1>1, <1>2, <1>3, <1>4 DEF Inv, OwnInv
<1> QED
  BY <1>1, <1>2, <1>5, <1>6 DEF Inv, CallInv

-----------------------------------------------------------------------------
(* The user's state.                                                       *)

LEMMA NamesOfUsers ==
    ASSUME Inv, NEW k \in DOMAIN source
    PROVE  UserValues(source[k], "function_name") \subseteq Names
<1>1. source \in Sources /\ source[k] \in Statement
  BY SourcesAssumption DEF Inv, TypeOK
<1>2. \A f \in source[k].fields : f \in Field /\ (f.key = "function_name" => f.value # None)
  BY <1>1, SourcesAssumption DEF Statement
<1> QED
  BY <1>2 DEF UserValues, Field

LEMMA UserKeeps ==
    ASSUME Inv, UserStarts \/ UserStatement \/ UserEnds
    PROVE  Inv'
<1>1. UNCHANGED loadVars /\ pf = None
  <2>1. UNCHANGED loadVars /\ phase = "loaded"
    BY DEF UserStarts, UserStatement, UserEnds
  <2> QED
    BY <2>1 DEF Inv, CallInv
<1>2. Len(source) \in Nat /\ DOMAIN source = 1..Len(source)
  BY SourcesAssumption DEF Inv, TypeOK
<1>3. /\ userPc' \in 1..Len(source) + 1
      /\ userPhase' \in {"idle", "running", "compiled", "raised"}
      /\ table' \subseteq Names
  <2>1. CASE UserStarts
    BY <2>1 DEF UserStarts, Inv, TypeOK
  <2>2. CASE UserStatement
    <3>1. userPc \in DOMAIN source /\ userPc' \in {userPc, userPc + 1}
          /\ userPhase' \in {userPhase, "raised"}
          /\ table' \subseteq table \cup UserValues(source[userPc], "function_name")
      BY <2>2 DEF UserStatement
    <3>2. UserValues(source[userPc], "function_name") \subseteq Names
      BY <3>1, NamesOfUsers
    <3>3. table \subseteq Names /\ userPhase \in {"idle", "running", "compiled", "raised"}
      BY DEF Inv, TypeOK
    <3>4. userPc' \in 1..Len(source) + 1
      BY <1>2, <3>1
    <3> QED
      BY <3>1, <3>2, <3>3, <3>4
  <2>3. CASE UserEnds
    BY <2>3 DEF UserEnds, Inv, TypeOK
  <2> QED
    BY <2>1, <2>2, <2>3
<1>4. TypeOK'
  BY <1>1, <1>3 DEF Inv, TypeOK, loadVars, Current
<1> QED
  BY <1>1, <1>4, QuietKeeps DEF loadVars, Inv, TypeOK

-----------------------------------------------------------------------------
LEMMA InitInv == Init => Inv
<1> SUFFICES ASSUME Init PROVE Inv
  OBVIOUS
<1>1. /\ created = {} /\ freed = {} /\ functions = <<>> /\ pf = None /\ unread = {}
      /\ source \in Sources /\ phase = "idle" /\ pc = 1 /\ late = FALSE /\ strict = FALSE
      /\ userPc = 1 /\ userPhase = "idle" /\ table = {}
  BY DEF Init
<1>2. Len(source) \in Nat
  BY <1>1, SourcesAssumption
<1>3. HeldBy(functions) = {} /\ HeldByCall = {}
  BY <1>1 DEF HeldBy, HeldByCall
<1>4. functions \in Seq(Pending) /\ DOMAIN functions = {}
  BY <1>1
<1>5. TypeOK
  <2>1. 1 \in 1..Len(source) + 1
    BY <1>2
  <2>2. unread \subseteq Current.fields /\ freed \subseteq created /\ created \subseteq Strings
    BY <1>1
  <2> QED
    BY <1>1, <1>4, <2>1, <2>2 DEF TypeOK, Phases
<1>6. CallInv /\ OwnInv
  BY <1>1, <1>3, <1>4 DEF CallInv, OwnInv
<1> QED
  BY <1>5, <1>6 DEF Inv

LEMMA NextInv == Inv /\ [Next]_vars => Inv'
<1> SUFFICES ASSUME Inv, [Next]_vars PROVE Inv'
  OBVIOUS
<1>1. /\ Len(source) \in Nat /\ DOMAIN source = 1..Len(source)
      /\ late \in BOOLEAN /\ strict \in BOOLEAN /\ pc \in Nat
  BY SourcesAssumption DEF Inv, TypeOK
<1>2. CASE StartLoad
  <2>1. pf = None
    BY <1>2 DEF StartLoad, Inv, CallInv
  <2>2. TypeOK'
    BY <1>2 DEF StartLoad, Inv, TypeOK, Phases, userVars, Current
  <2> QED
    BY <1>2, <2>1, <2>2, QuietKeeps DEF StartLoad, Phases
<1>3. CASE StartCall
  BY <1>3, StartCallKeeps
<1>4. CASE Misused
  BY <1>1, <1>4, PlainRaiseKeeps DEF Misused, Runs
<1>5. CASE RaiseError
  BY <1>1, <1>5, PlainRaiseKeeps DEF RaiseError, Runs
<1>6. ASSUME NEW f \in unread, ReadName(f) PROVE Inv'
  <2>1. pf # None /\ ~Unfit(f) /\ f.key = "function_name" /\ Reads(f)
    BY <1>6 DEF ReadName, MayRead, Reads
  <2> QED
    BY <2>1, ReadKeeps
<1>7. ASSUME NEW f \in unread, ReadDescription(f) PROVE Inv'
  <2>1. pf # None /\ ~Unfit(f) /\ f.key = "description" /\ Reads(f)
    BY <1>7 DEF ReadDescription, MayRead, Reads
  <2> QED
    BY <2>1, ReadKeeps
<1>8. CASE \E f \in unread : ReadOther(f)
  BY <1>8, ReadOtherKeeps
<1>9. CASE \E f \in unread : FlagsThrow(f)
  BY <1>9, FlagsThrowKeeps
<1>10. CASE \E f \in unread : RefuseArgument(f)
  BY <1>10, RefuseArgumentKeeps
<1>11. CASE Register
  BY <1>11, RegisterKeeps
<1>12. CASE RefuseIncomplete
  BY <1>12, RefuseIncompleteKeeps
<1>13. CASE LoopEnds
  <2>1. /\ pf = None /\ pf' = None /\ pc \in DOMAIN source /\ pc' = pc + 1
        /\ phase = "running" /\ phase' = phase
        /\ UNCHANGED <<source, unread, functions, created, freed, late, strict, userVars>>
    BY <1>13 DEF LoopEnds, Runs
  <2>2. unread = {} /\ pc' \in 1..Len(source) + 1
    BY <1>1, <2>1 DEF Inv, CallInv
  <2>3. TypeOK'
    BY <2>1, <2>2 DEF Inv, TypeOK, userVars
  <2>4. phase' \in Phases
    BY <2>1 DEF Phases
  <2> QED
    BY <2>1, <2>3, <2>4, QuietKeeps
<1>14. CASE Timeout
  BY <1>1, <1>14, PlainRaiseKeeps DEF Timeout, HookRuns
<1>15. CASE LineHook
  <2>1. /\ phase = "running" /\ pf = None /\ created' = created
        /\ late' \in BOOLEAN /\ strict' \in BOOLEAN
        /\ Raise({}, pc \in DOMAIN source /\ Current.sameLine /\ Current.guarded)
    BY <1>1, <1>15 DEF LineHook, HookRuns
  <2>2. pc \in DOMAIN source /\ Current.sameLine /\ Current.guarded => pc \in DOMAIN source
    OBVIOUS
  <2> QED
    BY <2>1, <2>2, PlainRaiseKeeps
<1>16. CASE FinishLoad
  <2>1. phase = "running" /\ phase' = "loaded" /\ pc \notin DOMAIN source
        /\ UNCHANGED <<source, pc, unread, pf, functions, created, freed, late, strict, userVars>>
    BY <1>16 DEF FinishLoad
  <2>2. pf = None /\ phase' \in Phases
    BY <2>1 DEF Inv, CallInv, Phases
  <2>3. TypeOK'
    BY <2>1, <2>2 DEF Inv, TypeOK, userVars, Current
  <2> QED
    BY <2>1, <2>2, <2>3, QuietKeeps
<1>17. CASE Release
  BY <1>17, ReleaseKeeps
<1>18. CASE UserStarts \/ UserStatement \/ UserEnds
  BY <1>18, UserKeeps
<1>19. CASE UNCHANGED vars
  <2>1. /\ UNCHANGED <<source, phase, pc, unread, pf, functions, created, freed, late, strict>>
        /\ UNCHANGED <<userPc, userPhase, table>>
    BY <1>19 DEF vars, loadVars, userVars
  <2> QED
    BY <2>1 DEF Inv, TypeOK, CallInv, OwnInv, HeldByCall, HeldBy, Held, Lost, GivenTwice,
                LeftByError, Throwing, Current, String
<1> QED
  BY <1>2, <1>3, <1>4, <1>5, <1>6, <1>7, <1>8, <1>9, <1>10, <1>11, <1>12, <1>13, <1>14,
     <1>15, <1>16, <1>17, <1>18, <1>19 DEF Next

\* Types and owners of a load in both states, in one invariant.
THEOREM SpecInv == Spec => []Inv
BY InitInv, NextInv, PTL DEF Spec

\* The load's bookkeeping keeps its types, for any sources.
THEOREM TypeCorrect == Spec => []TypeOK
<1>1. Inv => TypeOK
  BY DEF Inv
<1> QED
  BY <1>1, SpecInv, PTL

\* No string of a load is lost, freed twice or freed while a function has it,
\* for any sources, but for the two ways StringsOwned names.
THEOREM OwnershipCorrect == Spec => []StringsOwned
<1> QED
  BY InvOwned, SpecInv, PTL

-----------------------------------------------------------------------------
(* Late loads.                                                             *)

\* A late load has the hook set for every line, and a call under way continues
\* the line of another statement.
LateInv == /\ late => strict
           /\ strict /\ pf # None => Current.sameLine

RegistersOnLine == late => Len(functions') <= Len(functions) \/ Current.sameLine

\* Catching the timeout error does not let a load register on the next line.
THEOREM LateCorrect == Spec => NothingRegisteredLate
<1>1. Init => LateInv
  BY DEF Init, LateInv
<1>2. ASSUME Inv, LateInv, Next PROVE LateInv' /\ RegistersOnLine
  <2>1. functions \in Seq(Pending)
    BY <1>2 DEF Inv, TypeOK
  <2>2. ASSUME UNCHANGED <<late, strict, source, pc, pf, functions>> PROVE LateInv' /\ RegistersOnLine
    BY <1>2, <2>1, <2>2 DEF LateInv, RegistersOnLine, Current
  <2>3. ASSUME NEW STATE gone, NEW STATE guarded, Raise(gone, guarded), late' => strict'
        PROVE  LateInv' /\ RegistersOnLine
    BY <2>1, <2>3 DEF Raise, LateInv, RegistersOnLine
  <2>4. CASE StartLoad
    BY <2>2, <2>4 DEF StartLoad
  <2>5. CASE StartCall
    BY <1>2, <2>1, <2>5 DEF StartCall, Runs, LateInv, RegistersOnLine, Current
  <2>6. CASE Misused
    BY <1>2, <2>3, <2>6 DEF Misused, LateInv
  <2>7. CASE RaiseError
    BY <1>2, <2>3, <2>7 DEF RaiseError, LateInv
  <2>8. ASSUME NEW f \in unread, ReadName(f) \/ ReadDescription(f) \/ ReadOther(f)
        PROVE  LateInv' /\ RegistersOnLine
    BY <1>2, <2>1, <2>8 DEF ReadName, ReadDescription, ReadOther, MayRead, LateInv,
                            RegistersOnLine, Current
  <2>9. ASSUME NEW f \in unread, FlagsThrow(f) PROVE LateInv' /\ RegistersOnLine
    <3>1. Raise({}, Current.guarded) /\ (late' => strict')
      BY <1>2, <2>9 DEF FlagsThrow, LateInv
    <3> QED
      BY <2>3, <3>1
  <2>10. ASSUME NEW f \in unread, RefuseArgument(f) PROVE LateInv' /\ RegistersOnLine
    BY <1>2, <2>3, <2>10 DEF RefuseArgument, LateInv
  <2>11. CASE Register
    BY <1>2, <2>11 DEF Register, ReadAll, LateInv, RegistersOnLine
  <2>12. CASE RefuseIncomplete
    BY <1>2, <2>3, <2>12 DEF RefuseIncomplete, LateInv
  <2>13. CASE LoopEnds
    BY <1>2, <2>1, <2>13 DEF LoopEnds, Runs, LateInv, RegistersOnLine
  <2>14. CASE Timeout
    BY <2>3, <2>14 DEF Timeout
  <2>15. CASE LineHook
    BY <1>2, <2>3, <2>15 DEF LineHook, LateInv
  <2>16. CASE FinishLoad
    BY <2>2, <2>16 DEF FinishLoad
  <2>17. CASE Release
    <3>1. pf = None /\ pf' = None
      BY <1>2, <2>17 DEF Release, Inv, CallInv
    <3> QED
      BY <1>2, <2>1, <2>17, <3>1 DEF Release, LateInv, RegistersOnLine
  <2>18. CASE UserStarts \/ UserStatement \/ UserEnds
    BY <2>2, <2>18 DEF UserStarts, UserStatement, UserEnds, loadVars
  <2> QED
    BY <1>2, <2>4, <2>5, <2>6, <2>7, <2>8, <2>9, <2>10, <2>11, <2>12, <2>13, <2>14, <2>15,
       <2>16, <2>17, <2>18 DEF Next
<1>3. Inv /\ LateInv /\ UNCHANGED vars => LateInv'
  BY DEF LateInv, vars, loadVars, Current
<1>4. Inv /\ LateInv /\ [Next]_vars => LateInv' /\ [RegistersOnLine]_vars
  BY <1>2, <1>3
<1>5. [][RegistersOnLine]_vars => NothingRegisteredLate
  BY PTL DEF RegistersOnLine, NothingRegisteredLate
<1> QED
  BY <1>1, <1>4, <1>5, SpecInv, PTL DEF Spec

-----------------------------------------------------------------------------
(* The two register_function.  A plain source has no call that the load      *)
(* refuses and survives, so what it registered is given by the statements    *)
(* that were passed, whichever state they run in.                            *)

\* The names registered by the statements before p, as a user's state does.
RegisteredBefore(p) ==
    UNION {UserValues(source[k], "function_name") :
               k \in {j \in DOMAIN source : j < p /\ UserAccepts(source[j])}}

FunctionNames == {functions[k].name.value : k \in DOMAIN functions}

\* A statement a user's state gets past.
Passable(s) == UserAccepts(s) \/ s.op = "loop" \/ s.guarded

\* What the running call has taken so far was acceptable to a user's state too.
CallAlike ==
    pf # None =>
        /\ Current.op \in {"positional", "named"}
        /\ pf.name # None => \E f \in Current.fields :
               f.key = "function_name" /\ ~Unfit(f) /\ pf.name = String(f)
        /\ pf.callback => \E f \in Current.fields : f.key = "callback" /\ ~Unfit(f)

LoadAlike ==
    phase \in {"idle", "running", "loaded"} =>
        /\ FunctionNames = RegisteredBefore(pc)
        /\ \A k \in DOMAIN source : k < pc => Passable(source[k])

UserAlike ==
    /\ phase \in {"idle", "running", "failed"} => userPhase = "idle" /\ userPc = 1 /\ table = {}
    /\ phase = "loaded" =>
        /\ pc \notin DOMAIN source
        /\ userPhase # "raised"
        /\ table = RegisteredBefore(userPc)
        /\ userPhase = "compiled" => userPc \notin DOMAIN source

AlikeInv == Plain => CallAlike /\ LoadAlike /\ UserAlike

LEMMA BeforeNext ==
    ASSUME Inv, NEW p \in DOMAIN source
    PROVE  RegisteredBefore(p + 1) =
               IF UserAccepts(source[p])
               THEN RegisteredBefore(p) \cup UserValues(source[p], "function_name")
               ELSE RegisteredBefore(p)
<1>1. \A j \in DOMAIN source : j < p + 1 <=> j < p \/ j = p
  BY SourcesAssumption DEF Inv, TypeOK
<1>2. {j \in DOMAIN source : j < p + 1 /\ UserAccepts(source[j])} =
          IF UserAccepts(source[p])
          THEN {j \in DOMAIN source : j < p /\ UserAccepts(source[j])} \cup {p}
          ELSE {j \in DOMAIN source : j < p /\ UserAccepts(source[j])}
  BY <1>1
<1>3. QED
  BY <1>2 DEF RegisteredBefore

\* What is said of the load and of the run follows the state they are in.
LEMMA AlikeFrame ==
    ASSUME UNCHANGED <<source, pc, functions>>
    PROVE  /\ RegisteredBefore(pc)' = RegisteredBefore(pc)
           /\ FunctionNames' = FunctionNames
           /\ \A k : Passable(source[k])' <=> Passable(source[k])
<1>1. \A k : UserValues(source[k], "function_name")' = UserValues(source[k], "function_name")
  BY DEF UserValues
<1>2. \A k : UserAccepts(source[k])' <=> UserAccepts(source[k])
  BY DEF UserAccepts, UserValues
<1>3. RegisteredBefore(pc)' = RegisteredBefore(pc)
  BY <1>1, <1>2 DEF RegisteredBefore
<1>4. FunctionNames' = FunctionNames
  BY DEF FunctionNames
<1>5. \A k : Passable(source[k])' <=> Passable(source[k])
  BY <1>2 DEF Passable
<1>6. QED
  BY <1>3, <1>4, <1>5

LEMMA LoadFrame ==
    ASSUME LoadAlike, UNCHANGED <<source, pc, functions>>,
           phase' \in {"idle", "running", "loaded"} => phase \in {"idle", "running", "loaded"}
    PROVE  LoadAlike'
<1>1. \A k : Passable(source[k])' <=> Passable(source[k])
  BY AlikeFrame
<1>2. RegisteredBefore(pc)' = RegisteredBefore(pc) /\ FunctionNames' = FunctionNames
  BY AlikeFrame
<1>3. SUFFICES ASSUME phase' \in {"idle", "running", "loaded"}
               PROVE  (/\ FunctionNames = RegisteredBefore(pc)
                       /\ \A k \in DOMAIN source : k < pc => Passable(source[k]))'
  BY DEF LoadAlike
<1>4. (FunctionNames = RegisteredBefore(pc))'
  BY <1>2, <1>3 DEF LoadAlike
<1>5. (\A k \in DOMAIN source : k < pc => Passable(source[k]))'
  BY <1>1, <1>3 DEF LoadAlike
<1>6. QED
  BY <1>4, <1>5

LEMMA UserFrame ==
    ASSUME UserAlike, UNCHANGED <<source, pc, userVars>>, phase' = phase
    PROVE  UserAlike'
<1>1. \A k : UserValues(source[k], "function_name")' = UserValues(source[k], "function_name")
  BY DEF UserValues
<1>2. \A k : UserAccepts(source[k])' <=> UserAccepts(source[k])
  BY DEF UserAccepts, UserValues
<1>3. RegisteredBefore(userPc)' = RegisteredBefore(userPc)
  BY <1>1, <1>2 DEF RegisteredBefore, userVars
<1>4. QED
  BY <1>3 DEF UserAlike, userVars

LEMMA CallFrame ==
    ASSUME CallAlike, UNCHANGED <<source, pc, pf>>
    PROVE  CallAlike'
<1>1. Current' = Current /\ \A f : String(f)' = String(f)
  BY DEF Current, String
<1>2. QED
  BY <1>1 DEF CallAlike, Unfit

\* The whole source, once the load or the run has got to its end.
LEMMA BeforeEnd ==
    ASSUME Inv, NEW p \in 1..Len(source) + 1, NEW q \in 1..Len(source) + 1,
           p \notin DOMAIN source, q \notin DOMAIN source
    PROVE  p = q /\ \A k \in DOMAIN source : k < p
  BY SourcesAssumption DEF Inv, TypeOK

\* The call of a plain source that is registered is accepted in a user's
\* state, and registers there the same name.
LEMMA RegisteredAlike ==
    ASSUME Inv, Plain, CallAlike, pf # None, pf.name # None, pf.callback
    PROVE  UserAccepts(Current) /\ UserValues(Current, "function_name") = {pf.name.value}
<1>1. /\ pc \in DOMAIN source
      /\ \A f \in Current.fields : f.exact = TRUE
      /\ \A f, g \in Current.fields : f.key = g.key /\ f.exact = g.exact => f = g
  <2>1. Current \in Statement
    BY CallFields
  <2>2. \A f \in Current.fields : f.exact \in BOOLEAN
    BY <2>1 DEF Statement, Field
  <2>3. QED
    BY <2>2, CallFields DEF Plain, Current
<1>2. PICK f \in Current.fields : f.key = "function_name" /\ ~Unfit(f) /\ pf.name = String(f)
  BY DEF CallAlike
<1>3. PICK h \in Current.fields : h.key = "callback" /\ ~Unfit(h)
  BY DEF CallAlike
<1>4. f.value = pf.name.value /\ f.value \notin {Bad, Throws} /\ h.value \notin {Bad, Throws}
  BY <1>2, <1>3 DEF String, Unfit
<1>5. \A g \in Current.fields : g.key = "function_name" => g = f
  BY <1>1, <1>2
<1>6. UserValues(Current, "function_name") = {pf.name.value}
  BY <1>1, <1>2, <1>4, <1>5 DEF UserValues
<1>7. h.value \in UserValues(Current, "callback")
  BY <1>1, <1>3, <1>4 DEF UserValues
<1>8. Current.op \in {"positional", "named"}
  BY DEF CallAlike
<1>9. QED
  BY <1>6, <1>7, <1>8 DEF UserAccepts

\* The load gets past a statement that registers nothing.
LEMMA PassAlike ==
    ASSUME Inv, Plain, LoadAlike, UserAlike, phase = "running", pc \in DOMAIN source,
           Current.op = "loop" \/ Current.guarded,
           pc' = pc + 1, pf' = None, UNCHANGED <<source, phase, functions, userVars>>
    PROVE  AlikeInv'
<1>1. ~UserAccepts(Current) /\ Passable(Current)
  BY DEF Plain, UserAccepts, Passable, Current
<1>2. RegisteredBefore(pc + 1) = RegisteredBefore(pc)
  BY <1>1, BeforeNext DEF Current
<1>3. \A k \in DOMAIN source : k < pc + 1 => k < pc \/ k = pc
  BY SourcesAssumption DEF Inv, TypeOK
<1>4. RegisteredBefore(pc)' = RegisteredBefore(pc + 1) /\ FunctionNames' = FunctionNames
  BY DEF RegisteredBefore, FunctionNames, UserAccepts, UserValues
<1>5. LoadAlike'
  BY <1>1, <1>2, <1>3, <1>4 DEF LoadAlike, Current, Passable, UserAccepts, UserValues
<1>6. CallAlike' /\ UserAlike'
  BY DEF CallAlike, UserAlike, userVars
<1>7. QED
  BY <1>5, <1>6 DEF AlikeInv

LEMMA RaiseAlike ==
    ASSUME Inv, AlikeInv, Plain, phase = "running",
           NEW STATE gone, NEW STATE guarded, Raise(gone, guarded),
           guarded => pc \in DOMAIN source /\ Current.guarded
    PROVE  AlikeInv'
<1>1. CASE guarded
  BY <1>1, PassAlike DEF AlikeInv, Raise
<1>2. CASE ~guarded
  <2>1. phase' = "failed" /\ pf' = None /\ UNCHANGED userVars
    BY <1>2 DEF Raise
  <2>2. QED
    BY <2>1 DEF AlikeInv, CallAlike, LoadAlike, UserAlike, userVars
<1>3. QED
  BY <1>1, <1>2

\* An argument is read.
LEMMA ReadAlike ==
    ASSUME Inv, AlikeInv, Plain, NEW f \in unread,
           ReadName(f) \/ ReadDescription(f) \/ ReadOther(f)
    PROVE  AlikeInv'
<1>1. /\ pf # None /\ ~Unfit(f)
      /\ UNCHANGED <<source, phase, pc, functions, userVars>>
  BY DEF ReadName, ReadDescription, ReadOther, MayRead
<1>2. pf \in Pending /\ f \in Current.fields /\ phase = "running"
  BY <1>1, CallFields
<1>3. Current' = Current /\ \A g : String(g)' = String(g)
  BY <1>1 DEF Current, String
<1>4. /\ pf'.name = pf.name \/ (f.key = "function_name" /\ pf'.name = String(f))
      /\ pf'.callback = pf.callback \/ f.key = "callback"
  BY <1>2 DEF ReadName, ReadDescription, ReadOther, Pending
<1>5. CallAlike'
  BY <1>1, <1>2, <1>3, <1>4 DEF AlikeInv, CallAlike, Unfit
<1>6. RegisteredBefore(pc)' = RegisteredBefore(pc) /\ FunctionNames' = FunctionNames
  BY <1>1 DEF RegisteredBefore, FunctionNames, UserAccepts, UserValues
<1>7. LoadAlike' /\ UserAlike'
  BY <1>1, <1>2, <1>6
  DEF AlikeInv, LoadAlike, UserAlike, Passable, UserAccepts, UserValues, userVars
<1>8. QED
  BY <1>5, <1>7 DEF AlikeInv

LEMMA RegisterAlike ==
    ASSUME Inv, AlikeInv, Plain, Register
    PROVE  AlikeInv'
<1>1. /\ phase = "running" /\ pf # None /\ pf.name # None /\ pf.callback
      /\ functions' = Append(functions, pf) /\ pf' = None /\ pc' = pc + 1
      /\ UNCHANGED <<source, phase, userVars>>
  BY DEF Register, ReadAll
<1>2. pc \in DOMAIN source /\ pf \in Pending /\ functions \in Seq(Pending)
  BY <1>1, CallFields DEF Inv, TypeOK
<1>3. UserAccepts(Current) /\ UserValues(Current, "function_name") = {pf.name.value}
  BY <1>1, RegisteredAlike DEF AlikeInv
<1>4. RegisteredBefore(pc + 1) = RegisteredBefore(pc) \cup {pf.name.value}
  BY <1>2, <1>3, BeforeNext DEF Current
<1>5. FunctionNames' = FunctionNames \cup {pf.name.value}
  <2>1. PICK n \in Nat : n = Len(functions) /\ DOMAIN functions = 1..n
    BY <1>2
  <2>2. /\ DOMAIN functions' = 1..n + 1
        /\ functions'[n + 1] = pf
        /\ \A k \in 1..n : functions'[k] = functions[k]
    BY <1>1, <1>2, <2>1
  <2>3. \A k \in 1..n + 1 : k \in 1..n \/ k = n + 1
    OBVIOUS
  <2>4. n + 1 \in 1..n + 1 /\ 1..n \subseteq 1..n + 1
    OBVIOUS
  <2>5. QED
    BY <2>1, <2>2, <2>3, <2>4 DEF FunctionNames
<1>6. \A k \in DOMAIN source : k < pc + 1 => k < pc \/ k = pc
  BY SourcesAssumption DEF Inv, TypeOK
<1>7. RegisteredBefore(pc)' = RegisteredBefore(pc + 1)
  BY <1>1 DEF RegisteredBefore, UserAccepts, UserValues
<1>8. LoadAlike'
  <2>1. FunctionNames' = RegisteredBefore(pc)'
    BY <1>1, <1>4, <1>5, <1>7 DEF AlikeInv, LoadAlike
  <2>2. \A k \in DOMAIN source : k < pc + 1 => Passable(source[k])
    BY <1>1, <1>3, <1>6 DEF AlikeInv, LoadAlike, Passable, Current
  <2>3. QED
    BY <1>1, <2>1, <2>2 DEF LoadAlike, Passable, UserAccepts, UserValues
<1>9. CallAlike' /\ UserAlike'
  BY <1>1 DEF AlikeInv, CallAlike, UserAlike, userVars
<1>10. QED
  BY <1>8, <1>9 DEF AlikeInv

\* The run in a user's state.
LEMMA UserStepAlike ==
    ASSUME Inv, AlikeInv, Plain, UserStarts \/ UserStatement \/ UserEnds
    PROVE  AlikeInv'
<1>1. phase = "loaded" /\ UNCHANGED loadVars
  BY DEF UserStarts, UserStatement, UserEnds
<1>2. CallAlike' /\ LoadAlike'
  BY <1>1, CallFrame, LoadFrame DEF AlikeInv, loadVars
<1>3. /\ pc \notin DOMAIN source /\ userPhase # "raised"
      /\ table = RegisteredBefore(userPc)
      /\ userPhase = "compiled" => userPc \notin DOMAIN source
  BY <1>1 DEF AlikeInv, UserAlike
<1>4. \A k \in DOMAIN source : Passable(source[k])
  <2>1. \A k \in DOMAIN source : k < pc
    BY <1>3, BeforeEnd DEF Inv, TypeOK
  <2>2. QED
    BY <1>1, <2>1 DEF AlikeInv, LoadAlike
<1>5. RegisteredBefore(userPc)' = UNION {UserValues(source[k], "function_name") :
               k \in {j \in DOMAIN source : j < userPc' /\ UserAccepts(source[j])}}
  BY <1>1 DEF RegisteredBefore, loadVars, UserAccepts, UserValues
<1>6. UserAlike'
  <2>1. CASE UserStarts
    BY <1>1, <1>3, <1>5, <2>1 DEF UserStarts, UserAlike, loadVars, RegisteredBefore
  <2>2. CASE UserStatement
    <3>1. userPc \in DOMAIN source /\ Passable(source[userPc])
      BY <1>4, <2>2 DEF UserStatement
    <3>2. /\ userPhase' = "running" /\ userPc' = userPc + 1
          /\ table' = IF UserAccepts(source[userPc])
                      THEN table \cup UserValues(source[userPc], "function_name") ELSE table
      BY <2>2, <3>1 DEF UserStatement, Passable
    <3>3. table' = RegisteredBefore(userPc + 1)
      BY <1>3, <3>1, <3>2, BeforeNext
    <3>4. RegisteredBefore(userPc)' = RegisteredBefore(userPc + 1)
      BY <1>5, <3>2 DEF RegisteredBefore
    <3>5. QED
      BY <1>1, <1>3, <3>2, <3>3, <3>4 DEF UserAlike, loadVars
  <2>3. CASE UserEnds
    BY <1>1, <1>3, <1>5, <2>3 DEF UserEnds, UserAlike, loadVars, RegisteredBefore
  <2>4. QED
    BY <2>1, <2>2, <2>3
<1>7. QED
  BY <1>2, <1>6 DEF AlikeInv

LEMMA AlikeStep == Inv /\ AlikeInv /\ [Next]_vars => AlikeInv'
<1> SUFFICES ASSUME Inv, AlikeInv, [Next]_vars, Plain' PROVE AlikeInv'
  BY DEF AlikeInv
<1>1. Plain
  <2>1. source' = source
    BY DEF Next, StartLoad, StartCall, Misused, RaiseError, ReadName, ReadDescription, ReadOther,
       FlagsThrow, RefuseArgument, Register, RefuseIncomplete, LoopEnds, Timeout, LineHook,
       FinishLoad, Release, UserStarts, UserStatement, UserEnds, Raise, vars, loadVars
  <2>2. QED
    BY <2>1 DEF Plain
<1>2. pf # None => pc \in DOMAIN source
  BY DEF Inv, CallInv
<1>3. CASE StartLoad
  <2>1. /\ phase = "idle" /\ phase' = "running"
        /\ UNCHANGED <<source, pc, pf, functions, userVars>>
    BY <1>3 DEF StartLoad
  <2>2. CallAlike' /\ LoadAlike'
    BY <1>1, <2>1, CallFrame, LoadFrame DEF AlikeInv
  <2>3. UserAlike'
    BY <1>1, <2>1 DEF AlikeInv, UserAlike, userVars
  <2>4. QED
    BY <2>2, <2>3 DEF AlikeInv
<1>4. CASE StartCall
  <2>1. /\ phase = "running" /\ Current.op \in {"positional", "named"}
        /\ UNCHANGED <<source, phase, pc, functions, userVars>>
        /\ pf'.name = None /\ pf'.callback = FALSE
    BY <1>4 DEF StartCall, Runs, NoStrings
  <2>2. CallAlike'
    BY <2>1 DEF CallAlike, Current
  <2>3. LoadAlike' /\ UserAlike'
    BY <1>1, <2>1, LoadFrame, UserFrame DEF AlikeInv
  <2>4. QED
    BY <2>2, <2>3 DEF AlikeInv
<1>5. CASE Misused
  BY <1>1, <1>5, RaiseAlike DEF Misused, Runs
<1>6. CASE RaiseError
  BY <1>1, <1>6, RaiseAlike DEF RaiseError, Runs
<1>7. ASSUME NEW f \in unread, ReadName(f) \/ ReadDescription(f) \/ ReadOther(f) PROVE AlikeInv'
  BY <1>1, <1>7, ReadAlike
<1>8. ASSUME NEW f \in unread, FlagsThrow(f) PROVE AlikeInv'
  BY <1>1, <1>2, <1>8, RaiseAlike DEF FlagsThrow, MayRead
<1>9. ASSUME NEW f \in unread, RefuseArgument(f) PROVE AlikeInv'
  BY <1>1, <1>2, <1>9, RaiseAlike DEF RefuseArgument, MayRead
<1>10. CASE Register
  BY <1>1, <1>10, RegisterAlike
<1>11. CASE RefuseIncomplete
  BY <1>1, <1>2, <1>11, RaiseAlike DEF RefuseIncomplete, ReadAll
<1>12. CASE LoopEnds
  BY <1>1, <1>12, PassAlike DEF LoopEnds, Runs, AlikeInv
<1>13. CASE Timeout
  BY <1>1, <1>13, RaiseAlike DEF Timeout, HookRuns
<1>14. CASE LineHook
  BY <1>1, <1>14, RaiseAlike DEF LineHook, HookRuns
<1>15. CASE FinishLoad
  <2>1. /\ phase = "running" /\ phase' = "loaded" /\ pc \notin DOMAIN source
        /\ UNCHANGED <<source, pc, pf, functions, userVars>>
    BY <1>15 DEF FinishLoad
  <2>2. RegisteredBefore(1) = {}
    <3>1. \A j \in DOMAIN source : ~(j < 1)
      BY SourcesAssumption DEF Inv, TypeOK
    <3>2. QED
      BY <3>1 DEF RegisteredBefore
  <2>3. RegisteredBefore(userPc)' = RegisteredBefore(userPc)
    BY <2>1 DEF RegisteredBefore, userVars, UserAccepts, UserValues
  <2>4. UserAlike'
    BY <1>1, <2>1, <2>2, <2>3 DEF AlikeInv, UserAlike, userVars
  <2>5. CallAlike' /\ LoadAlike'
    BY <1>1, <2>1, CallFrame, LoadFrame DEF AlikeInv
  <2>6. QED
    BY <2>4, <2>5 DEF AlikeInv
<1>16. CASE Release
  <2>1. phase = "loaded" /\ phase' = "released" /\ pf' = pf
    BY <1>16 DEF Release
  <2>2. pf = None
    BY <2>1 DEF Inv, CallInv
  <2>3. QED
    BY <2>1, <2>2 DEF AlikeInv, CallAlike, LoadAlike, UserAlike
<1>17. CASE UserStarts \/ UserStatement \/ UserEnds
  BY <1>1, <1>17, UserStepAlike
<1>18. CASE UNCHANGED vars
  BY <1>1, <1>18, CallFrame, LoadFrame, UserFrame DEF vars, loadVars, AlikeInv
<1>19. QED
  BY <1>3, <1>4, <1>5, <1>6, <1>7, <1>8, <1>9, <1>10, <1>11, <1>12, <1>13, <1>14, <1>15, <1>16,
     <1>17, <1>18 DEF Next

\* A source spelt as documented and without pcall around its calls registers
\* in a user's state the functions it was loaded with, and does not raise
\* there, for any source and whether or not its load came close to a timeout.
THEOREM AlikeCorrect == Spec => []RegistersAlike
<1>1. Init => AlikeInv
  <2> SUFFICES ASSUME Init PROVE AlikeInv
    OBVIOUS
  <2>1. Inv
    BY InitInv
  <2>2. /\ functions = <<>> /\ pf = None /\ phase = "idle" /\ pc = 1
        /\ userPhase = "idle" /\ userPc = 1 /\ table = {}
    BY DEF Init
  <2>3. \A k \in DOMAIN source : ~(k < 1)
    BY <2>1, SourcesAssumption DEF Inv, TypeOK
  <2>4. FunctionNames = {} /\ RegisteredBefore(1) = {}
    BY <2>2, <2>3 DEF FunctionNames, RegisteredBefore
  <2>5. QED
    BY <2>2, <2>3, <2>4 DEF AlikeInv, CallAlike, LoadAlike, UserAlike
<1>2. Inv /\ AlikeInv => RegistersAlike
  <2> SUFFICES ASSUME Inv, AlikeInv, Plain, phase = "loaded", userPhase = "compiled"
               PROVE  table = FunctionNames
    BY DEF RegistersAlike, AlikeInv, UserAlike, FunctionNames
  <2>1. userPc = pc
    BY BeforeEnd DEF AlikeInv, UserAlike, Inv, TypeOK
  <2>2. QED
    BY <2>1 DEF AlikeInv, UserAlike, LoadAlike
<1>3. QED
  BY <1>1, <1>2, AlikeStep, SpecInv, PTL DEF Spec
=============================================================================
