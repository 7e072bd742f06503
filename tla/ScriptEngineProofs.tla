------------------------- MODULE ScriptEngineProofs -------------------------
(***************************************************************************)
(* Theorems about ScriptEngine, for every value of its constants.          *)
(***************************************************************************)
EXTENDS ScriptEngine, FiniteSetTheorems, TLAPS

-----------------------------------------------------------------------------
(* Types.  TypeOK is not inductive by itself: what a call stores depends on *)
(* what kind of function the server may hand to which callback.             *)

\* Library functions have a name, a library and a library source; scripts a
\* script source.
Kinds ==
    \A i \in FuncIds :
        /\ owner[i] \in {"pending", "linked", "doomed", "lazy"} =>
             func[i].name \in Names /\ func[i].lib \in LibIds /\ func[i].code \in Codes
        /\ owner[i] = "script" => func[i].code \in Scripts

TypeInv == TypeOK /\ Kinds

LEMMA LibraryOrNone ==
    ASSUME NEW x \in Library \cup {NoLib}, x # NoLib
    PROVE  x \in Library /\ x.code \in Codes /\ x.refs \in Int
    BY DEF Library, NoLib

LEMMA TypeInit == Init => TypeInv
<1>1. Init => TypeOK
  BY BoundsAssumption DEF Init, TypeOK, Library, NoLib, FuncRec, NoFunc, Owner, NoReply,
     EmptyNames, EmptyCache
<1>2. Init => Kinds
  BY DEF Init, Kinds
<1>3. QED
  BY <1>1, <1>2 DEF TypeInv

LEMMA TypeStep == TypeInv /\ [NextLazy]_vars => TypeInv'
<1> SUFFICES ASSUME TypeInv, [NextLazy]_vars PROVE TypeInv'
  OBVIOUS
<1> USE DEF TypeInv
<1>1. ASSUME NEW c \in Codes, CompileLibrary(c) PROVE TypeInv'
  <2> DEFINE k == Len(Declares[c])
             l == nextLibId + 1
             new == nextFuncId + 1 .. nextFuncId + k
  <2>1. k \in Nat /\ l \in LibIds /\ \A i \in new : Declares[c][i - nextFuncId] \in Names
    BY <1>1, SourcesAssumption, BoundsAssumption DEF CompileLibrary, TypeOK, LibIds
  <2>2. (/\ libraries \in [LibIds -> Library \cup {NoLib}]
         /\ nextLibId \in 0..MaxLibId
         /\ nextFuncId \in 0..MaxFuncId)'
    BY <1>1, <2>1, BoundsAssumption DEF CompileLibrary, TypeOK, Library, LibIds
  <2>3. (func \in [FuncIds -> FuncRec])'
    BY <1>1, <2>1 DEF CompileLibrary, TypeOK, FuncRec, Bodies
  <2>4. (owner \in [FuncIds -> Owner])'
    BY <1>1 DEF CompileLibrary, TypeOK, Owner
  <2>5. (reply \in [id : {0} \cup FuncIds, out : Bodies \cup Failures \cup {None}])'
    BY <1>1 DEF CompileLibrary, NoReply
  <2>6. UNCHANGED userVars
    BY <1>1 DEF CompileLibrary
  <2>7. TypeOK'
    BY <2>2, <2>3, <2>4, <2>5, <2>6 DEF TypeOK, userVars
  <2>8. Kinds'
    BY <1>1, <2>1 DEF CompileLibrary, Kinds, TypeOK
  <2>9. QED
    BY <2>7, <2>8
<1>2. ASSUME NEW s \in Scripts, CompileScript(s) PROVE TypeInv'
  <2>1. TypeOK'
    BY <1>2, BoundsAssumption DEF CompileScript, TypeOK, FuncRec, Owner, Bodies, NoReply,
       userVars, FuncIds
  <2>2. Kinds'
    BY <1>2, BoundsAssumption DEF CompileScript, Kinds, TypeOK, FuncIds
  <2>3. QED
    BY <2>1, <2>2
<1>3. CASE Link
  BY <1>3 DEF Link, Replaced, TypeOK, Kinds, Owner, NoReply, engineVars, userVars
<1>4. CASE Reject
  BY <1>4 DEF Reject, TypeOK, Kinds, Owner, NoReply, engineVars, userVars
<1>5. ASSUME NEW ln \in LibNames, DeleteLibrary(ln) PROVE TypeInv'
  BY <1>5 DEF DeleteLibrary, Owned, TypeOK, Kinds, Owner, NoReply, engineVars, userVars
<1>6. ASSUME NEW i \in FuncIds, FreeLibraryFunction(i),
             owner[i] \in {"doomed", "lazy"}, reply' \in {reply, NoReply}
      PROVE  TypeInv'
  <2> DEFINE l == func[i].lib
  <2>1. l \in LibIds
    BY <1>6 DEF Kinds
  <2>2. (libraries \in [LibIds -> Library \cup {NoLib}])'
    <3>1. CASE libraries[l] = NoLib
      BY <1>6, <3>1 DEF FreeLibraryFunction, Unref, TypeOK
    <3>2. CASE libraries[l] # NoLib
      <4>1. libraries[l].code \in Codes /\ libraries[l].refs \in Int
        BY <2>1, <3>2, LibraryOrNone DEF TypeOK
      <4>2. [code |-> libraries[l].code, refs |-> libraries[l].refs - 1] \in Library
        BY <4>1 DEF Library
      <4>3. QED
        BY <1>6, <2>1, <3>2, <4>2 DEF FreeLibraryFunction, Unref, TypeOK
    <3>3. QED
      BY <3>1, <3>2
  <2>3. (libFuncs \in [Users -> [Names -> Codes \cup {None}]])'
    BY <1>6 DEF FreeLibraryFunction, PurgeName, TypeOK
  <2>4. (owner \in [FuncIds -> Owner])'
    BY <1>6 DEF FreeLibraryFunction, TypeOK, Owner
  <2>5. (reply \in [id : {0} \cup FuncIds, out : Bodies \cup Failures \cup {None}])'
    BY <1>6 DEF TypeOK, NoReply
  <2>6. TypeOK'
    BY <1>6, <2>2, <2>3, <2>4, <2>5 DEF FreeLibraryFunction, TypeOK
  <2>7. Kinds'
    BY <1>6 DEF FreeLibraryFunction, Kinds, TypeOK
  <2>8. QED
    BY <2>6, <2>7
<1>7. ASSUME NEW i \in FuncIds, FreeScript(i) PROVE TypeInv'
  BY <1>7 DEF FreeScript, TypeOK, Kinds, Owner, NoReply, engineVars, userVars
<1>8. ASSUME NEW u \in Users, NEW i \in FuncIds, Fcall(u, i) PROVE TypeInv'
  <2> DEFINE l == func[i].lib
  <2>1. owner[i] = "linked" /\ l \in LibIds /\ func[i].name \in Names
    BY <1>8 DEF Fcall, FcallHit, FcallLibraryMissing, FcallCompileError, FcallNotFound,
       FcallMiss, CallStarts, Kinds
  <2>2. libraries[l] # NoLib => libraries[l].code \in Codes
    BY <2>1, LibraryOrNone DEF TypeOK
  <2>3. ASSUME NEW c \in Codes PROVE Registered(u, c) \in [Names -> Codes \cup {None}]
    BY <2>3 DEF Registered, TypeOK
  <2>4. libraries[l] # NoLib => LookupTable(u, i) \in [Names -> Codes \cup {None}]
    BY <2>2, <2>3 DEF LookupTable, TypeOK
  <2>5. ASSUME NEW c \in Codes, NEW t \in [Names -> Codes \cup {None}]
        PROVE  AfterBody(t, c) \in [Names -> Codes \cup {None}]
    BY <2>5 DEF AfterBody
  <2>6. (/\ libFuncs \in [Users -> [Names -> Codes \cup {None}]]
         /\ compiled \in [Users -> SUBSET LibIds]
         /\ funcCache \in [Users -> [FuncIds -> Codes \cup {None}]]
         /\ reply \in [id : {0} \cup FuncIds, out : Bodies \cup Failures \cup {None}])'
    <3>1. CASE FcallHit(u, i)
      <4>1. funcCache[u][i] \in Codes
        BY <3>1 DEF FcallHit, TypeOK
      <4>2. AfterBody(libFuncs[u], funcCache[u][i]) \in [Names -> Codes \cup {None}]
        BY <2>5, <4>1 DEF TypeOK
      <4>3. QED
        BY <3>1, <4>1, <4>2 DEF FcallHit, TypeOK, Bodies
    <3>2. CASE FcallLibraryMissing(u, i)
      BY <3>2 DEF FcallLibraryMissing, TypeOK, Failures
    <3>3. CASE FcallCompileError(u, i)
      <4>1. Registered(u, libraries[l].code) \in [Names -> Codes \cup {None}]
        BY <2>2, <2>3, <3>3 DEF FcallCompileError
      <4>2. QED
        BY <3>3, <4>1 DEF FcallCompileError, TypeOK, Failures
    <3>4. CASE FcallNotFound(u, i)
      <4>1. LookupTable(u, i) \in [Names -> Codes \cup {None}]
        BY <2>4, <3>4 DEF FcallNotFound, LibraryReady
      <4>2. QED
        BY <2>1, <3>4, <4>1 DEF FcallNotFound, LibraryReady, TypeOK, Failures
    <3>5. CASE FcallMiss(u, i)
      <4> DEFINE t == LookupTable(u, i)
      <4>1. t \in [Names -> Codes \cup {None}]
        BY <2>4, <3>5 DEF FcallMiss, LibraryReady
      <4>2. t[func[i].name] \in Codes
        BY <2>1, <3>5, <4>1 DEF FcallMiss
      <4>3. AfterBody(t, t[func[i].name]) \in [Names -> Codes \cup {None}]
        BY <2>5, <4>1, <4>2
      <4>4. /\ libFuncs' = [libFuncs EXCEPT ![u] = AfterBody(t, t[func[i].name])]
            /\ compiled' = [compiled EXCEPT ![u] = @ \cup {l}]
            /\ funcCache' = [funcCache EXCEPT ![u][i] = t[func[i].name]]
            /\ reply' = [id |-> i, out |-> t[func[i].name]]
        BY <3>5 DEF FcallMiss, LibraryReady
      <4>5. QED
        BY <2>1, <4>2, <4>3, <4>4 DEF TypeOK, Bodies
    <3>6. QED
      BY <1>8, <3>1, <3>2, <3>3, <3>4, <3>5 DEF Fcall
  <2>7. states' \subseteq Users /\ UNCHANGED <<engineVars, evalCache, hostVars>>
    BY <1>8 DEF Fcall, FcallHit, FcallLibraryMissing, FcallCompileError, FcallNotFound,
       FcallMiss, CallStarts, TypeOK
  <2>8. QED
    BY <2>6, <2>7 DEF TypeOK, Kinds, engineVars, hostVars
<1>9. ASSUME NEW u \in Users, NEW i \in FuncIds, Eval(u, i) PROVE TypeInv'
  <2> DEFINE body == IF evalCache[u][i] # None THEN evalCache[u][i] ELSE func[i].code
  <2>1. body \in Scripts
    BY <1>9 DEF Eval, Kinds, TypeOK
  <2>2. /\ states' = states \cup {u}
        /\ evalCache' = [evalCache EXCEPT ![u][i] = body]
        /\ reply' = [id |-> i, out |-> body]
        /\ UNCHANGED <<engineVars, libFuncs, compiled, funcCache, hostVars>>
    BY <1>9 DEF Eval
  <2>3. QED
    BY <2>1, <2>2 DEF TypeOK, Kinds, Bodies, engineVars, hostVars
<1>10. ASSUME NEW fate \in {"doomed", "lazy"}, ResetFunctions(fate) PROVE TypeInv'
  BY <1>10, BoundsAssumption DEF ResetFunctions, ForgetLibraries, FreshFunctionStates, TypeOK,
     Kinds, Owner, NoReply, EmptyNames, EmptyCache
<1>11. CASE ResetScripts
  BY <1>11 DEF ResetScripts, TypeOK, Kinds, Owner, NoReply, EmptyCache, engineVars
<1>12. CASE ResetAll
  BY <1>12, BoundsAssumption DEF ResetAll, ForgetLibraries, FreshFunctionStates, TypeOK, Kinds,
     Owner, NoReply, EmptyNames, EmptyCache
<1>13. CASE UNCHANGED vars
  BY <1>13 DEF TypeOK, Kinds, vars, engineVars, userVars, hostVars
<1>14. QED
  BY <1>1, <1>2, <1>3, <1>4, <1>5, <1>6, <1>7, <1>8, <1>9, <1>10, <1>11, <1>12, <1>13
  DEF NextLazy, Next, Free, LazyFree

\* Every variable keeps its type, in the synchronous and in the lazy system:
\* in particular free_function only ever touches a library entry that is there.
THEOREM TypeCorrect == SpecLazy => []TypeOK
<1>1. TypeInv => TypeOK
  BY DEF TypeInv
<1>2. QED
  BY TypeInit, TypeStep, <1>1, PTL DEF SpecLazy

LEMMA SpecTypeInv == Spec => []TypeInv
<1>1. TypeInv /\ [Next]_vars => TypeInv'
  BY TypeStep DEF NextLazy
<1>2. QED
  BY TypeInit, <1>1, PTL DEF Spec

-----------------------------------------------------------------------------
(* Reference counts.  A library lives exactly as long as the server holds   *)
(* one of its functions, because the count is exact and because no id is    *)
(* given to a second library while functions of the first are still held.   *)

IdsUsed == \A i \in FuncIds : i > nextFuncId => owner[i] = "unused"
LibIdsUsed == \A l \in LibIds : libraries[l] # NoLib => l <= nextLibId
NoneLazy == \A i \in FuncIds : owner[i] # "lazy"
HeldLibrary ==
    \A i \in FuncIds : owner[i] \in {"pending", "linked"} =>
        /\ libraries[func[i].lib] # NoLib
        /\ libraries[func[i].lib].code = func[i].code

RefInv ==
    /\ TypeInv
    /\ IdsUsed
    /\ LibIdsUsed
    /\ NoneLazy
    /\ HeldLibrary
    /\ RefCountExact

LEMMA UnfreedFinite ==
    ASSUME BoundsAssumption, NEW l \in LibIds
    PROVE  IsFiniteSet(Unfreed(l)) /\ Cardinality(Unfreed(l)) \in Nat
<1>1. IsFiniteSet(FuncIds)
  BY FS_Interval, BoundsAssumption DEF FuncIds
<1>2. Unfreed(l) \subseteq FuncIds
  BY DEF Unfreed
<1>3. QED
  BY <1>1, <1>2, FS_Subset, FS_CardinalityType

LEMMA RefInit == Init => RefInv
<1> SUFFICES ASSUME Init PROVE RefInv
  OBVIOUS
<1>1. TypeInv
  BY TypeInit
<1>2. IdsUsed /\ LibIdsUsed /\ NoneLazy /\ HeldLibrary /\ RefCountExact
  BY DEF Init, IdsUsed, LibIdsUsed, NoneLazy, HeldLibrary, RefCountExact
<1>3. QED
  BY <1>1, <1>2 DEF RefInv

\* A step that leaves the libraries alone, and moves functions only between
\* the hands of the server, keeps the counts exact.
LEMMA RefFrame ==
    ASSUME RefInv, TypeInv', UNCHANGED <<libraries, nextLibId>>,
           IdsUsed', NoneLazy',
           \A i \in FuncIds :
               LET held == {"pending", "linked", "doomed"} IN
               /\ owner[i] \in held <=> owner'[i] \in held
               /\ owner[i] \in held => func'[i] = func[i]
               /\ owner'[i] \in {"pending", "linked"} => owner[i] \in {"pending", "linked"}
    PROVE  RefInv'
<1>1. HeldLibrary'
  BY DEF RefInv, HeldLibrary
<1>2. \A l \in LibIds : Unfreed(l)' = Unfreed(l)
  BY DEF Unfreed
<1>3. RefCountExact' /\ LibIdsUsed'
  BY <1>2 DEF RefInv, RefCountExact, LibIdsUsed
<1>4. QED
  BY <1>1, <1>3 DEF RefInv

LEMMA RefCompileLibrary ==
    ASSUME RefInv, TypeInv', NEW c \in Codes, CompileLibrary(c)
    PROVE  RefInv'
<1> DEFINE k == Len(Declares[c])
           l == nextLibId + 1
           new == nextFuncId + 1 .. nextFuncId + k
<1>1. k \in Nat /\ l \in LibIds /\ nextFuncId \in Nat /\ new \subseteq FuncIds /\ c # None
  BY SourcesAssumption, BoundsAssumption, NoneAssumption
  DEF CompileLibrary, RefInv, TypeInv, TypeOK, LibIds, FuncIds, Bodies
<1>2. /\ libraries' = [libraries EXCEPT ![l] = [code |-> c, refs |-> k]]
      /\ nextLibId' = l
      /\ nextFuncId' = nextFuncId + k
      /\ \A i \in new : owner'[i] = "pending" /\ func'[i].lib = l /\ func'[i].code = c
      /\ \A i \in FuncIds \ new : owner'[i] = owner[i] /\ func'[i] = func[i]
  BY <1>1 DEF CompileLibrary
<1>3. \A i \in FuncIds : owner[i] \notin {"pending", "doomed"}
  BY DEF CompileLibrary, Idle, Owned
<1>4. \A i \in new : owner[i] = "unused"
  BY <1>1 DEF RefInv, IdsUsed
<1>5. libraries[l] = NoLib
  BY <1>1 DEF RefInv, LibIdsUsed, TypeInv, TypeOK
<1>6. IdsUsed' /\ LibIdsUsed' /\ NoneLazy'
  <2>1. IdsUsed'
    BY <1>1, <1>2 DEF RefInv, IdsUsed, FuncIds
  <2>2. LibIdsUsed'
    BY <1>1, <1>2 DEF RefInv, LibIdsUsed, TypeInv, TypeOK, LibIds
  <2>3. NoneLazy'
    BY <1>2 DEF RefInv, NoneLazy
  <2>4. QED
    BY <2>1, <2>2, <2>3
<1>7. [code |-> c, refs |-> k] # NoLib
  BY <1>1 DEF NoLib
<1>8. HeldLibrary'
  <2> SUFFICES ASSUME NEW i \in FuncIds, owner'[i] \in {"pending", "linked"}
               PROVE  /\ libraries'[func'[i].lib] # NoLib
                      /\ libraries'[func'[i].lib].code = func'[i].code
    BY DEF HeldLibrary
  <2>1. CASE i \in new
    BY <1>1, <1>2, <1>7, <2>1 DEF RefInv, TypeInv, TypeOK
  <2>2. CASE i \notin new
    <3>1. owner[i] = "linked" /\ func'[i] = func[i] /\ libraries[func[i].lib] # NoLib
      BY <1>2, <1>3, <2>2 DEF RefInv, HeldLibrary
    <3>2. func[i].lib # l
      BY <1>5, <3>1
    <3>3. QED
      BY <1>2, <3>1, <3>2 DEF RefInv, HeldLibrary, TypeInv, TypeOK, Kinds
  <2>3. QED
    BY <2>1, <2>2
<1>9. RefCountExact'
  <2> SUFFICES ASSUME NEW m \in LibIds, libraries'[m] # NoLib
               PROVE  libraries'[m].refs = Cardinality(Unfreed(m)')
    BY DEF RefCountExact
  <2>1. CASE m = l
    <3>1. Unfreed(m)' = new
      <4>1. \A i \in FuncIds \ new : owner[i] = "linked" => func[i].lib # l
        BY <1>5 DEF RefInv, HeldLibrary
      <4>2. QED
        BY <1>1, <1>2, <1>3, <2>1, <4>1 DEF Unfreed
    <3>2. Cardinality(new) = k
      <4> HIDE DEF k
      <4>1. nextFuncId + 1 \in Int /\ nextFuncId + k \in Int
        BY <1>1
      <4>2. Cardinality(new) = IF nextFuncId + 1 > nextFuncId + k THEN 0
                               ELSE (nextFuncId + k) - (nextFuncId + 1) + 1
        BY <4>1, FS_Interval
      <4>3. QED
        BY <1>1, <4>2
    <3>3. QED
      BY <1>1, <1>2, <2>1, <3>1, <3>2 DEF RefInv, TypeInv, TypeOK
  <2>2. CASE m # l
    <3>1. Unfreed(m)' = Unfreed(m)
      BY <1>1, <1>2, <1>4, <2>2 DEF Unfreed
    <3>2. libraries'[m] = libraries[m]
      BY <1>1, <1>2, <2>2 DEF RefInv, TypeInv, TypeOK
    <3>3. QED
      BY <3>1, <3>2 DEF RefInv, RefCountExact
  <2>3. QED
    BY <2>1, <2>2
<1>10. QED
  BY <1>6, <1>8, <1>9 DEF RefInv

LEMMA RefFree ==
    ASSUME RefInv, TypeInv', NEW i \in FuncIds, Free(i)
    PROVE  RefInv'
<1> DEFINE l == func[i].lib
<1>1. /\ owner[i] = "doomed" /\ l \in LibIds
      /\ owner' = [owner EXCEPT ![i] = "freed"]
      /\ UNCHANGED <<func, nextLibId, nextFuncId>>
      /\ Unref(l)
  BY DEF Free, FreeLibraryFunction, RefInv, TypeInv, Kinds
<1>2. IdsUsed' /\ NoneLazy'
  BY <1>1 DEF RefInv, IdsUsed, NoneLazy, TypeInv, TypeOK
<1>3. \A m \in LibIds : m # l => Unfreed(m)' = Unfreed(m) /\ libraries'[m] = libraries[m]
  BY <1>1 DEF Unfreed, Unref, RefInv, TypeInv, TypeOK
<1>4. \A m \in LibIds : m = l => i \in Unfreed(m) /\ Unfreed(m)' = Unfreed(m) \ {i}
  BY <1>1 DEF Unfreed, RefInv, TypeInv, TypeOK
<1>5. /\ IsFiniteSet(Unfreed(l))
      /\ Cardinality(Unfreed(l) \ {i}) = Cardinality(Unfreed(l)) - 1
      /\ Cardinality(Unfreed(l)) \in Nat
  BY <1>1, <1>4, UnfreedFinite, BoundsAssumption, FS_RemoveElement
<1>6. CASE libraries[l] = NoLib
  <2>1. libraries' = libraries
    BY <1>1, <1>6 DEF Unref
  <2>2. HeldLibrary'
    BY <1>1, <2>1 DEF RefInv, HeldLibrary, TypeInv, TypeOK
  <2>3. RefCountExact' /\ LibIdsUsed'
    BY <1>1, <1>3, <1>6, <2>1 DEF RefInv, RefCountExact, LibIdsUsed
  <2>4. QED
    BY <1>2, <2>2, <2>3 DEF RefInv
<1>7. CASE libraries[l] # NoLib
  <2>1. libraries[l].refs = Cardinality(Unfreed(l))
    BY <1>1, <1>7 DEF RefInv, RefCountExact
  <2>2. libraries'[l] = IF libraries[l].refs - 1 = 0 THEN NoLib
                        ELSE [code |-> libraries[l].code, refs |-> libraries[l].refs - 1]
    BY <1>1, <1>7 DEF Unref, RefInv, TypeInv, TypeOK
  <2>3. RefCountExact'
    <3> SUFFICES ASSUME NEW m \in LibIds, libraries'[m] # NoLib
                 PROVE  libraries'[m].refs = Cardinality(Unfreed(m)')
      BY DEF RefCountExact
    <3>1. CASE m = l
      <4>1. Unfreed(m)' = Unfreed(l) \ {i}
        BY <1>4, <3>1
      <4>2. libraries'[l].refs = Cardinality(Unfreed(l)) - 1
        BY <1>5, <2>1, <2>2, <3>1
      <4>3. QED
        BY <1>5, <3>1, <4>1, <4>2
    <3>2. CASE m # l
      BY <1>3, <3>2 DEF RefInv, RefCountExact
    <3>3. QED
      BY <3>1, <3>2
  <2>4. LibIdsUsed'
    BY <1>1, <1>3, <1>7 DEF RefInv, LibIdsUsed
  <2>5. HeldLibrary'
    <3> SUFFICES ASSUME NEW j \in FuncIds, owner'[j] \in {"pending", "linked"}
                 PROVE  /\ libraries'[func[j].lib] # NoLib
                        /\ libraries'[func[j].lib].code = func[j].code
      BY <1>1 DEF HeldLibrary
    <3>1. j # i /\ owner[j] \in {"pending", "linked"} /\ func[j].lib \in LibIds
      BY <1>1 DEF RefInv, TypeInv, TypeOK, Kinds
    <3>2. CASE func[j].lib # l
      BY <1>3, <3>1, <3>2 DEF RefInv, HeldLibrary
    <3>3. CASE func[j].lib = l
      <4>1. j \in Unfreed(l) \ {i}
        BY <3>1, <3>3 DEF Unfreed
      <4>2. Cardinality(Unfreed(l) \ {i}) # 0
        BY <1>5, <4>1, FS_EmptySet, FS_RemoveElement, FS_Subset
      <4>3. libraries[l].refs - 1 # 0
        BY <1>4, <1>5, <2>1, <4>2
      <4>4. libraries[l].code = func[j].code /\ libraries[l].code \in Codes
        BY <1>7, <3>1, <3>3, LibraryOrNone DEF RefInv, HeldLibrary, TypeInv, TypeOK
      <4>5. QED
        BY <2>2, <3>3, <4>3, <4>4, NoneAssumption DEF NoLib, Bodies
    <3>4. QED
      BY <3>2, <3>3
  <2>6. QED
    BY <1>2, <2>3, <2>4, <2>5 DEF RefInv
<1>8. QED
  BY <1>6, <1>7

LEMMA RefStep == RefInv /\ [Next]_vars => RefInv'
<1> SUFFICES ASSUME RefInv, [Next]_vars PROVE RefInv'
  OBVIOUS
<1>1. TypeInv'
  BY TypeStep DEF RefInv, NextLazy
<1>2. ASSUME NEW c \in Codes, CompileLibrary(c) PROVE RefInv'
  BY <1>1, <1>2, RefCompileLibrary
<1>3. ASSUME NEW s \in Scripts, CompileScript(s) PROVE RefInv'
  <2>1. IdsUsed' /\ NoneLazy'
    BY <1>3 DEF CompileScript, RefInv, IdsUsed, NoneLazy, TypeInv, TypeOK, FuncIds
  <2>2. owner[nextFuncId + 1] = "unused" /\ nextFuncId + 1 \in FuncIds
    BY <1>3, BoundsAssumption DEF CompileScript, RefInv, IdsUsed, TypeInv, TypeOK, FuncIds
  <2>3. QED
    BY <1>1, <1>3, <2>1, <2>2, RefFrame DEF CompileScript, RefInv, TypeInv, TypeOK
<1>4. CASE Link
  <2>1. IdsUsed' /\ NoneLazy'
    BY <1>4 DEF Link, Replaced, RefInv, IdsUsed, NoneLazy, engineVars
  <2>2. QED
    BY <1>1, <1>4, <2>1, RefFrame DEF Link, Replaced, engineVars, RefInv, TypeInv, TypeOK
<1>5. CASE Reject
  <2>1. IdsUsed' /\ NoneLazy'
    BY <1>5 DEF Reject, RefInv, IdsUsed, NoneLazy, engineVars
  <2>2. QED
    BY <1>1, <1>5, <2>1, RefFrame DEF Reject, engineVars, RefInv, TypeInv, TypeOK
<1>6. ASSUME NEW ln \in LibNames, DeleteLibrary(ln) PROVE RefInv'
  <2>1. IdsUsed' /\ NoneLazy'
    BY <1>6 DEF DeleteLibrary, Owned, RefInv, IdsUsed, NoneLazy, engineVars
  <2>2. QED
    BY <1>1, <1>6, <2>1, RefFrame DEF DeleteLibrary, Owned, engineVars, RefInv, TypeInv, TypeOK
<1>7. ASSUME NEW i \in FuncIds, Free(i) PROVE RefInv'
  BY <1>1, <1>7, RefFree
<1>8. ASSUME NEW i \in FuncIds, FreeScript(i) PROVE RefInv'
  <2>1. IdsUsed' /\ NoneLazy'
    BY <1>8 DEF FreeScript, RefInv, IdsUsed, NoneLazy, TypeInv, TypeOK, engineVars
  <2>2. QED
    BY <1>1, <1>8, <2>1, RefFrame DEF FreeScript, engineVars, RefInv, TypeInv, TypeOK
<1>9. ASSUME NEW u \in Users, NEW i \in FuncIds, Fcall(u, i) \/ Eval(u, i) PROVE RefInv'
  <2>1. UNCHANGED <<engineVars, hostVars>>
    BY <1>9 DEF Fcall, FcallHit, FcallLibraryMissing, FcallCompileError, FcallNotFound,
       FcallMiss, CallStarts, Eval
  <2>2. IdsUsed' /\ NoneLazy'
    BY <2>1 DEF RefInv, IdsUsed, NoneLazy, engineVars, hostVars
  <2>3. QED
    BY <1>1, <2>1, <2>2, RefFrame DEF engineVars, hostVars
<1>10. CASE ResetFunctions("doomed") \/ ResetAll
  <2>1. /\ \A l \in LibIds : libraries'[l] = NoLib
        /\ \A i \in FuncIds : owner'[i] \notin {"pending", "linked", "lazy"}
        /\ nextFuncId' = nextFuncId
        /\ \A i \in FuncIds : owner[i] = "unused" => owner'[i] = "unused"
    BY <1>10 DEF ResetFunctions, ResetAll, ForgetLibraries, Idle, Owned, RefInv, NoneLazy,
       TypeInv, TypeOK
  <2>2. QED
    BY <1>1, <2>1 DEF RefInv, IdsUsed, LibIdsUsed, NoneLazy, HeldLibrary, RefCountExact
<1>11. CASE ResetScripts
  <2>1. IdsUsed' /\ NoneLazy'
    BY <1>11 DEF ResetScripts, RefInv, IdsUsed, NoneLazy, engineVars
  <2>2. QED
    BY <1>1, <1>11, <2>1, RefFrame DEF ResetScripts, engineVars, RefInv, TypeInv, TypeOK
<1>12. CASE UNCHANGED vars
  <2>1. IdsUsed' /\ NoneLazy'
    BY <1>12 DEF RefInv, IdsUsed, NoneLazy, vars, engineVars, hostVars
  <2>2. QED
    BY <1>1, <1>12, <2>1, RefFrame DEF vars, engineVars, hostVars
<1>13. QED
  BY <1>2, <1>3, <1>4, <1>5, <1>6, <1>7, <1>8, <1>9, <1>10, <1>11, <1>12 DEF Next

LEMMA SpecRefInv == Spec => []RefInv
  BY RefInit, RefStep, PTL DEF Spec

\* A library's reference count is exact at every moment between two calls of
\* the engine: what free_function must and may rely on to drop the source.
THEOREM RefCountCorrect == Spec => []RefCountExact
<1>1. RefInv => RefCountExact
  BY DEF RefInv
<1>2. QED
  BY SpecRefInv, <1>1, PTL

\* No linked function is ever without its library and its own source: a call
\* never answers "ERR Library for function %s not found".
THEOREM LibraryStaysLive == Spec => []LiveLibrary
<1>1. RefInv => LiveLibrary
  BY DEF RefInv, HeldLibrary, LiveLibrary, Owned
<1>2. QED
  BY SpecRefInv, <1>1, PTL

-----------------------------------------------------------------------------
(* Reference counts while a background thread frees.  After an asynchronous *)
(* flush the library ids start again, so a function freed late may take a   *)
(* reference from a library it is not of.  It never adds one.               *)

LazyRefInv == TypeInv /\ IdsUsed /\ NoExtraReference

\* A step that takes no function away from the server and only drops or
\* lowers references.
LEMMA LazyRefFrame ==
    ASSUME LazyRefInv, TypeInv', IdsUsed',
           \A l \in LibIds : libraries'[l] # NoLib =>
               libraries[l] # NoLib /\ libraries'[l].refs <= libraries[l].refs,
           \A i \in FuncIds :
               LET held == {"pending", "linked", "doomed"} IN
               owner[i] \in held <=> owner'[i] \in held,
           \A i \in FuncIds :
               owner[i] \in {"pending", "linked", "doomed"} => func'[i] = func[i]
    PROVE  LazyRefInv'
<1>1. \A l \in LibIds : Unfreed(l)' = Unfreed(l)
  BY DEF Unfreed
<1>2. ASSUME NEW l \in LibIds, libraries'[l] # NoLib
      PROVE  libraries'[l].refs <= Cardinality(Unfreed(l)')
  <2>1. libraries[l] # NoLib /\ libraries'[l].refs <= libraries[l].refs
    BY <1>2
  <2>2. libraries[l].refs <= Cardinality(Unfreed(l))
    BY <2>1 DEF LazyRefInv, NoExtraReference
  <2>3. libraries[l].refs \in Int /\ libraries'[l].refs \in Int
    BY <1>2, <2>1, LibraryOrNone DEF LazyRefInv, TypeInv, TypeOK
  <2>4. Cardinality(Unfreed(l)) \in Nat
    BY UnfreedFinite, BoundsAssumption
  <2>5. QED
    BY <1>1, <2>1, <2>2, <2>3, <2>4
<1>3. QED
  BY <1>2 DEF LazyRefInv, NoExtraReference

LEMMA LazyRefCompileLibrary ==
    ASSUME LazyRefInv, TypeInv', NEW c \in Codes, CompileLibrary(c)
    PROVE  LazyRefInv'
<1>1. PICK k \in Nat, l \in LibIds, base \in Nat, new \in SUBSET FuncIds :
          /\ k = Len(Declares[c])
          /\ base = nextFuncId
          /\ l = nextLibId + 1
          /\ new = base + 1 .. base + k
  BY SourcesAssumption, BoundsAssumption
  DEF CompileLibrary, LazyRefInv, TypeInv, TypeOK, LibIds, FuncIds
<1>2. /\ libraries' = [libraries EXCEPT ![l] = [code |-> c, refs |-> k]]
      /\ nextFuncId' = base + k
      /\ \A i \in new : owner'[i] = "pending" /\ func'[i].lib = l
      /\ \A i \in FuncIds \ new : owner'[i] = owner[i] /\ func'[i] = func[i]
  BY <1>1 DEF CompileLibrary
<1>3. \A i \in new : owner[i] = "unused"
  BY <1>1 DEF LazyRefInv, IdsUsed
<1>4. IdsUsed'
  BY <1>1, <1>2 DEF LazyRefInv, IdsUsed, FuncIds
<1>5. NoExtraReference'
  <2> SUFFICES ASSUME NEW m \in LibIds, libraries'[m] # NoLib
               PROVE  libraries'[m].refs <= Cardinality(Unfreed(m)')
    BY DEF NoExtraReference
  <2>1. CASE m = l
    <3>1. new \subseteq Unfreed(m)'
      BY <1>1, <1>2, <2>1 DEF Unfreed
    <3>2. Cardinality(new) = k
      <4>1. base + 1 \in Int /\ base + k \in Int
        BY <1>1
      <4>2. Cardinality(new) = IF base + 1 > base + k THEN 0 ELSE (base + k) - (base + 1) + 1
        BY <1>1, <4>1, FS_Interval
      <4>3. QED
        BY <1>1, <4>2
    <3>3. IsFiniteSet(Unfreed(m)')
      <4>1. IsFiniteSet(FuncIds)
        BY FS_Interval, BoundsAssumption DEF FuncIds
      <4>2. Unfreed(m)' \subseteq FuncIds
        BY DEF Unfreed
      <4>3. QED
        BY <4>1, <4>2, FS_Subset
    <3>4. Cardinality(new) <= Cardinality(Unfreed(m)')
      BY <3>1, <3>3, FS_Subset
    <3>5. libraries'[m].refs = k
      BY <1>2, <2>1 DEF LazyRefInv, TypeInv, TypeOK
    <3>6. QED
      BY <3>2, <3>4, <3>5
  <2>2. CASE m # l
    <3>1. Unfreed(m)' = Unfreed(m)
      <4>1. ASSUME NEW i \in FuncIds
            PROVE  owner'[i] \in {"pending", "linked", "doomed"} /\ func'[i].lib = m
                   <=> owner[i] \in {"pending", "linked", "doomed"} /\ func[i].lib = m
        <5>1. CASE i \in new
          BY <1>2, <1>3, <2>2, <5>1
        <5>2. CASE i \notin new
          BY <1>2, <5>2
        <5>3. QED
          BY <5>1, <5>2
      <4>2. QED
        BY <4>1 DEF Unfreed
    <3>2. libraries'[m] = libraries[m]
      BY <1>2, <2>2 DEF LazyRefInv, TypeInv, TypeOK
    <3>3. QED
      BY <3>1, <3>2 DEF LazyRefInv, NoExtraReference
  <2>3. QED
    BY <2>1, <2>2
<1>6. QED
  BY <1>4, <1>5 DEF LazyRefInv

\* What free_function does to the dictionary: at most one count goes down.
LEMMA UnrefLowers ==
    ASSUME TypeInv, NEW l \in LibIds, Unref(l)
    PROVE  \A m \in LibIds : libraries'[m] # NoLib =>
               /\ libraries[m] # NoLib
               /\ m # l => libraries'[m] = libraries[m]
               /\ m = l => libraries'[m].refs = libraries[m].refs - 1
<1>1. CASE libraries[l] = NoLib
  BY <1>1 DEF Unref
<1>2. CASE libraries[l] # NoLib
  BY <1>2 DEF Unref, TypeInv, TypeOK
<1>3. QED
  BY <1>1, <1>2

LEMMA LazyRefFree ==
    ASSUME LazyRefInv, TypeInv', NEW i \in FuncIds, Free(i)
    PROVE  LazyRefInv'
<1>1. PICK l \in LibIds :
          /\ l = func[i].lib /\ owner[i] = "doomed"
          /\ owner' = [owner EXCEPT ![i] = "freed"]
          /\ UNCHANGED <<func, nextFuncId>>
          /\ Unref(l)
  BY DEF Free, FreeLibraryFunction, LazyRefInv, TypeInv, Kinds
<1>2. IdsUsed'
  BY <1>1 DEF LazyRefInv, IdsUsed, TypeInv, TypeOK
<1>3. NoExtraReference'
  <2> SUFFICES ASSUME NEW m \in LibIds, libraries'[m] # NoLib
               PROVE  libraries'[m].refs <= Cardinality(Unfreed(m)')
    BY DEF NoExtraReference
  <2>1. /\ libraries[m] # NoLib
        /\ m # l => libraries'[m] = libraries[m]
        /\ m = l => libraries'[m].refs = libraries[m].refs - 1
    BY <1>1, UnrefLowers DEF LazyRefInv
  <2>2. libraries[m].refs <= Cardinality(Unfreed(m)) /\ libraries[m].refs \in Int
    BY <2>1, LibraryOrNone DEF LazyRefInv, NoExtraReference, TypeInv, TypeOK
  <2>3. CASE m = l
    <3>1. i \in Unfreed(m) /\ Unfreed(m)' = Unfreed(m) \ {i}
      BY <1>1, <2>3 DEF Unfreed, LazyRefInv, TypeInv, TypeOK
    <3>2. Cardinality(Unfreed(m)') = Cardinality(Unfreed(m)) - 1 /\ Cardinality(Unfreed(m)) \in Nat
      BY <3>1, UnfreedFinite, BoundsAssumption, FS_RemoveElement
    <3>3. QED
      BY <2>1, <2>2, <2>3, <3>2
  <2>4. CASE m # l
    <3>1. Unfreed(m)' = Unfreed(m)
      BY <1>1, <2>4 DEF Unfreed, LazyRefInv, TypeInv, TypeOK
    <3>2. QED
      BY <2>1, <2>2, <2>4, <3>1
  <2>5. QED
    BY <2>3, <2>4
<1>4. QED
  BY <1>2, <1>3 DEF LazyRefInv

LEMMA LazyRefStep == LazyRefInv /\ [NextLazy]_vars => LazyRefInv'
<1> SUFFICES ASSUME LazyRefInv, [NextLazy]_vars PROVE LazyRefInv'
  OBVIOUS
<1>1. TypeInv'
  BY TypeStep DEF LazyRefInv
<1>2. \A l \in LibIds : libraries[l] # NoLib => libraries[l].refs <= libraries[l].refs
  BY LibraryOrNone DEF LazyRefInv, TypeInv, TypeOK
<1>3. ASSUME NEW c \in Codes, CompileLibrary(c) PROVE LazyRefInv'
  BY <1>1, <1>3, LazyRefCompileLibrary
<1>4. ASSUME NEW s \in Scripts, CompileScript(s) PROVE LazyRefInv'
  <2>1. PICK new \in FuncIds :
            /\ owner[new] = "unused" /\ owner'[new] = "script"
            /\ new = nextFuncId + 1 /\ nextFuncId' = new
            /\ UNCHANGED libraries
            /\ \A i \in FuncIds : i # new => owner'[i] = owner[i] /\ func'[i] = func[i]
    BY <1>4, BoundsAssumption
    DEF CompileScript, LazyRefInv, IdsUsed, TypeInv, TypeOK, FuncIds
  <2>2. IdsUsed'
    BY <2>1, BoundsAssumption DEF LazyRefInv, IdsUsed, TypeInv, TypeOK, FuncIds
  <2>3. QED
    BY <1>1, <1>2, <2>1, <2>2, LazyRefFrame
<1>5. CASE Link \/ Reject \/ \E ln \in LibNames : DeleteLibrary(ln)
  <2>1. /\ UNCHANGED <<libraries, func, nextFuncId>>
        /\ \A i \in FuncIds : \/ owner'[i] = owner[i]
                              \/ /\ owner[i] \in {"pending", "linked"}
                                 /\ owner'[i] \in {"linked", "doomed"}
    BY <1>5 DEF Link, Replaced, Reject, DeleteLibrary, Owned, engineVars
  <2>2. IdsUsed'
    BY <2>1 DEF LazyRefInv, IdsUsed
  <2>3. QED
    BY <1>1, <1>2, <2>1, <2>2, LazyRefFrame
<1>6. ASSUME NEW i \in FuncIds, Free(i) PROVE LazyRefInv'
  BY <1>1, <1>6, LazyRefFree
<1>7. ASSUME NEW i \in FuncIds, FreeScript(i) PROVE LazyRefInv'
  <2>1. IdsUsed'
    BY <1>7 DEF FreeScript, LazyRefInv, IdsUsed, TypeInv, TypeOK, engineVars
  <2>2. QED
    BY <1>1, <1>2, <1>7, <2>1, LazyRefFrame DEF FreeScript, engineVars, LazyRefInv, TypeInv, TypeOK
<1>8. ASSUME NEW u \in Users, NEW i \in FuncIds, Fcall(u, i) \/ Eval(u, i) PROVE LazyRefInv'
  <2>1. UNCHANGED <<engineVars, hostVars>>
    BY <1>8 DEF Fcall, FcallHit, FcallLibraryMissing, FcallCompileError, FcallNotFound,
       FcallMiss, CallStarts, Eval
  <2>2. IdsUsed'
    BY <2>1 DEF LazyRefInv, IdsUsed, engineVars, hostVars
  <2>3. QED
    BY <1>1, <1>2, <2>1, <2>2, LazyRefFrame DEF engineVars, hostVars
<1>9. ASSUME NEW fate \in {"doomed", "lazy"}, ResetFunctions(fate) \/ ResetAll PROVE LazyRefInv'
  <2>1. /\ \A l \in LibIds : libraries'[l] = NoLib
        /\ \A i \in FuncIds : owner[i] = "unused" => owner'[i] = "unused"
        /\ nextFuncId' = nextFuncId
    BY <1>9 DEF ResetFunctions, ResetAll, ForgetLibraries
  <2>2. QED
    BY <1>1, <2>1 DEF LazyRefInv, IdsUsed, NoExtraReference
<1>10. CASE ResetScripts
  <2>1. IdsUsed'
    BY <1>10 DEF ResetScripts, LazyRefInv, IdsUsed, engineVars
  <2>2. QED
    BY <1>1, <1>2, <1>10, <2>1, LazyRefFrame DEF ResetScripts, engineVars
<1>11. ASSUME NEW i \in FuncIds, LazyFree(i) PROVE LazyRefInv'
  <2>1. PICK l \in LibIds :
            /\ owner[i] = "lazy"
            /\ owner' = [owner EXCEPT ![i] = "freed"]
            /\ UNCHANGED <<func, nextFuncId>>
            /\ Unref(l)
    BY <1>11 DEF LazyFree, FreeLibraryFunction, LazyRefInv, TypeInv, Kinds
  <2>2. IdsUsed'
    BY <2>1 DEF LazyRefInv, IdsUsed, TypeInv, TypeOK
  <2>3. \A m \in LibIds : libraries'[m] # NoLib =>
            libraries[m] # NoLib /\ libraries'[m].refs <= libraries[m].refs
    <3>1. \A m \in LibIds : libraries[m] # NoLib => libraries[m].refs \in Int
      BY LibraryOrNone DEF LazyRefInv, TypeInv, TypeOK
    <3>2. QED
      BY <1>2, <2>1, <3>1, UnrefLowers DEF LazyRefInv
  <2>4. QED
    BY <1>1, <2>1, <2>2, <2>3, LazyRefFrame DEF LazyRefInv, TypeInv, TypeOK
<1>12. CASE UNCHANGED vars
  <2>1. IdsUsed'
    BY <1>12 DEF LazyRefInv, IdsUsed, vars, engineVars, hostVars
  <2>2. QED
    BY <1>1, <1>2, <1>12, <2>1, LazyRefFrame DEF vars, engineVars, hostVars
<1>13. QED
  BY <1>3, <1>4, <1>5, <1>6, <1>7, <1>8, <1>9, <1>10, <1>11, <1>12 DEF NextLazy, Next

\* A library never has more references than functions the server has still
\* to free, however late the background thread frees those of a flush: when
\* the last of its own functions goes, its entry is not kept.
THEOREM NoReferenceLeaks == SpecLazy => []NoExtraReference
<1>1. Init => LazyRefInv
  BY TypeInit DEF Init, LazyRefInv, IdsUsed, NoExtraReference
<1>2. LazyRefInv => NoExtraReference
  BY DEF LazyRefInv
<1>3. QED
  BY <1>1, LazyRefStep, <1>2, PTL DEF SpecLazy

-----------------------------------------------------------------------------
(* A call runs the called function's own source, also while a background    *)
(* thread frees the functions of an earlier flush.  The theorems are about  *)
(* sources that register, when they run in a user's state, only names they  *)
(* registered when they were loaded (LoadOnlySources).  What the server     *)
(* holds (LinkInv) needs no such hypothesis.                                *)

\* A function the server may call is of a library whose entry, as long as it
\* is there, has the function's source.
OwnSource ==
    \A i \in FuncIds : owner[i] \in {"pending", "linked"} =>
        /\ func[i].lib <= nextLibId
        /\ libraries[func[i].lib] # NoLib => libraries[func[i].lib].code = func[i].code

\* The server holds libraries whole: with one function, all of its source.
Whole(o) ==
    \A i \in FuncIds : owner[i] = o =>
        \A p \in DOMAIN Declares[func[i].code] :
            \E j \in FuncIds : /\ owner[j] = o
                               /\ func[j].name = Declares[func[i].code][p]
                               /\ func[j].code = func[i].code

UniqueNames ==
    \A i, j \in FuncIds :
        owner[i] = "linked" /\ owner[j] = "linked" /\ func[i].name = func[j].name => i = j

\* Who has never called has nothing registered.
TablesOfStates == \A u \in Users, n \in Names : u \notin states => libFuncs[u][n] = None

\* Nothing is cached under an id that has not been given out.
CachedIds ==
    \A u \in Users, i \in FuncIds :
        i > nextFuncId => funcCache[u][i] = None /\ evalCache[u][i] = None

LinkInv ==
    /\ TypeInv
    /\ IdsUsed
    /\ OwnSource
    /\ Whole("pending")
    /\ Whole("linked")
    /\ UniqueNames

CallInv ==
    /\ TablesOfStates
    /\ RegistrationSound
    /\ CachedIds
    /\ CacheSound
    /\ AnswersOwnBody

-----------------------------------------------------------------------------
(* What the server holds.  This needs nothing of the sources.              *)

LEMMA LinkInit == Init => LinkInv
<1> SUFFICES ASSUME Init PROVE LinkInv
  OBVIOUS
<1>1. TypeInv
  BY TypeInit
<1>2. QED
  BY <1>1 DEF Init, LinkInv, IdsUsed, OwnSource, Whole, UniqueNames

\* A step that gives no function to the server and takes them from it by
\* whole libraries, or not at all.
LEMMA LinkFrame ==
    ASSUME LinkInv, TypeInv', IdsUsed', UNCHANGED <<func, nextLibId>>,
           \A l \in LibIds : libraries'[l] # NoLib =>
               libraries[l] # NoLib /\ libraries'[l].code = libraries[l].code,
           \A i \in FuncIds : owner'[i] \in {"pending", "linked"} => owner'[i] = owner[i],
           \A i, j \in FuncIds :
               /\ owner[i] = owner[j]
               /\ func[i].code = func[j].code
               /\ owner'[i] \in {"pending", "linked"}
               => owner'[j] = owner[j]
    PROVE  LinkInv'
<1>1. OwnSource'
  BY DEF LinkInv, OwnSource, TypeInv, Kinds
<1>2. ASSUME NEW o \in {"pending", "linked"}, NEW i \in FuncIds, owner'[i] = o,
             NEW p \in DOMAIN Declares[func[i].code]
      PROVE  \E j \in FuncIds : /\ owner'[j] = o
                                /\ func[j].name = Declares[func[i].code][p]
                                /\ func[j].code = func[i].code
  <2>1. owner[i] = o
    BY <1>2
  <2>2. PICK j \in FuncIds : /\ owner[j] = o
                             /\ func[j].name = Declares[func[i].code][p]
                             /\ func[j].code = func[i].code
    BY <1>2, <2>1 DEF LinkInv, Whole
  <2>3. owner'[j] = o
    BY <1>2, <2>1, <2>2
  <2>4. QED
    BY <2>2, <2>3
<1>3. Whole("pending")'
  BY <1>2 DEF Whole
<1>4. Whole("linked")'
  BY <1>2 DEF Whole
<1>5. UniqueNames'
  BY DEF LinkInv, UniqueNames
<1>6. QED
  BY <1>1, <1>3, <1>4, <1>5 DEF LinkInv

LEMMA LinkCompileLibrary ==
    ASSUME LinkInv, TypeInv', NEW c \in Codes, CompileLibrary(c)
    PROVE  LinkInv'
<1>1. PICK k \in Nat, l \in LibIds, new \in SUBSET FuncIds, base \in Nat :
          /\ k = Len(Declares[c])
          /\ base = nextFuncId
          /\ l = nextLibId + 1
          /\ new = base + 1 .. base + k
  BY SourcesAssumption, BoundsAssumption
  DEF CompileLibrary, LinkInv, TypeInv, TypeOK, LibIds, FuncIds
<1>2. /\ libraries' = [libraries EXCEPT ![l] = [code |-> c, refs |-> k]]
      /\ nextLibId' = l
      /\ nextFuncId' = base + k
      /\ \A i \in new : /\ owner'[i] = "pending"
                        /\ func'[i] = [name |-> Declares[c][i - base], lib |-> l, code |-> c]
      /\ \A i \in FuncIds : i \notin new => owner'[i] = owner[i] /\ func'[i] = func[i]
  BY <1>1 DEF CompileLibrary
<1>3. \A i \in FuncIds : owner'[i] = "pending" <=> i \in new
  BY <1>1, <1>2 DEF CompileLibrary, Idle, Owned
<1>4. \A i \in FuncIds : owner'[i] = "linked" <=> owner[i] = "linked"
  <2>1. \A i \in new : owner[i] = "unused"
    BY <1>1, BoundsAssumption DEF LinkInv, IdsUsed, FuncIds
  <2>2. QED
    BY <1>2, <2>1
<1>5. \A i \in FuncIds : owner[i] = "linked" => func'[i] = func[i]
  BY <1>1, <1>2, <1>4
<1>6. IdsUsed'
  BY <1>1, <1>2 DEF LinkInv, IdsUsed, FuncIds
<1>7. OwnSource'
  <2>1. ASSUME NEW i \in new
        PROVE  func'[i].lib <= nextLibId' /\ libraries'[func'[i].lib].code = func'[i].code
    <3>1. func'[i] = [name |-> Declares[c][i - base], lib |-> l, code |-> c]
      BY <1>2
    <3>2. libraries'[l].code = c
      BY <1>2 DEF LinkInv, TypeInv, TypeOK
    <3>3. l \in Nat
      BY BoundsAssumption DEF LibIds
    <3>4. QED
      BY <1>2, <3>1, <3>2, <3>3
  <2>2. ASSUME NEW i \in FuncIds, i \notin new, owner'[i] \in {"pending", "linked"}
        PROVE  /\ func'[i].lib <= nextLibId'
               /\ libraries'[func'[i].lib] # NoLib =>
                    libraries'[func'[i].lib].code = func'[i].code
    <3>1. owner[i] = "linked" /\ func'[i] = func[i] /\ func[i].lib \in LibIds
      BY <1>3, <1>4, <1>5, <2>2 DEF LinkInv, TypeInv, Kinds
    <3>2. func[i].lib <= nextLibId /\ nextLibId \in Nat /\ func[i].lib \in Nat
      BY <3>1, BoundsAssumption DEF LinkInv, OwnSource, TypeInv, TypeOK, LibIds
    <3>3. libraries'[func[i].lib] = libraries[func[i].lib]
      BY <1>1, <1>2, <3>1, <3>2 DEF LinkInv, TypeInv, TypeOK
    <3>4. QED
      BY <1>1, <1>2, <3>1, <3>2, <3>3 DEF LinkInv, OwnSource
  <2>3. QED
    BY <1>1, <2>1, <2>2 DEF OwnSource
<1>8. Whole("pending")'
  <2>1. ASSUME NEW p \in DOMAIN Declares[c]
        PROVE  \E j \in FuncIds : /\ owner'[j] = "pending"
                                  /\ func'[j].name = Declares[c][p]
                                  /\ func'[j].code = c
    <3>1. p \in 1..k
      BY <1>1, SourcesAssumption
    <3>2. base + p \in new /\ (base + p) - base = p
      BY <1>1, <3>1
    <3>3. func'[base + p] = [name |-> Declares[c][p], lib |-> l, code |-> c]
      BY <1>2, <3>2
    <3>4. owner'[base + p] = "pending" /\ base + p \in FuncIds
      BY <1>1, <1>2, <3>2
    <3>5. QED
      BY <3>3, <3>4
  <2>2. ASSUME NEW i \in new PROVE func'[i].code = c
    <3>1. func'[i] = [name |-> Declares[c][i - base], lib |-> l, code |-> c]
      BY <1>2
    <3>2. QED
      BY <3>1
  <2>3. QED
    BY <1>3, <2>1, <2>2 DEF Whole
<1>9. Whole("linked")'
  BY <1>4, <1>5 DEF LinkInv, Whole
<1>10. UniqueNames'
  BY <1>4, <1>5 DEF LinkInv, UniqueNames
<1>11. QED
  BY <1>6, <1>7, <1>8, <1>9, <1>10 DEF LinkInv

LEMMA LinkLink ==
    ASSUME LinkInv, TypeInv', Link
    PROVE  LinkInv'
<1>1. /\ UNCHANGED <<func, libraries, nextLibId, nextFuncId>>
      /\ \A i \in FuncIds : owner'[i] = IF owner[i] = "pending" THEN "linked"
                                        ELSE IF Replaced(i) THEN "doomed" ELSE owner[i]
  BY DEF Link, engineVars
<1>2. \A i \in FuncIds : owner'[i] = "linked" <=>
          owner[i] = "pending" \/ (owner[i] = "linked" /\ ~Replaced(i))
  BY <1>1 DEF Replaced
<1>3. \A i \in FuncIds : owner'[i] # "pending"
  BY <1>1
<1>4. IdsUsed' /\ OwnSource'
  BY <1>1, <1>2, <1>3 DEF LinkInv, IdsUsed, OwnSource, Replaced
<1>5. Whole("pending")'
  BY <1>3 DEF Whole
<1>6. Whole("linked")'
  <2> SUFFICES ASSUME NEW i \in FuncIds, owner'[i] = "linked",
                      NEW p \in DOMAIN Declares[func[i].code]
               PROVE  \E j \in FuncIds : /\ owner'[j] = "linked"
                                         /\ func[j].name = Declares[func[i].code][p]
                                         /\ func[j].code = func[i].code
    BY <1>1 DEF Whole
  <2>1. CASE owner[i] = "pending"
    BY <1>2, <2>1 DEF LinkInv, Whole
  <2>2. CASE owner[i] = "linked" /\ ~Replaced(i)
    <3>1. PICK j \in FuncIds : /\ owner[j] = "linked"
                               /\ func[j].name = Declares[func[i].code][p]
                               /\ func[j].code = func[i].code
      BY <2>2 DEF LinkInv, Whole
    <3>2. ~Replaced(j)
      BY <2>2, <3>1 DEF Replaced, SameLibrary
    <3>3. QED
      BY <1>2, <3>1, <3>2
  <2>3. QED
    BY <1>2, <2>1, <2>2
<1>7. UniqueNames'
  <2> SUFFICES ASSUME NEW i \in FuncIds, NEW j \in FuncIds, i # j,
                      owner'[i] = "linked", owner'[j] = "linked",
                      func[i].name = func[j].name
               PROVE  FALSE
    BY <1>1 DEF UniqueNames
  <2>1. ~Clash
    BY DEF Link
  <2>2. CASE owner[i] = "pending" \/ owner[j] = "pending"
    BY <1>2, <2>1, <2>2 DEF Clash, Owned, Replaced, SameLibrary
  <2>3. CASE owner[i] = "linked" /\ owner[j] = "linked"
    BY <2>3 DEF LinkInv, UniqueNames
  <2>4. QED
    BY <1>2, <2>2, <2>3
<1>8. QED
  BY <1>4, <1>5, <1>6, <1>7 DEF LinkInv

LEMMA LinkStep == LinkInv /\ [NextLazy]_vars => LinkInv'
<1> SUFFICES ASSUME LinkInv, [NextLazy]_vars PROVE LinkInv'
  OBVIOUS
<1>1. TypeInv'
  BY TypeStep DEF LinkInv
<1>2. ASSUME NEW c \in Codes, CompileLibrary(c) PROVE LinkInv'
  BY <1>1, <1>2, LinkCompileLibrary
<1>3. ASSUME NEW s \in Scripts, CompileScript(s) PROVE LinkInv'
  <2>1. PICK new \in FuncIds :
            /\ owner[new] = "unused" /\ owner'[new] = "script"
            /\ new = nextFuncId + 1 /\ nextFuncId' = new
            /\ UNCHANGED <<libraries, nextLibId>>
            /\ \A i \in FuncIds : i # new => owner'[i] = owner[i] /\ func'[i] = func[i]
    BY <1>3, BoundsAssumption
    DEF CompileScript, LinkInv, IdsUsed, TypeInv, TypeOK, FuncIds
  <2>2. IdsUsed'
    BY <2>1, BoundsAssumption DEF LinkInv, IdsUsed, TypeInv, TypeOK, FuncIds
  <2>3. Whole("pending")'
    BY <2>1 DEF LinkInv, Whole
  <2>4. Whole("linked")'
    BY <2>1 DEF LinkInv, Whole
  <2>5. QED
    BY <1>1, <2>1, <2>2, <2>3, <2>4 DEF LinkInv, OwnSource, UniqueNames
<1>4. CASE Link
  BY <1>1, <1>4, LinkLink
<1>5. CASE Reject
  <2>1. IdsUsed'
    BY <1>5 DEF Reject, LinkInv, IdsUsed, engineVars
  <2>2. QED
    BY <1>1, <1>5, <2>1, LinkFrame DEF Reject, engineVars
<1>6. ASSUME NEW ln \in LibNames, DeleteLibrary(ln) PROVE LinkInv'
  <2>1. IdsUsed'
    BY <1>6 DEF DeleteLibrary, Owned, LinkInv, IdsUsed, engineVars
  <2>2. QED
    BY <1>1, <1>6, <2>1, LinkFrame DEF DeleteLibrary, Owned, engineVars
<1>7. ASSUME NEW i \in FuncIds, FreeLibraryFunction(i), owner[i] \in {"doomed", "lazy"}
      PROVE  LinkInv'
  <2>1. func[i].lib \in LibIds
    BY <1>7 DEF LinkInv, TypeInv, Kinds
  <2>2. \A l \in LibIds : libraries'[l] # NoLib =>
            libraries[l] # NoLib /\ libraries'[l].code = libraries[l].code
    BY <1>7, <2>1 DEF FreeLibraryFunction, Unref, LinkInv, TypeInv, TypeOK
  <2>3. IdsUsed'
    BY <1>7 DEF FreeLibraryFunction, LinkInv, IdsUsed, TypeInv, TypeOK
  <2>4. QED
    BY <1>1, <1>7, <2>2, <2>3, LinkFrame DEF FreeLibraryFunction, LinkInv, TypeInv, TypeOK
<1>8. ASSUME NEW i \in FuncIds, FreeScript(i) PROVE LinkInv'
  <2>1. IdsUsed'
    BY <1>8 DEF FreeScript, LinkInv, IdsUsed, TypeInv, TypeOK, engineVars
  <2>2. QED
    BY <1>1, <1>8, <2>1, LinkFrame DEF FreeScript, engineVars, LinkInv, TypeInv, TypeOK
<1>9. ASSUME NEW u \in Users, NEW i \in FuncIds, Fcall(u, i) \/ Eval(u, i) PROVE LinkInv'
  <2>1. UNCHANGED <<engineVars, hostVars>>
    BY <1>9 DEF Fcall, FcallHit, FcallLibraryMissing, FcallCompileError, FcallNotFound,
       FcallMiss, CallStarts, Eval
  <2>2. IdsUsed'
    BY <2>1 DEF LinkInv, IdsUsed, engineVars, hostVars
  <2>3. QED
    BY <1>1, <2>1, <2>2, LinkFrame DEF engineVars, hostVars
<1>10. ASSUME NEW fate \in {"doomed", "lazy"}, ResetFunctions(fate) \/ ResetAll
       PROVE  LinkInv'
  <2>1. /\ \A i \in FuncIds : owner'[i] \notin {"pending", "linked"}
        /\ \A i \in FuncIds : owner[i] = "unused" => owner'[i] = "unused"
        /\ nextFuncId' = nextFuncId
    BY <1>10 DEF ResetFunctions, ResetAll, Idle, Owned
  <2>2. QED
    BY <1>1, <2>1 DEF LinkInv, IdsUsed, OwnSource, Whole, UniqueNames
<1>11. CASE ResetScripts
  <2>1. IdsUsed'
    BY <1>11 DEF ResetScripts, LinkInv, IdsUsed, engineVars
  <2>2. QED
    BY <1>1, <1>11, <2>1, LinkFrame DEF ResetScripts, engineVars
<1>12. CASE UNCHANGED vars
  <2>1. IdsUsed'
    BY <1>12 DEF LinkInv, IdsUsed, vars, engineVars, hostVars
  <2>2. QED
    BY <1>1, <1>12, <2>1, LinkFrame DEF vars, engineVars, hostVars
<1>13. QED
  BY <1>2, <1>3, <1>4, <1>5, <1>6, <1>7, <1>8, <1>9, <1>10, <1>11, <1>12
  DEF NextLazy, Next, Free, LazyFree

\* The server's side, held also when functions are freed in the background.
THEOREM SpecLinkInv == SpecLazy => []LinkInv
<1>1. QED
  BY LinkInit, LinkStep, PTL DEF SpecLazy

-----------------------------------------------------------------------------
(* What the users' states hold.                                            *)

LEMMA CallInit == Init => CallInv
<1> SUFFICES ASSUME Init PROVE CallInv
  OBVIOUS
<1>1. TablesOfStates /\ RegistrationSound /\ CachedIds /\ CacheSound
  BY DEF Init, TablesOfStates, RegistrationSound, CachedIds, CacheSound, EmptyNames, EmptyCache
<1>2. AnswersOwnBody
  BY NoneAssumption DEF Init, AnswersOwnBody, NoReply
<1>3. QED
  BY <1>1, <1>2 DEF CallInv

\* Steps that leave the tables alone, and every function they may name.
LEMMA RegistrationFrame ==
    ASSUME RegistrationSound, UNCHANGED libFuncs,
           \A i \in FuncIds : owner[i] \in {"linked", "doomed"} =>
               owner'[i] \in {"linked", "doomed"} /\ func'[i] = func[i]
    PROVE  RegistrationSound'
BY DEF RegistrationSound, Owned

\* Steps that leave the caches alone, and every function with an id.
LEMMA CacheFrame ==
    ASSUME TypeOK, TypeOK', CachedIds, CacheSound, UNCHANGED <<funcCache, evalCache>>,
           nextFuncId <= nextFuncId',
           \A i \in FuncIds : i <= nextFuncId => func'[i] = func[i]
    PROVE  CachedIds' /\ CacheSound'
<1>1. /\ nextFuncId \in Nat /\ nextFuncId' \in Nat
      /\ \A i \in FuncIds : i \in Nat
  BY BoundsAssumption DEF TypeOK, FuncIds
<1>2. CachedIds'
  BY <1>1 DEF CachedIds
<1>3. ASSUME NEW u \in Users, NEW i \in FuncIds
      PROVE  /\ funcCache'[u][i] # None => funcCache'[u][i] = func'[i].code
             /\ evalCache'[u][i] # None => evalCache'[u][i] = func'[i].code
  <2>1. CASE i <= nextFuncId
    BY <2>1 DEF CacheSound
  <2>2. CASE i > nextFuncId
    BY <2>2 DEF CachedIds
  <2>3. QED
    BY <1>1, <2>1, <2>2
<1>4. QED
  BY <1>2, <1>3 DEF CacheSound

\* What a call finds registered, once the library of the called function has
\* run if it had to, is a linked function of that name.
LEMMA RegisteredSound ==
    ASSUME LoadOnlySources, LinkInv, RegistrationSound, Idle,
           NEW u \in Users, NEW i \in FuncIds, owner[i] = "linked",
           libraries[func[i].lib] # NoLib, NEW n \in Names,
           Registered(u, libraries[func[i].lib].code)[n] # None
    PROVE  \E j \in FuncIds : /\ owner[j] = "linked"
                              /\ func[j].name = n
                              /\ func[j].code = Registered(u, libraries[func[i].lib].code)[n]
<1>1. libraries[func[i].lib].code = func[i].code /\ func[i].code \in Codes
  BY DEF LinkInv, OwnSource, TypeInv, Kinds
<1>2. CASE n \in Defines[func[i].code]
  <2>1. PICK p \in DOMAIN Declares[func[i].code] : n = Declares[func[i].code][p]
    BY <1>1, <1>2 DEF LoadOnlySources, DeclaredNames
  <2>2. QED
    BY <1>1, <1>2, <2>1, SMTT(30) DEF LinkInv, Whole, Registered
<1>3. CASE n \notin Defines[func[i].code]
  BY <1>1, <1>3 DEF Registered, RegistrationSound, Idle, Owned
<1>4. QED
  BY <1>2, <1>3

LEMMA CallFcall ==
    ASSUME LoadOnlySources, LinkInv, CallInv, TypeInv',
           NEW u \in Users, NEW i \in FuncIds, Fcall(u, i)
    PROVE  CallInv'
<1> DEFINE lib == libraries[func[i].lib]
           run == Registered(u, lib.code)
<1>1. /\ Idle
      /\ owner[i] = "linked"
      /\ states' = states \cup {u}
      /\ UNCHANGED <<func, owner, evalCache, nextFuncId>>
  BY DEF Fcall, FcallHit, FcallLibraryMissing, FcallCompileError, FcallNotFound, FcallMiss,
     CallStarts, hostVars, engineVars
<1>2. func[i].name \in Names /\ func[i].code \in Codes
  BY <1>1 DEF LinkInv, TypeInv, Kinds
<1>3. ASSUME NEW table, NEW body \in Codes, NEW n \in Names
      PROVE  AfterBody(table, body)[n] = table[n]
  BY DEF AfterBody, LoadOnlySources
<1>4. \A n \in Names : LookupTable(u, i)[n] = libFuncs[u][n] \/ LookupTable(u, i)[n] = run[n]
  BY DEF LookupTable
<1>5. ASSUME FcallMiss(u, i)
      PROVE  /\ LookupTable(u, i)[func[i].name] = func[i].code
             /\ lib # NoLib
  <2>1. lib # NoLib /\ LookupTable(u, i)[func[i].name] # None
    BY <1>5 DEF FcallMiss, LibraryReady
  <2>2. PICK j \in FuncIds :
            /\ owner[j] = "linked" /\ func[j].name = func[i].name
            /\ func[j].code = LookupTable(u, i)[func[i].name]
    <3>1. CASE LookupTable(u, i)[func[i].name] = libFuncs[u][func[i].name]
      BY <1>1, <1>2, <2>1, <3>1 DEF CallInv, RegistrationSound, Idle, Owned
    <3>2. CASE LookupTable(u, i)[func[i].name] = run[func[i].name]
      BY <1>1, <1>2, <2>1, <3>2, RegisteredSound, SMTT(30) DEF CallInv
    <3>3. QED
      BY <1>2, <1>4, <3>1, <3>2
  <2>3. QED
    BY <1>1, <2>1, <2>2 DEF LinkInv, UniqueNames
<1>6. ASSUME FcallHit(u, i)
      PROVE  funcCache[u][i] = func[i].code
  BY <1>6 DEF FcallHit, CallInv, CacheSound
<1>7. \A v \in Users : v # u => libFuncs'[v] = libFuncs[v]
  BY DEF Fcall, FcallHit, FcallLibraryMissing, FcallCompileError, FcallNotFound, FcallMiss,
     LinkInv, TypeInv, TypeOK
<1>8. ASSUME NEW n \in Names
      PROVE  \/ libFuncs'[u][n] = libFuncs[u][n]
             \/ lib # NoLib /\ libFuncs'[u][n] = run[n]
  <2>1. CASE FcallHit(u, i)
    <3>1. libFuncs'[u] = AfterBody(libFuncs[u], func[i].code)
      BY <1>6, <2>1 DEF FcallHit, LinkInv, TypeInv, TypeOK
    <3>2. QED
      BY <1>2, <1>3, <3>1
  <2>2. CASE FcallLibraryMissing(u, i)
    BY <2>2 DEF FcallLibraryMissing
  <2>3. CASE FcallCompileError(u, i)
    BY <2>3 DEF FcallCompileError, LinkInv, TypeInv, TypeOK
  <2>4. CASE FcallNotFound(u, i)
    BY <1>4, <2>4 DEF FcallNotFound, LibraryReady, LinkInv, TypeInv, TypeOK
  <2>5. CASE FcallMiss(u, i)
    <3>1. libFuncs'[u] = AfterBody(LookupTable(u, i), func[i].code)
      BY <1>5, <2>5 DEF FcallMiss, LinkInv, TypeInv, TypeOK
    <3>2. libFuncs'[u][n] = LookupTable(u, i)[n]
      BY <1>2, <1>3, <3>1
    <3>3. QED
      BY <1>4, <1>5, <2>5, <3>2
  <2>6. QED
    BY <2>1, <2>2, <2>3, <2>4, <2>5 DEF Fcall
<1>9. TablesOfStates'
  BY <1>1, <1>7 DEF CallInv, TablesOfStates
<1>10. RegistrationSound'
  <2>1. ASSUME NEW v \in Users, NEW n \in Names, libFuncs'[v][n] # None
        PROVE  \E j \in FuncIds : /\ owner[j] \in {"linked", "doomed"}
                                  /\ func[j].name = n
                                  /\ func[j].code = libFuncs'[v][n]
    <3>1. CASE libFuncs'[v][n] = libFuncs[v][n]
      BY <2>1, <3>1 DEF CallInv, RegistrationSound, Owned
    <3>2. CASE v = u /\ lib # NoLib /\ libFuncs'[u][n] = run[n]
      BY <1>1, <2>1, <3>2, RegisteredSound DEF CallInv
    <3>3. QED
      BY <1>7, <1>8, <3>1, <3>2
  <2>2. QED
    BY <1>1, <2>1 DEF RegistrationSound, Owned
<1>11. \A v \in Users, j \in FuncIds :
           \/ funcCache'[v][j] = funcCache[v][j]
           \/ j = i /\ funcCache'[v][j] = func[i].code
  BY <1>5 DEF Fcall, FcallHit, FcallLibraryMissing, FcallCompileError, FcallNotFound, FcallMiss,
     LinkInv, TypeInv, TypeOK
<1>12. CachedIds' /\ CacheSound'
  <2>1. ~(i > nextFuncId)
    BY <1>1 DEF LinkInv, IdsUsed
  <2>2. CachedIds'
    BY <1>1, <1>11, <2>1 DEF CallInv, CachedIds
  <2>3. CacheSound'
    BY <1>1, <1>11 DEF CallInv, CacheSound
  <2>4. QED
    BY <2>2, <2>3
<1>13. AnswersOwnBody'
  <2>1. reply'.id = i /\ (reply'.out = func[i].code \/ reply'.out \in Failures)
    BY <1>5, <1>6 DEF Fcall, FcallHit, FcallLibraryMissing, FcallCompileError, FcallNotFound,
       FcallMiss, Failures
  <2>2. QED
    BY <1>1, <2>1, NoneAssumption DEF AnswersOwnBody
<1>14. QED
  BY <1>9, <1>10, <1>12, <1>13 DEF CallInv

\* Steps that run nothing and leave the users' states alone.
LEMMA CallFrame ==
    ASSUME TypeInv, TypeInv', CallInv, UNCHANGED userVars,
           \A i \in FuncIds : owner[i] \in {"linked", "doomed"} =>
               owner'[i] \in {"linked", "doomed"} /\ func'[i] = func[i],
           nextFuncId <= nextFuncId',
           \A i \in FuncIds : i <= nextFuncId => func'[i] = func[i],
           reply' = NoReply \/ UNCHANGED <<func, reply>>
    PROVE  CallInv'
<1>1. TablesOfStates'
  BY DEF CallInv, TablesOfStates, userVars
<1>2. RegistrationSound'
  BY RegistrationFrame DEF CallInv, userVars
<1>3. CachedIds' /\ CacheSound'
  BY CacheFrame DEF CallInv, userVars, TypeInv
<1>4. AnswersOwnBody'
  BY NoneAssumption DEF CallInv, AnswersOwnBody, NoReply
<1>5. QED
  BY <1>1, <1>2, <1>3, <1>4 DEF CallInv

LEMMA CallFree ==
    ASSUME LinkInv, TypeInv', CallInv, NEW i \in FuncIds, owner[i] \in {"doomed", "lazy"},
           FreeLibraryFunction(i), reply' = NoReply \/ UNCHANGED reply
    PROVE  CallInv'
<1>1. /\ func[i].name \in Names
      /\ UNCHANGED <<nextFuncId, states, funcCache, evalCache, func>>
      /\ \A j \in FuncIds : j # i => owner'[j] = owner[j]
      /\ owner[i] # "linked"
  BY DEF FreeLibraryFunction, LinkInv, TypeInv, TypeOK, Kinds
<1>2. \A u \in Users, n \in Names :
          /\ n = func[i].name => libFuncs'[u][n] = None
          /\ n # func[i].name => libFuncs'[u][n] = libFuncs[u][n]
  BY <1>1 DEF FreeLibraryFunction, PurgeName, CallInv, TablesOfStates, LinkInv, TypeInv, TypeOK
<1>3. TablesOfStates'
  BY <1>1, <1>2 DEF CallInv, TablesOfStates
<1>4. RegistrationSound'
  BY <1>1, <1>2 DEF CallInv, RegistrationSound, Owned
<1>5. CachedIds' /\ CacheSound'
  BY <1>1 DEF CallInv, CachedIds, CacheSound
<1>6. AnswersOwnBody'
  BY <1>1, NoneAssumption DEF CallInv, AnswersOwnBody, NoReply
<1>7. QED
  BY <1>3, <1>4, <1>5, <1>6 DEF CallInv

LEMMA CallEval ==
    ASSUME LinkInv, TypeInv', CallInv, NEW u \in Users, NEW i \in FuncIds, Eval(u, i)
    PROVE  CallInv'
<1>1. /\ owner[i] = "script" /\ states' = states \cup {u}
      /\ UNCHANGED <<func, owner, nextFuncId, libFuncs, funcCache>>
  BY DEF Eval, engineVars, hostVars
<1>2. ~(i > nextFuncId)
  BY <1>1 DEF LinkInv, IdsUsed
<1>3. reply' = [id |-> i, out |-> func[i].code]
  BY DEF Eval, CallInv, CacheSound
<1>4. \A v \in Users, j \in FuncIds :
          \/ evalCache'[v][j] = evalCache[v][j]
          \/ j = i /\ evalCache'[v][j] = func[i].code
  BY DEF Eval, CallInv, CacheSound, LinkInv, TypeInv, TypeOK
<1>5. TablesOfStates'
  BY <1>1 DEF CallInv, TablesOfStates
<1>6. RegistrationSound'
  BY <1>1, RegistrationFrame DEF CallInv
<1>7. CachedIds' /\ CacheSound'
  BY <1>1, <1>2, <1>4 DEF CallInv, CachedIds, CacheSound
<1>8. AnswersOwnBody'
  BY <1>1, <1>3 DEF AnswersOwnBody
<1>9. QED
  BY <1>5, <1>6, <1>7, <1>8 DEF CallInv

\* reset_env: the caches that stay name functions that stay as they were.
LEMMA CallReset ==
    ASSUME LinkInv, TypeInv', CallInv, NEW fate \in {"doomed", "lazy"},
           ResetFunctions(fate) \/ ResetScripts \/ ResetAll
    PROVE  CallInv'
<1>1. /\ UNCHANGED <<func, nextFuncId>> /\ reply' = NoReply
      /\ \A u \in Users :
            \/ /\ libFuncs'[u] = EmptyNames
               /\ funcCache'[u] = EmptyCache
            \/ /\ UNCHANGED states
               /\ libFuncs'[u] = libFuncs[u]
               /\ funcCache'[u] = funcCache[u]
               /\ \A i \in FuncIds : owner[i] \in {"linked", "doomed"} => owner'[i] = owner[i]
      /\ \A u \in Users : evalCache'[u] = EmptyCache \/ evalCache'[u] = evalCache[u]
  <2>1. CASE ResetFunctions(fate)
    BY <2>1 DEF ResetFunctions, FreshFunctionStates
  <2>2. CASE ResetScripts
    BY <2>2 DEF ResetScripts, engineVars
  <2>3. CASE ResetAll
    BY <2>3 DEF ResetAll, FreshFunctionStates
  <2>4. QED
    BY <2>1, <2>2, <2>3
<1>2. TablesOfStates'
  BY <1>1 DEF CallInv, TablesOfStates, EmptyNames
<1>3. RegistrationSound'
  BY <1>1 DEF CallInv, RegistrationSound, Owned, EmptyNames
<1>4. CachedIds' /\ CacheSound'
  BY <1>1 DEF CallInv, CachedIds, CacheSound, EmptyCache
<1>5. AnswersOwnBody'
  BY <1>1, NoneAssumption DEF AnswersOwnBody, NoReply
<1>6. QED
  BY <1>2, <1>3, <1>4, <1>5 DEF CallInv

LEMMA CallStep ==
    ASSUME LoadOnlySources, LinkInv, CallInv, [NextLazy]_vars
    PROVE  CallInv'
<1>1. TypeInv /\ TypeInv' /\ nextFuncId \in Nat /\ \A i \in FuncIds : i \in Nat
  BY TypeStep DEF LinkInv, TypeInv, TypeOK, FuncIds
<1>2. ASSUME NEW c \in Codes, CompileLibrary(c) PROVE CallInv'
  <2>1. PICK k \in Nat : k = Len(Declares[c])
    BY SourcesAssumption
  <2>2. /\ \A i \in FuncIds : ~(i \in nextFuncId + 1 .. nextFuncId + k) =>
                                 owner'[i] = owner[i] /\ func'[i] = func[i]
        /\ nextFuncId' = nextFuncId + k
        /\ UNCHANGED userVars /\ reply' = NoReply
    BY <1>2, <2>1 DEF CompileLibrary
  <2>3. \A i \in FuncIds : i \in nextFuncId + 1 .. nextFuncId + k =>
                              owner[i] = "unused" /\ ~(i <= nextFuncId)
    BY <1>1, <2>1 DEF LinkInv, IdsUsed
  <2>4. QED
    BY <1>1, <2>1, <2>2, <2>3, CallFrame
<1>3. ASSUME NEW s \in Scripts, CompileScript(s) PROVE CallInv'
  <2>1. /\ \A i \in FuncIds : i # nextFuncId + 1 => owner'[i] = owner[i] /\ func'[i] = func[i]
        /\ nextFuncId' = nextFuncId + 1
        /\ UNCHANGED userVars /\ reply' = NoReply
    BY <1>1, <1>3 DEF CompileScript, TypeInv, TypeOK
  <2>2. \A i \in FuncIds : i = nextFuncId + 1 => owner[i] = "unused" /\ ~(i <= nextFuncId)
    BY <1>1 DEF LinkInv, IdsUsed
  <2>3. QED
    BY <1>1, <2>1, <2>2, CallFrame
<1>4. CASE Link \/ Reject
  <2>1. /\ UNCHANGED <<func, nextFuncId, userVars>> /\ reply' = NoReply
        /\ \A i \in FuncIds : owner[i] \in {"linked", "doomed"} => owner'[i] \in {"linked", "doomed"}
    BY <1>4 DEF Link, Reject, engineVars
  <2>2. QED
    BY <1>1, <2>1, CallFrame
<1>5. ASSUME NEW ln \in LibNames, DeleteLibrary(ln) PROVE CallInv'
  <2>1. /\ UNCHANGED <<func, nextFuncId, userVars>> /\ reply' = NoReply
        /\ \A i \in FuncIds : owner[i] \in {"linked", "doomed"} => owner'[i] \in {"linked", "doomed"}
    BY <1>5 DEF DeleteLibrary, engineVars, Owned
  <2>2. QED
    BY <1>1, <2>1, CallFrame
<1>6. ASSUME NEW i \in FuncIds, Free(i) \/ LazyFree(i) PROVE CallInv'
  BY <1>1, <1>6, CallFree DEF Free, LazyFree
<1>7. ASSUME NEW i \in FuncIds, FreeScript(i) PROVE CallInv'
  <2>1. /\ UNCHANGED <<func, nextFuncId, userVars>> /\ reply' = NoReply
        /\ \A j \in FuncIds : owner[j] \in {"linked", "doomed"} => owner'[j] \in {"linked", "doomed"}
    BY <1>1, <1>7 DEF FreeScript, engineVars, TypeInv, TypeOK
  <2>2. QED
    BY <1>1, <2>1, CallFrame
<1>8. ASSUME NEW u \in Users, NEW i \in FuncIds, Fcall(u, i) \/ Eval(u, i) PROVE CallInv'
  BY <1>1, <1>8, CallFcall, CallEval
<1>9. ASSUME NEW fate \in {"doomed", "lazy"}, ResetFunctions(fate) \/ ResetScripts \/ ResetAll
      PROVE  CallInv'
  BY <1>1, <1>9, CallReset
<1>10. CASE UNCHANGED vars
  BY <1>1, <1>10, CallFrame DEF vars, engineVars, hostVars
<1>11. QED
  BY <1>2, <1>3, <1>4, <1>5, <1>6, <1>7, <1>8, <1>9, <1>10 DEF NextLazy, Next

-----------------------------------------------------------------------------
\* The users' side, for sources that register only what they loaded.
THEOREM SpecCallInv ==
    ASSUME LoadOnlySources
    PROVE  SpecLazy => [](LinkInv /\ CallInv)
<1>1. LinkInv /\ CallInv /\ [NextLazy]_vars => LinkInv' /\ CallInv'
  BY LinkStep, CallStep
<1>2. Init => LinkInv /\ CallInv
  BY LinkInit, CallInit
<1>3. QED
  BY <1>1, <1>2, PTL DEF SpecLazy

\* What is registered in a user's state is the function of that name which is
\* linked, or which the current command is freeing: free_function's purge
\* reaches every state that may hold the name.
THEOREM RegistrationCorrect ==
    ASSUME LoadOnlySources
    PROVE  SpecLazy => []RegistrationSound
<1>1. CallInv => RegistrationSound
  BY DEF CallInv
<1>2. QED
  BY SpecCallInv, <1>1, PTL

\* A cached closure is that of the function object whose id it is cached
\* under: call_function never hits on a closure of an earlier function.
THEOREM CacheCorrect ==
    ASSUME LoadOnlySources
    PROVE  SpecLazy => []CacheSound
<1>1. CallInv => CacheSound
  BY DEF CallInv
<1>2. QED
  BY SpecCallInv, <1>1, PTL

\* A call that runs something runs the source of the function object that was
\* called, whatever was loaded, replaced, flushed and freed before.
THEOREM CallCorrect ==
    ASSUME LoadOnlySources
    PROVE  SpecLazy => []AnswersOwnBody
<1>1. CallInv => AnswersOwnBody
  BY DEF CallInv
<1>2. QED
  BY SpecCallInv, <1>1, PTL
=============================================================================
