------------------------- MODULE ScriptServiceProofs -------------------------
(***************************************************************************)
(* The engine implements the service (ScriptService), as far as safety     *)
(* goes, and a function once registered in a user's state stays registered *)
(* unless a refused load of its name was freed.                            *)
(*                                                                         *)
(* The theorems are about sources that register, when they run in a user's *)
(* state, only names they registered when they were loaded                 *)
(* (LoadOnlySources) and, if their run ends without error, all of those.   *)
(***************************************************************************)
EXTENDS ScriptEngineProofs

\* A source whose run in a user's state ends without error registers there
\* every name it registered when it was loaded.
LoadAllSources == \A c \in Runs : DeclaredNames(c) \subseteq Defines[c]

\* While a load waits for the server's verdict its functions are the latest
\* ones made: one for each name the source registered, in order.
LoadedWhole ==
    Owned("pending") # {} =>
        \E c \in Codes :
            LET base == nextFuncId - Len(Declares[c]) IN
            /\ Owned("pending") = base + 1 .. nextFuncId
            /\ \A i \in Owned("pending") :
                  func[i].code = c /\ func[i].name = Declares[c][i - base]

\* A function the server may call has a name that its source registers.
OwnNames ==
    \A i \in FuncIds :
        owner[i] \in {"pending", "linked"} => func[i].name \in DeclaredNames(func[i].code)

\* No state has compiled a library id that has not been given out, nor one
\* whose load is not finished.
CompiledIds == \A u \in Users : \A l \in compiled[u] : l <= nextLibId
PendingUncompiled ==
    \A u \in Users, i \in FuncIds : owner[i] = "pending" => func[i].lib \notin compiled[u]

\* A function to be freed that shares its name with a linked one was made
\* after it, or comes before any state has compiled the linked one's library.
DoomedLater ==
    \A i, j \in FuncIds :
        owner[i] = "doomed" /\ owner[j] = "linked" /\ func[i].name = func[j].name =>
            i > j \/ \A u \in Users : func[j].lib \notin compiled[u]

\* A script has no name, and its text is kept once.
Scripted ==
    /\ \A i \in Owned("script") : func[i].name = None
    /\ \A i, j \in Owned("script") : func[i].code = func[j].code => i = j

LoadInv ==
    /\ LoadedWhole
    /\ OwnNames
    /\ CompiledIds
    /\ PendingUncompiled
    /\ DoomedLater
    /\ Scripted

-----------------------------------------------------------------------------
(* Loads.                                                                  *)

LEMMA LoadInit == Init => LoadInv
  BY DEF Init, LoadInv, LoadedWhole, OwnNames, CompiledIds, PendingUncompiled, DoomedLater,
     Scripted, Owned

LEMMA IdTypes ==
    ASSUME TypeOK
    PROVE  /\ nextFuncId \in Nat /\ nextLibId \in Nat
           /\ \A i \in FuncIds : i \in Nat /\ i >= 1
           /\ \A l \in LibIds : l \in Nat
  BY BoundsAssumption DEF TypeOK, FuncIds, LibIds

\* A step that makes no function, and only takes functions from the server.
LEMMA LoadFrame ==
    ASSUME LinkInv, LoadInv,
           UNCHANGED <<func, nextFuncId, nextLibId, compiled>>,
           \A i \in FuncIds : owner'[i] = "pending" <=> owner[i] = "pending",
           \A i \in FuncIds : owner'[i] \in {"linked", "script"} => owner'[i] = owner[i],
           \A i \in FuncIds : owner'[i] = "doomed" => owner[i] \in {"doomed", "linked"}
    PROVE  LoadInv'
<1>1. LoadedWhole'
  <2>1. Owned("pending")' = Owned("pending")
    BY DEF Owned
  <2>2. QED
    BY <2>1 DEF LoadInv, LoadedWhole
<1>2. OwnNames'
  BY DEF LoadInv, OwnNames, DeclaredNames
<1>3. CompiledIds' /\ PendingUncompiled'
  BY DEF LoadInv, CompiledIds, PendingUncompiled
<1>4. DoomedLater'
  BY DEF LoadInv, LinkInv, DoomedLater, UniqueNames, TypeInv, TypeOK
<1>5. Scripted'
  BY DEF LoadInv, Scripted, Owned
<1>6. QED
  BY <1>1, <1>2, <1>3, <1>4, <1>5 DEF LoadInv

LEMMA LoadCompileLibrary ==
    ASSUME LinkInv, LoadInv, NEW c \in Codes, CompileLibrary(c)
    PROVE  LoadInv'
<1>1. PICK k \in Nat, l \in LibIds, base \in Nat, new \in SUBSET FuncIds :
          /\ k = Len(Declares[c])
          /\ base = nextFuncId
          /\ l = nextLibId + 1
          /\ new = base + 1 .. base + k
  BY SourcesAssumption, BoundsAssumption
  DEF CompileLibrary, LinkInv, TypeInv, TypeOK, LibIds, FuncIds
<1>2. /\ nextLibId' = l
      /\ nextFuncId' = base + k
      /\ \A i \in new : /\ owner'[i] = "pending"
                        /\ func'[i] = [name |-> Declares[c][i - base], lib |-> l, code |-> c]
      /\ \A i \in FuncIds : i \notin new => owner'[i] = owner[i] /\ func'[i] = func[i]
      /\ UNCHANGED compiled
  BY <1>1 DEF CompileLibrary, userVars
<1>3. Owned("pending")' = new /\ Owned("doomed")' = {}
  BY <1>1, <1>2 DEF CompileLibrary, Idle, Owned
<1>4. \A i \in new : owner[i] = "unused"
  BY <1>1, BoundsAssumption DEF LinkInv, IdsUsed, FuncIds
<1>5. \A i \in new : Declares[c][i - base] \in DeclaredNames(c)
  <2>1. ASSUME NEW i \in new PROVE i - base \in DOMAIN Declares[c]
    BY <1>1, SourcesAssumption
  <2>2. QED
    BY <2>1 DEF DeclaredNames
<1>6. LoadedWhole'
  <2>1. nextFuncId' - k = base
    BY <1>1, <1>2
  <2>2. ASSUME NEW i \in new
        PROVE  func'[i].code = c /\ func'[i].name = Declares[c][i - base]
    <3>1. func'[i] = [name |-> Declares[c][i - base], lib |-> l, code |-> c]
      BY <1>2
    <3>2. QED
      BY <3>1
  <2>3. /\ Owned("pending")' = base + 1 .. nextFuncId'
        /\ nextFuncId' - Len(Declares[c]) = base
    BY <1>1, <1>2, <1>3, <2>1
  <2>4. \A i \in Owned("pending")' : func'[i].code = c /\ func'[i].name = Declares[c][i - base]
    BY <1>3, <2>2
  <2>5. QED
    BY <2>3, <2>4 DEF LoadedWhole
<1>7. OwnNames'
  <2>1. ASSUME NEW i \in FuncIds, owner'[i] \in {"pending", "linked"}
        PROVE  func'[i].name \in DeclaredNames(func'[i].code)
    <3>1. CASE i \in new
      <4>1. func'[i] = [name |-> Declares[c][i - base], lib |-> l, code |-> c]
        BY <1>2, <3>1
      <4>2. QED
        BY <1>5, <3>1, <4>1
    <3>2. CASE i \notin new
      BY <1>2, <2>1, <3>2 DEF LoadInv, OwnNames
    <3>3. QED
      BY <3>1, <3>2
  <2>2. QED
    BY <2>1 DEF OwnNames, DeclaredNames
<1>8. CompiledIds' /\ PendingUncompiled'
  <2>1. \A u \in Users : \A m \in compiled[u] : m \in Nat /\ m < l
    BY <1>1, IdTypes DEF LoadInv, CompiledIds, LinkInv, TypeInv, TypeOK
  <2>2. l \in Nat
    BY <1>1, IdTypes DEF LinkInv, TypeInv
  <2>3. CompiledIds'
    BY <1>2, <2>1, <2>2 DEF CompiledIds
  <2>4. \A i \in FuncIds : owner'[i] = "pending" => func'[i].lib = l
    <3>1. ASSUME NEW i \in new PROVE func'[i].lib = l
      <4>1. func'[i] = [name |-> Declares[c][i - base], lib |-> l, code |-> c]
        BY <1>2
      <4>2. QED
        BY <4>1
    <3>2. QED
      BY <1>3, <3>1 DEF Owned
  <2>5. PendingUncompiled'
    BY <1>2, <2>1, <2>2, <2>4 DEF PendingUncompiled
  <2>6. QED
    BY <2>3, <2>5
<1>9. DoomedLater'
  BY <1>3 DEF DoomedLater, Owned
<1>10. Scripted'
  <2>1. \A i \in FuncIds : owner'[i] = "script" => owner[i] = "script" /\ func'[i] = func[i]
    BY <1>2
  <2>2. QED
    BY <2>1 DEF LoadInv, Scripted, Owned
<1>11. QED
  BY <1>6, <1>7, <1>8, <1>9, <1>10 DEF LoadInv

LEMMA LoadCompileScript ==
    ASSUME LinkInv, LoadInv, NEW s \in Scripts, CompileScript(s)
    PROVE  LoadInv'
<1>1. PICK new \in FuncIds :
          /\ new = nextFuncId + 1
          /\ nextFuncId' = new
          /\ owner[new] = "unused" /\ owner'[new] = "script"
          /\ func'[new] = [name |-> None, lib |-> 0, code |-> s]
          /\ \A i \in FuncIds : i # new => owner'[i] = owner[i] /\ func'[i] = func[i]
          /\ UNCHANGED <<nextLibId, compiled>>
  BY BoundsAssumption DEF CompileScript, userVars, LinkInv, IdsUsed, TypeInv, TypeOK, FuncIds
<1>2. Owned("pending")' = {} /\ Owned("doomed")' = {}
  BY <1>1 DEF CompileScript, Idle, Owned
<1>3. LoadedWhole' /\ DoomedLater' /\ PendingUncompiled'
  BY <1>2 DEF LoadedWhole, DoomedLater, PendingUncompiled, Owned
<1>4. OwnNames' /\ CompiledIds'
  BY <1>1 DEF LoadInv, OwnNames, DeclaredNames, CompiledIds
<1>5. Scripted'
  <2>1. \A i \in Owned("script") : func[i].code # s
    BY DEF CompileScript
  <2>2. func'[new].name = None /\ func'[new].code = s
    BY <1>1
  <2>3. \A i \in FuncIds : owner'[i] = "script" =>
            i = new \/ (i # new /\ owner[i] = "script" /\ func'[i] = func[i])
    BY <1>1
  <2>4. QED
    BY <2>1, <2>2, <2>3 DEF LoadInv, Scripted, Owned
<1>6. QED
  BY <1>3, <1>4, <1>5 DEF LoadInv

LEMMA LoadLink ==
    ASSUME LinkInv, LoadInv, Link
    PROVE  LoadInv'
<1>1. /\ UNCHANGED <<func, nextFuncId, nextLibId, compiled>>
      /\ \A i \in FuncIds : owner'[i] = IF owner[i] = "pending" THEN "linked"
                                        ELSE IF Replaced(i) THEN "doomed" ELSE owner[i]
  BY DEF Link, engineVars, userVars
<1>2. \A i \in FuncIds : /\ owner'[i] # "pending"
                         /\ owner'[i] = "linked" => owner[i] \in {"pending", "linked"}
                         /\ owner'[i] = "doomed" => owner[i] \in {"doomed", "linked"}
                         /\ owner'[i] = "script" => owner[i] = "script"
  BY <1>1 DEF Replaced
<1>3. LoadedWhole' /\ PendingUncompiled'
  BY <1>2 DEF LoadedWhole, PendingUncompiled, Owned
<1>4. OwnNames' /\ CompiledIds' /\ Scripted'
  BY <1>1, <1>2 DEF LoadInv, OwnNames, DeclaredNames, CompiledIds, Scripted, Owned
<1>5. DoomedLater'
  <2> SUFFICES ASSUME NEW i \in FuncIds, NEW j \in FuncIds, owner'[i] = "doomed",
                      owner'[j] = "linked", func[i].name = func[j].name
               PROVE  i > j \/ \A u \in Users : func[j].lib \notin compiled[u]
    BY <1>1 DEF DoomedLater
  <2>1. CASE owner[j] = "pending"
    BY <2>1 DEF LoadInv, PendingUncompiled
  <2>2. CASE owner[j] = "linked"
    BY <1>2, <2>2 DEF LoadInv, LinkInv, DoomedLater, UniqueNames
  <2>3. QED
    BY <1>2, <2>1, <2>2
<1>6. QED
  BY <1>3, <1>4, <1>5 DEF LoadInv

\* What is loaded was made after everything else the server holds.
LEMMA PendingLatest ==
    ASSUME LinkInv, LoadInv, NEW i \in Owned("pending"), NEW j \in FuncIds,
           owner[j] \notin {"pending", "unused"}
    PROVE  i > j
<1>1. PICK c \in Codes, k \in Nat : Owned("pending") = (nextFuncId - k) + 1 .. nextFuncId
  BY SourcesAssumption DEF LoadInv, LoadedWhole
<1>2. j \notin Owned("pending") /\ ~(j > nextFuncId)
  BY DEF Owned, LinkInv, IdsUsed
<1>3. i \in FuncIds
  BY DEF Owned
<1>4. nextFuncId \in Nat /\ i \in Nat /\ j \in Nat
  BY <1>3, IdTypes DEF LinkInv, TypeInv
<1>5. QED
  BY <1>1, <1>2, <1>4

LEMMA LoadReject ==
    ASSUME LinkInv, LoadInv, Reject
    PROVE  LoadInv'
<1>1. /\ UNCHANGED <<func, nextFuncId, nextLibId, compiled>>
      /\ \A i \in FuncIds : owner'[i] = IF owner[i] = "pending" THEN "doomed" ELSE owner[i]
  BY DEF Reject, engineVars, userVars
<1>2. LoadedWhole' /\ PendingUncompiled'
  BY <1>1 DEF LoadedWhole, PendingUncompiled, Owned
<1>3. OwnNames' /\ CompiledIds' /\ Scripted'
  BY <1>1 DEF LoadInv, OwnNames, DeclaredNames, CompiledIds, Scripted, Owned
<1>4. DoomedLater'
  <2> SUFFICES ASSUME NEW i \in FuncIds, NEW j \in FuncIds, owner'[i] = "doomed",
                      owner'[j] = "linked", func[i].name = func[j].name
               PROVE  i > j \/ \A u \in Users : func[j].lib \notin compiled[u]
    BY <1>1 DEF DoomedLater
  <2>1. owner[j] = "linked"
    BY <1>1
  <2>2. CASE owner[i] = "pending"
    BY <2>1, <2>2, PendingLatest DEF Owned
  <2>3. CASE owner[i] # "pending"
    BY <1>1, <2>1, <2>3 DEF LoadInv, DoomedLater
  <2>4. QED
    BY <2>2, <2>3
<1>5. QED
  BY <1>2, <1>3, <1>4 DEF LoadInv

LEMMA LoadFcall ==
    ASSUME LinkInv, LoadInv, NEW u \in Users, NEW i \in FuncIds, Fcall(u, i)
    PROVE  LoadInv'
<1>1. CallStarts(u, i) /\ (UNCHANGED compiled \/ LibraryReady(u, i))
  BY DEF Fcall, FcallHit, FcallLibraryMissing, FcallCompileError, FcallNotFound, FcallMiss
<1>2. Idle /\ owner[i] = "linked" /\ UNCHANGED <<func, owner, nextFuncId, nextLibId>>
  BY <1>1 DEF CallStarts, hostVars, engineVars
<1>3. \A v \in Users : compiled'[v] \subseteq compiled[v] \cup {func[i].lib}
  <2>1. compiled \in [Users -> SUBSET LibIds]
    BY DEF LinkInv, TypeInv, TypeOK
  <2>2. CASE UNCHANGED compiled
    BY <2>2
  <2>3. CASE LibraryReady(u, i)
    BY <2>1, <2>3 DEF LibraryReady
  <2>4. QED
    BY <1>1, <2>2, <2>3
<1>4. CompiledIds'
  BY <1>2, <1>3 DEF LoadInv, CompiledIds, LinkInv, OwnSource
<1>5. PendingUncompiled' /\ DoomedLater' /\ LoadedWhole'
  BY <1>2 DEF Idle, PendingUncompiled, DoomedLater, LoadedWhole, Owned
<1>6. OwnNames' /\ Scripted'
  BY <1>2 DEF LoadInv, OwnNames, DeclaredNames, Scripted, Owned
<1>7. QED
  BY <1>4, <1>5, <1>6 DEF LoadInv

LEMMA LoadReset ==
    ASSUME LinkInv, LoadInv, ResetFunctions("doomed") \/ ResetAll
    PROVE  LoadInv'
<1>1. /\ UNCHANGED func
      /\ \A v \in Users : compiled'[v] = {}
      /\ \A i \in FuncIds : owner'[i] \notin {"pending", "linked"}
      /\ \A i \in FuncIds : owner'[i] = "script" => owner[i] = "script"
  BY DEF ResetFunctions, ResetAll, FreshFunctionStates, Idle, Owned
<1>2. Scripted'
  BY <1>1 DEF LoadInv, Scripted, Owned
<1>3. LoadedWhole' /\ OwnNames' /\ CompiledIds' /\ PendingUncompiled' /\ DoomedLater'
  BY <1>1 DEF LoadedWhole, OwnNames, CompiledIds, PendingUncompiled, DoomedLater, Owned
<1>4. QED
  BY <1>2, <1>3 DEF LoadInv

LEMMA LoadStep == LinkInv /\ LoadInv /\ [Next]_vars => LoadInv'
<1> SUFFICES ASSUME LinkInv, LoadInv, [Next]_vars PROVE LoadInv'
  OBVIOUS
<1>1. ASSUME NEW c \in Codes, CompileLibrary(c) PROVE LoadInv'
  BY <1>1, LoadCompileLibrary
<1>2. ASSUME NEW s \in Scripts, CompileScript(s) PROVE LoadInv'
  BY <1>2, LoadCompileScript
<1>3. CASE Link
  BY <1>3, LoadLink
<1>4. CASE Reject
  BY <1>4, LoadReject
<1>5. ASSUME NEW ln \in LibNames, DeleteLibrary(ln) PROVE LoadInv'
  BY <1>5, LoadFrame DEF DeleteLibrary, Owned, engineVars, userVars
<1>6. ASSUME NEW i \in FuncIds, Free(i) PROVE LoadInv'
  BY <1>6, LoadFrame DEF Free, FreeLibraryFunction, LinkInv, TypeInv, TypeOK
<1>7. ASSUME NEW i \in FuncIds, FreeScript(i) PROVE LoadInv'
  BY <1>7, LoadFrame DEF FreeScript, engineVars, userVars, LinkInv, TypeInv, TypeOK
<1>8. ASSUME NEW u \in Users, NEW i \in FuncIds, Fcall(u, i) PROVE LoadInv'
  BY <1>8, LoadFcall
<1>9. ASSUME NEW u \in Users, NEW i \in FuncIds, Eval(u, i) PROVE LoadInv'
  BY <1>9, LoadFrame DEF Eval, engineVars, hostVars
<1>10. CASE ResetFunctions("doomed") \/ ResetAll
  BY <1>10, LoadReset
<1>11. CASE ResetScripts
  BY <1>11, LoadFrame DEF ResetScripts, engineVars
<1>12. CASE UNCHANGED vars
  BY <1>12, LoadFrame DEF vars, engineVars, userVars, hostVars
<1>13. QED
  BY <1>1, <1>2, <1>3, <1>4, <1>5, <1>6, <1>7, <1>8, <1>9, <1>10, <1>11, <1>12 DEF Next

LEMMA SpecLoadInv == Spec => [](LinkInv /\ LoadInv)
<1>1. LinkInv /\ LoadInv /\ [Next]_vars => LinkInv' /\ LoadInv'
  BY LinkStep, LoadStep DEF NextLazy
<1>2. Init => LinkInv /\ LoadInv
  BY LinkInit, LoadInit
<1>3. QED
  BY <1>1, <1>2, PTL DEF Spec

-----------------------------------------------------------------------------
(* What is registered in the users' states.                                *)

\* A refused load that was freed stays freed.
LEMMA PurgedStays ==
    ASSUME NEW i \in FuncIds, func'[i] = func[i], NamePurgedSince(i),
           \A j \in FuncIds : owner[j] \in {"freed", "doomed"} =>
               owner'[j] \in {"freed", "doomed"} /\ func'[j] = func[j]
    PROVE  NamePurgedSince(i)'
  BY DEF NamePurgedSince, Owned

\* Steps that leave the tables alone and link nothing.
LEMMA RegisteredFrame ==
    ASSUME RegisteredUnlessPurged, UNCHANGED <<libFuncs, compiled>>,
           \A i \in FuncIds : owner'[i] = "linked" => owner[i] = "linked" /\ func'[i] = func[i],
           \A j \in FuncIds : owner[j] \in {"freed", "doomed"} =>
               owner'[j] \in {"freed", "doomed"} /\ func'[j] = func[j]
    PROVE  RegisteredUnlessPurged'
<1> SUFFICES ASSUME NEW u \in Users, NEW i \in FuncIds, owner'[i] = "linked",
                    func'[i].lib \in compiled[u], libFuncs[u][func'[i].name] = None
             PROVE  NamePurgedSince(i)'
  BY DEF RegisteredUnlessPurged, Owned
<1>1. NamePurgedSince(i) /\ func'[i] = func[i]
  BY DEF RegisteredUnlessPurged, Owned
<1>2. QED
  BY <1>1, PurgedStays

LEMMA RegisteredLink ==
    ASSUME LinkInv, LoadInv, RegisteredUnlessPurged, Link
    PROVE  RegisteredUnlessPurged'
<1>1. /\ UNCHANGED <<func, libFuncs, compiled>>
      /\ \A i \in FuncIds : owner'[i] = IF owner[i] = "pending" THEN "linked"
                                        ELSE IF Replaced(i) THEN "doomed" ELSE owner[i]
  BY DEF Link, userVars
<1> SUFFICES ASSUME NEW u \in Users, NEW i \in FuncIds, owner'[i] = "linked",
                    func[i].lib \in compiled[u], libFuncs[u][func[i].name] = None
             PROVE  NamePurgedSince(i)'
  BY <1>1 DEF RegisteredUnlessPurged, Owned
<1>2. owner[i] = "linked"
  BY <1>1 DEF LoadInv, PendingUncompiled
<1>3. NamePurgedSince(i)
  BY <1>2 DEF RegisteredUnlessPurged, Owned
<1>4. QED
  BY <1>1, <1>3, PurgedStays DEF Replaced

LEMMA RegisteredFree ==
    ASSUME LinkInv, LoadInv, RegisteredUnlessPurged, NEW i \in FuncIds, Free(i)
    PROVE  RegisteredUnlessPurged'
<1>1. /\ owner[i] = "doomed" /\ owner' = [owner EXCEPT ![i] = "freed"]
      /\ UNCHANGED <<func, compiled>>
      /\ PurgeName(func[i].name)
  BY DEF Free, FreeLibraryFunction
<1>2. owner'[i] = "freed" /\ \A j \in FuncIds : j # i => owner'[j] = owner[j]
  BY <1>1 DEF LinkInv, TypeInv, TypeOK
<1>3. \A u \in Users, n \in Names :
          n # func[i].name => libFuncs'[u][n] = libFuncs[u][n]
  BY <1>1 DEF PurgeName, LinkInv, TypeInv, TypeOK
<1> SUFFICES ASSUME NEW u \in Users, NEW j \in FuncIds, owner'[j] = "linked",
                    func[j].lib \in compiled[u], libFuncs'[u][func[j].name] = None
             PROVE  NamePurgedSince(j)'
  BY <1>1 DEF RegisteredUnlessPurged, Owned
<1>4. owner[j] = "linked" /\ func[j].name \in Names
  BY <1>1, <1>2 DEF LinkInv, TypeInv, Kinds
<1>5. CASE func[j].name = func[i].name
  <2>1. i > j
    BY <1>1, <1>4, <1>5 DEF LoadInv, DoomedLater
  <2>2. QED
    BY <1>1, <1>2, <1>5, <2>1 DEF NamePurgedSince, Owned
<1>6. CASE func[j].name # func[i].name
  <2>1. NamePurgedSince(j)
    BY <1>3, <1>4, <1>6 DEF RegisteredUnlessPurged, Owned
  <2>2. QED
    BY <1>1, <1>2, <2>1, PurgedStays
<1>7. QED
  BY <1>5, <1>6

\* The tables only grow in a call, and the run of a library that ends without
\* error registers each of its functions.
LEMMA FcallTables ==
    ASSUME LinkInv, TypeInv', NEW u \in Users, NEW i \in FuncIds, Fcall(u, i)
    PROVE  /\ \A v \in Users, n \in Names : libFuncs[v][n] # None => libFuncs'[v][n] # None
           /\ \A v \in Users :
                \/ compiled'[v] = compiled[v]
                \/ /\ v = u
                   /\ compiled'[v] = compiled[v] \cup {func[i].lib}
                   /\ func[i].lib \in compiled[v] \/
                        /\ libraries[func[i].lib].code \in Runs
                        /\ libraries[func[i].lib] # NoLib
                        /\ \A n \in Defines[libraries[func[i].lib].code] : libFuncs'[v][n] # None
<1> DEFINE code == libraries[func[i].lib].code
           grow == [libFuncs EXCEPT ![u] = Registered(u, code)]
<1>1. /\ func[i].lib \in LibIds
      /\ libFuncs \in [Users -> [Names -> Codes \cup {None}]]
      /\ compiled \in [Users -> SUBSET LibIds]
      /\ libraries[func[i].lib] # NoLib => code \in Codes
      /\ None \notin Codes
  <2>1. func[i].lib \in LibIds
    BY DEF Fcall, FcallHit, FcallLibraryMissing, FcallCompileError, FcallNotFound, FcallMiss,
       CallStarts, LinkInv, TypeInv, Kinds
  <2>2. QED
    BY <2>1, LibraryOrNone, NoneAssumption DEF LinkInv, TypeInv, TypeOK, Bodies
<1>2. ASSUME NEW n \in Names, libraries[func[i].lib] # NoLib
      PROVE  /\ libFuncs[u][n] # None => Registered(u, code)[n] # None
             /\ n \in Defines[code] => Registered(u, code)[n] # None
  BY <1>1, <1>2 DEF Registered
<1>3. ASSUME NEW t, NEW body \in Codes, NEW n \in Names, t[n] # None
      PROVE  AfterBody(t, body)[n] # None
  BY <1>1, <1>3 DEF AfterBody
<1>4. libraries[func[i].lib] # NoLib => Defines[code] \subseteq Names
  BY <1>1, SourcesAssumption
<1>5. CASE FcallHit(u, i)
  <2>1. funcCache[u][i] \in Codes
    BY <1>5 DEF FcallHit, LinkInv, TypeInv, TypeOK
  <2>2. QED
    BY <1>1, <1>3, <1>5, <2>1 DEF FcallHit
<1>6. CASE FcallLibraryMissing(u, i)
  BY <1>6 DEF FcallLibraryMissing
<1>7. CASE FcallCompileError(u, i)
  BY <1>1, <1>2, <1>7 DEF FcallCompileError
<1>8. ASSUME LibraryReady(u, i),
             \E t \in {LookupTable(u, i)} :
                \/ libFuncs' = [libFuncs EXCEPT ![u] = t]
                \/ \E body \in Codes : libFuncs' = [libFuncs EXCEPT ![u] = AfterBody(t, body)]
      PROVE  /\ \A v \in Users, n \in Names : libFuncs[v][n] # None => libFuncs'[v][n] # None
             /\ \A v \in Users :
                  \/ compiled'[v] = compiled[v]
                  \/ /\ v = u
                     /\ compiled'[v] = compiled[v] \cup {func[i].lib}
                     /\ func[i].lib \in compiled[v] \/
                          /\ code \in Runs
                          /\ libraries[func[i].lib] # NoLib
                          /\ \A n \in Defines[code] : libFuncs'[v][n] # None
  <2> DEFINE t == LookupTable(u, i)
  <2>1. libraries[func[i].lib] # NoLib
    BY <1>8 DEF LibraryReady
  <2>2. \A n \in Names : t[n] # None => libFuncs'[u][n] # None
    BY <1>1, <1>3, <1>8
  <2>3. \A n \in Names : libFuncs[u][n] # None => t[n] # None
    BY <1>2, <2>1 DEF LookupTable
  <2>4. func[i].lib \notin compiled[u] => \A n \in Defines[code] : t[n] # None
    BY <1>2, <1>4, <2>1 DEF LookupTable
  <2>5. \A v \in Users : v # u => libFuncs'[v] = libFuncs[v] /\ compiled'[v] = compiled[v]
    BY <1>1, <1>8 DEF LibraryReady
  <2>6. compiled'[u] = compiled[u] \cup {func[i].lib}
    BY <1>1, <1>8 DEF LibraryReady
  <2>7. func[i].lib \in compiled[u] \/ code \in Runs
    BY <1>8 DEF LibraryReady
  <2> HIDE DEF t
  <2>8. \A v \in Users, n \in Names : libFuncs[v][n] # None => libFuncs'[v][n] # None
    BY <2>2, <2>3, <2>5
  <2>9. func[i].lib \notin compiled[u] => \A n \in Defines[code] : libFuncs'[u][n] # None
    BY <1>4, <2>1, <2>2, <2>4
  <2>10. QED
    BY <2>1, <2>5, <2>6, <2>7, <2>8, <2>9
<1>9. CASE FcallNotFound(u, i)
  BY <1>8, <1>9 DEF FcallNotFound
<1>10. CASE FcallMiss(u, i)
  <2>1. funcCache'[u][i] = LookupTable(u, i)[func[i].name]
    BY <1>10 DEF FcallMiss, LinkInv, TypeInv, TypeOK
  <2>2. LookupTable(u, i)[func[i].name] \in Codes
    BY <1>10, <2>1 DEF FcallMiss, TypeInv, TypeOK
  <2>3. QED
    BY <1>8, <1>10, <2>2 DEF FcallMiss
<1>11. QED
  BY <1>5, <1>6, <1>7, <1>9, <1>10 DEF Fcall

LEMMA RegisteredFcall ==
    ASSUME LoadAllSources, LinkInv, TypeInv', LoadInv, RegisteredUnlessPurged,
           NEW u \in Users, NEW i \in FuncIds, Fcall(u, i)
    PROVE  RegisteredUnlessPurged'
<1>1. UNCHANGED <<func, owner>>
  BY DEF Fcall, FcallHit, FcallLibraryMissing, FcallCompileError, FcallNotFound, FcallMiss,
     CallStarts, hostVars
<1> SUFFICES ASSUME NEW v \in Users, NEW j \in FuncIds, owner[j] = "linked",
                    func[j].lib \in compiled'[v], libFuncs'[v][func[j].name] = None
             PROVE  NamePurgedSince(j)
  BY <1>1 DEF RegisteredUnlessPurged, NamePurgedSince, Owned
<1>2. func[j].name \in Names /\ func[j].name \in DeclaredNames(func[j].code)
  BY DEF LinkInv, TypeInv, Kinds, LoadInv, OwnNames
<1>3. libFuncs[v][func[j].name] = None
  BY <1>2, FcallTables
<1>4. CASE func[j].lib \in compiled[v]
  BY <1>3, <1>4 DEF RegisteredUnlessPurged, Owned
<1>5. CASE func[j].lib \notin compiled[v]
  <2>1. /\ func[j].lib = func[i].lib
        /\ libraries[func[i].lib].code \in Runs
        /\ libraries[func[i].lib] # NoLib
        /\ \A n \in Defines[libraries[func[i].lib].code] : libFuncs'[v][n] # None
    BY <1>5, FcallTables
  <2>2. libraries[func[i].lib].code = func[j].code
    BY <2>1 DEF LinkInv, OwnSource
  <2>3. func[j].name \in Defines[func[j].code]
    BY <1>2, <2>1, <2>2 DEF LoadAllSources
  <2>4. QED
    BY <2>1, <2>2, <2>3
<1>6. QED
  BY <1>4, <1>5

LEMMA RegisteredStep ==
    ASSUME LoadAllSources, LinkInv, LoadInv, RegisteredUnlessPurged, [Next]_vars
    PROVE  RegisteredUnlessPurged'
<1>1. TypeInv'
  BY TypeStep DEF NextLazy, LinkInv
<1>2. ASSUME NEW c \in Codes, CompileLibrary(c) PROVE RegisteredUnlessPurged'
  <2>1. PICK k \in Nat : k = Len(Declares[c])
    BY SourcesAssumption
  <2>2. /\ \A i \in FuncIds : ~(i \in nextFuncId + 1 .. nextFuncId + k) =>
                                 owner'[i] = owner[i] /\ func'[i] = func[i]
        /\ \A i \in FuncIds : i \in nextFuncId + 1 .. nextFuncId + k => owner'[i] = "pending"
        /\ UNCHANGED <<libFuncs, compiled>>
    BY <1>2, <2>1 DEF CompileLibrary, userVars
  <2>3. \A i \in FuncIds : i \in nextFuncId + 1 .. nextFuncId + k => owner[i] = "unused"
    BY <2>1, IdTypes DEF LinkInv, IdsUsed, TypeInv
  <2>4. QED
    BY <2>2, <2>3, RegisteredFrame
<1>3. ASSUME NEW s \in Scripts, CompileScript(s) PROVE RegisteredUnlessPurged'
  <2>1. /\ \A i \in FuncIds : i # nextFuncId + 1 => owner'[i] = owner[i] /\ func'[i] = func[i]
        /\ \A i \in FuncIds : i = nextFuncId + 1 => owner'[i] = "script"
        /\ UNCHANGED <<libFuncs, compiled>>
    BY <1>3 DEF CompileScript, userVars, LinkInv, TypeInv, TypeOK
  <2>2. \A i \in FuncIds : i = nextFuncId + 1 => owner[i] = "unused"
    BY IdTypes DEF LinkInv, IdsUsed, TypeInv
  <2>3. QED
    BY <2>1, <2>2, RegisteredFrame
<1>4. CASE Link
  BY <1>4, RegisteredLink
<1>5. CASE Reject
  BY <1>5, RegisteredFrame DEF Reject, userVars
<1>6. ASSUME NEW ln \in LibNames, DeleteLibrary(ln) PROVE RegisteredUnlessPurged'
  BY <1>6, RegisteredFrame DEF DeleteLibrary, Owned, userVars
<1>7. ASSUME NEW i \in FuncIds, Free(i) PROVE RegisteredUnlessPurged'
  BY <1>7, RegisteredFree
<1>8. ASSUME NEW i \in FuncIds, FreeScript(i) PROVE RegisteredUnlessPurged'
  BY <1>8, RegisteredFrame DEF FreeScript, userVars, LinkInv, TypeInv, TypeOK
<1>9. ASSUME NEW u \in Users, NEW i \in FuncIds, Fcall(u, i) PROVE RegisteredUnlessPurged'
  BY <1>1, <1>9, RegisteredFcall
<1>10. ASSUME NEW u \in Users, NEW i \in FuncIds, Eval(u, i) PROVE RegisteredUnlessPurged'
  BY <1>10, RegisteredFrame DEF Eval, hostVars
<1>11. CASE ResetFunctions("doomed") \/ ResetAll
  <2>1. \A i \in FuncIds : owner'[i] # "linked"
    BY <1>11 DEF ResetFunctions, ResetAll
  <2>2. QED
    BY <2>1 DEF RegisteredUnlessPurged, Owned
<1>12. CASE ResetScripts
  BY <1>12, RegisteredFrame DEF ResetScripts
<1>13. CASE UNCHANGED vars
  BY <1>13, RegisteredFrame DEF vars, userVars, hostVars
<1>14. QED
  BY <1>2, <1>3, <1>4, <1>5, <1>6, <1>7, <1>8, <1>9, <1>10, <1>11, <1>12, <1>13 DEF Next

\* Once a user's state has compiled a linked function's library, the function
\* is registered there: only the free of a refused load of its name, made
\* after it, can have purged it.
THEOREM RegisteredOnceCompiled ==
    ASSUME LoadAllSources
    PROVE  Spec => []RegisteredUnlessPurged
<1>1. Init => RegisteredUnlessPurged
  BY DEF Init, RegisteredUnlessPurged, Owned
<1>2. LinkInv /\ LoadInv /\ RegisteredUnlessPurged /\ [Next]_vars => RegisteredUnlessPurged'
  BY RegisteredStep
<1>3. QED
  BY SpecLoadInv, <1>1, <1>2, PTL DEF Spec

-----------------------------------------------------------------------------
(* The refinement: every step of the engine is a step of the service.      *)

\* What is known of the engine between two of its steps.
EngineInv == RefInv /\ LinkInv /\ LoadInv /\ CallInv /\ RegisteredUnlessPurged

Clouded(n) == \E i \in LinkedAs(n) : NamePurgedSince(i)
KeptScripts == {func[i].code : i \in Owned("script")}

\* The one function linked under a name decides what the name serves.
LEMMA LinkedOne ==
    ASSUME LinkInv, NEW i \in FuncIds, owner[i] = "linked"
    PROVE  /\ LinkedAs(func[i].name) = {i}
           /\ ServedCode(func[i].name) = func[i].code
           /\ Clouded(func[i].name) <=> NamePurgedSince(i)
           /\ func[i].code # None
<1>1. LinkedAs(func[i].name) = {i}
  BY DEF LinkedAs, Owned, LinkInv, UniqueNames
<1>2. (CHOOSE j \in {i} : TRUE) = i
  OBVIOUS
<1>3. func[i].code # None
  BY NoneAssumption DEF LinkInv, TypeInv, Kinds, Bodies
<1>4. QED
  BY <1>1, <1>2, <1>3 DEF ServedCode, Clouded

LEMMA LinkedNone ==
    ASSUME NEW n, LinkedAs(n) = {}
    PROVE  ServedCode(n) = None /\ ~Clouded(n)
  BY DEF ServedCode, Clouded

LEMMA LinkedAny ==
    ASSUME LinkInv, NEW n \in Names, LinkedAs(n) # {}
    PROVE  \E i \in FuncIds : owner[i] = "linked" /\ func[i].name = n
  BY DEF LinkedAs, Owned

\* The linked functions stay, and so does what was purged of their names.
LEMMA ServedFrame ==
    ASSUME \A i \in FuncIds : owner'[i] = "linked" <=> owner[i] = "linked",
           \A i \in FuncIds : owner[i] = "linked" =>
               func'[i] = func[i] /\ (NamePurgedSince(i)' <=> NamePurgedSince(i)),
           NEW n \in Names
    PROVE  ServedCode(n)' = ServedCode(n) /\ (Clouded(n)' <=> Clouded(n))
<1>1. LinkedAs(n)' = LinkedAs(n)
  BY DEF LinkedAs, Owned
<1>2. \A i \in LinkedAs(n) : /\ func'[i] = func[i]
                             /\ NamePurgedSince(i)' <=> NamePurgedSince(i)
  BY DEF LinkedAs, Owned
<1>3. Clouded(n)' <=> Clouded(n)
  BY <1>1, <1>2 DEF Clouded
<1>4. ServedCode(n)' = ServedCode(n)
  <2>1. CASE LinkedAs(n) = {}
    BY <1>1, <2>1 DEF ServedCode
  <2>2. CASE LinkedAs(n) # {}
    BY <1>1, <1>2, <2>2 DEF ServedCode
  <2>3. QED
    BY <2>1, <2>2
<1>5. QED
  BY <1>3, <1>4

\* Steps the clients cannot see.
LEMMA QuietStep ==
    ASSUME \A n \in Names : ServedCode(n)' = ServedCode(n) /\ (Clouded(n)' <=> Clouded(n)),
           KeptScripts' = KeptScripts,
           reply' = NoReply
    PROVE  Service!Quiet
  BY DEF Service!Quiet, Service!NoAnswer, AnswerOf, Clouded, KeptScripts

LEMMA CompileLibraryStep ==
    ASSUME EngineInv, NEW c \in Codes, CompileLibrary(c)
    PROVE  Service!Quiet
<1>1. PICK k \in Nat : k = Len(Declares[c])
  BY SourcesAssumption
<1>2. /\ \A i \in FuncIds : ~(i \in nextFuncId + 1 .. nextFuncId + k) =>
                               owner'[i] = owner[i] /\ func'[i] = func[i]
      /\ \A i \in FuncIds : i \in nextFuncId + 1 .. nextFuncId + k => owner'[i] = "pending"
      /\ reply' = NoReply
  BY <1>1 DEF CompileLibrary
<1>3. \A i \in FuncIds : i \in nextFuncId + 1 .. nextFuncId + k => owner[i] = "unused"
  BY <1>1, IdTypes DEF EngineInv, LinkInv, IdsUsed, TypeInv
<1>4. \A i \in FuncIds : \/ owner'[i] = owner[i] /\ func'[i] = func[i]
                         \/ owner[i] = "unused" /\ owner'[i] = "pending"
  BY <1>2, <1>3
<1>5. \A i \in FuncIds : owner[i] = "linked" => (NamePurgedSince(i)' <=> NamePurgedSince(i))
  BY <1>4 DEF NamePurgedSince, Owned
<1>6. \A n \in Names : ServedCode(n)' = ServedCode(n) /\ (Clouded(n)' <=> Clouded(n))
  BY <1>4, <1>5, ServedFrame
<1>7. KeptScripts' = KeptScripts
  BY <1>4 DEF KeptScripts, Owned
<1>8. QED
  BY <1>2, <1>6, <1>7, QuietStep

LEMMA FreeStep ==
    ASSUME EngineInv, NEW i \in FuncIds, Free(i)
    PROVE  Service!Quiet
<1>1. /\ owner[i] = "doomed" /\ owner'[i] = "freed"
      /\ \A j \in FuncIds : j # i => owner'[j] = owner[j]
      /\ UNCHANGED func /\ reply' = NoReply
  BY DEF Free, FreeLibraryFunction, EngineInv, LinkInv, TypeInv, TypeOK
<1>2. \A j \in FuncIds : NamePurgedSince(j)' <=> NamePurgedSince(j)
  BY <1>1 DEF NamePurgedSince, Owned
<1>3. \A n \in Names : ServedCode(n)' = ServedCode(n) /\ (Clouded(n)' <=> Clouded(n))
  BY <1>1, <1>2, ServedFrame
<1>4. KeptScripts' = KeptScripts
  BY <1>1 DEF KeptScripts, Owned
<1>5. QED
  BY <1>1, <1>3, <1>4, QuietStep

\* As LinkedOne, LinkedNone and LinkedAny, of the next state.
LEMMA LinkedNext ==
    ASSUME UniqueNames', NEW n \in Names
    PROVE  /\ \A i \in FuncIds : owner'[i] = "linked" /\ func'[i].name = n =>
                  /\ ServedCode(n)' = func'[i].code
                  /\ Clouded(n)' <=> NamePurgedSince(i)'
           /\ (\A i \in FuncIds : owner'[i] = "linked" => func'[i].name # n) =>
                  ServedCode(n)' = None /\ ~Clouded(n)'
<1>1. ASSUME NEW i \in FuncIds, owner'[i] = "linked", func'[i].name = n
      PROVE  /\ ServedCode(n)' = func'[i].code
             /\ Clouded(n)' <=> NamePurgedSince(i)'
  <2>1. LinkedAs(n)' = {i}
    BY <1>1 DEF LinkedAs, Owned, UniqueNames
  <2>2. (CHOOSE j \in {i} : TRUE) = i
    OBVIOUS
  <2>3. QED
    BY <2>1, <2>2 DEF ServedCode, Clouded
<1>2. ASSUME \A i \in FuncIds : owner'[i] = "linked" => func'[i].name # n
      PROVE  ServedCode(n)' = None /\ ~Clouded(n)'
  <2>1. LinkedAs(n)' = {}
    BY <1>2 DEF LinkedAs, Owned
  <2>2. QED
    BY <2>1 DEF ServedCode, Clouded
<1>3. QED
  BY <1>1, <1>2

\* The functions waiting for the server's verdict are those of one source.
LEMMA PendingSource ==
    ASSUME EngineInv, Owned("pending") # {}
    PROVE  \E c \in Codes :
             /\ \A i \in Owned("pending") : func[i].code = c
             /\ \A n : n \in Service!NamesOf(c) <=> \E i \in Owned("pending") : func[i].name = n
             /\ (\A i, j \in Owned("pending") : func[i].name = func[j].name => i = j) =>
                    Service!IsInjective(Declares[c])
<1>1. PICK c \in Codes, k \in Nat, base \in Int :
          /\ k = Len(Declares[c])
          /\ base = nextFuncId - k
          /\ Owned("pending") = base + 1 .. nextFuncId
          /\ \A i \in Owned("pending") : func[i].code = c /\ func[i].name = Declares[c][i - base]
  <2>1. PICK c \in Codes :
            LET base == nextFuncId - Len(Declares[c]) IN
            /\ Owned("pending") = base + 1 .. nextFuncId
            /\ \A i \in Owned("pending") :
                  func[i].code = c /\ func[i].name = Declares[c][i - base]
    BY DEF EngineInv, LoadInv, LoadedWhole
  <2>2. Len(Declares[c]) \in Nat /\ nextFuncId \in Nat
    BY SourcesAssumption, IdTypes DEF EngineInv, LinkInv, TypeInv
  <2>3. nextFuncId - Len(Declares[c]) \in Int
    BY <2>2
  <2>4. QED
    BY <2>1, <2>2, <2>3
<1>2. nextFuncId \in Nat /\ nextFuncId = base + k
  <2>1. nextFuncId \in Nat
    BY IdTypes DEF EngineInv, LinkInv, TypeInv
  <2>2. base = nextFuncId - k
    BY <1>1
  <2>3. QED
    BY <2>1, <2>2
<1>3. DOMAIN Declares[c] = 1..k
  BY <1>1, SourcesAssumption
<1>4. ASSUME NEW p \in 1..k
      PROVE  base + p \in Owned("pending") /\ func[base + p].name = Declares[c][p]
  <2>1. base + p \in base + 1 .. nextFuncId /\ (base + p) - base = p
    BY <1>2
  <2>2. base + p \in Owned("pending")
    BY <1>1, <2>1
  <2>3. QED
    BY <1>1, <2>1, <2>2
<1>5. ASSUME NEW i \in Owned("pending") PROVE i - base \in 1..k
  <2>1. i \in base + 1 .. nextFuncId
    BY <1>1
  <2>2. QED
    BY <1>2, <2>1
<1>6. ASSUME NEW n
      PROVE  n \in Service!NamesOf(c) <=> \E i \in Owned("pending") : func[i].name = n
  <2>1. n \in Service!NamesOf(c) <=> \E p \in 1..k : n = Declares[c][p]
    BY <1>3 DEF Service!NamesOf, Service!Range
  <2>2. ASSUME NEW p \in 1..k, n = Declares[c][p]
        PROVE  \E i \in Owned("pending") : func[i].name = n
    BY <1>4, <2>2
  <2>3. ASSUME NEW i \in Owned("pending"), func[i].name = n
        PROVE  \E p \in 1..k : n = Declares[c][p]
    BY <1>1, <1>5, <2>3
  <2>4. QED
    BY <2>1, <2>2, <2>3
<1>7. ASSUME \A i, j \in Owned("pending") : func[i].name = func[j].name => i = j,
             NEW p \in 1..k, NEW q \in 1..k, Declares[c][p] = Declares[c][q]
      PROVE  p = q
  <2>1. base + p = base + q
    BY <1>4, <1>7
  <2>2. QED
    BY <2>1
<1>8. QED
  BY <1>1, <1>3, <1>6, <1>7 DEF Service!IsInjective

\* Link: the names of the new library and of the one it replaces change hands
\* at once.
LEMMA InstallStep ==
    ASSUME EngineInv, UniqueNames', Link
    PROVE  \E c \in Codes : Service!Install(c)
<1>1. /\ UNCHANGED func
      /\ reply' = NoReply
      /\ \A i \in FuncIds : owner'[i] = IF owner[i] = "pending" THEN "linked"
                                        ELSE IF Replaced(i) THEN "doomed" ELSE owner[i]
      /\ Owned("pending") # {}
      /\ ~Clash
  BY DEF Link
<1>2. PICK c \in Codes :
          /\ \A i \in Owned("pending") : func[i].code = c
          /\ \A n : n \in Service!NamesOf(c) <=> \E i \in Owned("pending") : func[i].name = n
          /\ (\A i, j \in Owned("pending") : func[i].name = func[j].name => i = j) =>
                 Service!IsInjective(Declares[c])
  BY <1>1, PendingSource
<1>3. Service!IsInjective(Declares[c]) /\ Service!NamesOf(c) # {}
  BY <1>1, <1>2 DEF Clash
<1>4. \A i \in FuncIds : Replaced(i) <=> owner[i] = "linked" /\ LibOf[func[i].code] = LibOf[c]
  BY <1>1, <1>2 DEF Replaced, SameLibrary
<1>5. \A i \in FuncIds : owner'[i] = "linked" <=>
          owner[i] = "pending" \/ (owner[i] = "linked" /\ ~Replaced(i))
  BY <1>1 DEF Replaced
<1>6. \A i \in FuncIds : owner'[i] \in {"freed", "doomed"} <=>
          owner[i] \in {"freed", "doomed"} \/ Replaced(i)
  BY <1>1 DEF Replaced
<1> DEFINE Taken(n) == ServedCode(n) # None /\ LibOf[ServedCode(n)] = LibOf[c]
<1>7. ASSUME NEW n \in Names, NEW i \in FuncIds, owner[i] = "linked", func[i].name = n
      PROVE  ServedCode(n) = func[i].code /\ (Taken(n) <=> Replaced(i))
             /\ (Clouded(n) <=> NamePurgedSince(i))
  BY <1>4, <1>7, LinkedOne DEF EngineInv
<1>8. ASSUME NEW n \in Names, \A i \in FuncIds : owner[i] = "linked" => func[i].name # n
      PROVE  ServedCode(n) = None /\ ~Clouded(n) /\ ~Taken(n)
  BY <1>8, LinkedNone DEF LinkedAs, Owned
<1> HIDE DEF Taken
<1>9. ASSUME NEW n \in Names, n \in Service!NamesOf(c)
      PROVE  /\ ServedCode(n) = None \/ Taken(n)
             /\ ServedCode(n)' = c
             /\ ~Clouded(n)'
  <2>1. PICK i \in FuncIds : owner[i] = "pending" /\ func[i].name = n /\ func[i].code = c
    BY <1>2, <1>9 DEF Owned
  <2>2. ServedCode(n) = None \/ Taken(n)
    <3>1. ASSUME NEW j \in FuncIds, owner[j] = "linked", func[j].name = n
          PROVE  Taken(n)
      <4>1. SameLibrary(i, j)
        BY <1>1, <2>1, <3>1 DEF Clash, Owned
      <4>2. QED
        BY <1>4, <1>7, <2>1, <3>1, <4>1 DEF SameLibrary
    <3>2. QED
      BY <1>8, <3>1
  <2>3. ServedCode(n)' = c /\ (Clouded(n)' <=> NamePurgedSince(i)')
    BY <1>1, <1>5, <2>1, LinkedNext
  <2>4. ~NamePurgedSince(i)'
    <3>1. ASSUME NEW j \in FuncIds, owner'[j] \in {"freed", "doomed"} PROVE ~(j > i)
      <4>1. owner[j] \notin {"pending", "unused"}
        BY <1>6, <3>1 DEF Replaced
      <4>2. i > j
        BY <2>1, <4>1, PendingLatest DEF EngineInv, Owned
      <4>3. i \in Nat /\ j \in Nat
        BY IdTypes DEF EngineInv, LinkInv, TypeInv
      <4>4. QED
        BY <4>2, <4>3
    <3>2. QED
      BY <3>1 DEF NamePurgedSince, Owned
  <2>5. QED
    BY <2>2, <2>3, <2>4
<1>10. ASSUME NEW n \in Names, n \notin Service!NamesOf(c)
       PROVE  \A i \in FuncIds : func[i].name = n =>
                  (owner'[i] = "linked" <=> owner[i] = "linked" /\ ~Replaced(i))
  BY <1>2, <1>5, <1>10 DEF Owned
<1>11. ASSUME NEW n \in Names, n \notin Service!NamesOf(c), Taken(n)
       PROVE  ServedCode(n)' = None /\ ~Clouded(n)'
  <2>1. \A i \in FuncIds : owner'[i] = "linked" => func[i].name # n
    BY <1>7, <1>10, <1>11
  <2>2. QED
    BY <1>1, <2>1, LinkedNext
<1>12. ASSUME NEW n \in Names, n \notin Service!NamesOf(c), ~Taken(n)
       PROVE  ServedCode(n)' = ServedCode(n) /\ (Clouded(n)' <=> Clouded(n))
  <2>1. CASE \A i \in FuncIds : owner[i] = "linked" => func[i].name # n
    <3>1. \A i \in FuncIds : owner'[i] = "linked" => func[i].name # n
      BY <1>10, <1>12, <2>1
    <3>2. QED
      BY <1>1, <1>8, <2>1, <3>1, LinkedNext
  <2>2. ASSUME NEW i \in FuncIds, owner[i] = "linked", func[i].name = n
        PROVE  ServedCode(n)' = ServedCode(n) /\ (Clouded(n)' <=> Clouded(n))
    <3>1. owner'[i] = "linked" /\ ~Replaced(i)
      BY <1>7, <1>10, <1>12, <2>2
    <3>2. ServedCode(n)' = func[i].code /\ (Clouded(n)' <=> NamePurgedSince(i)')
      BY <1>1, <2>2, <3>1, LinkedNext
    <3>3. \A j \in FuncIds : Replaced(j) => func[j].name # n
      BY <2>2, <3>1 DEF Replaced, EngineInv, LinkInv, UniqueNames
    <3>4. NamePurgedSince(i)' <=> NamePurgedSince(i)
      BY <1>1, <1>6, <2>2, <3>3 DEF NamePurgedSince, Owned
    <3>5. QED
      BY <1>7, <2>2, <3>2, <3>4
  <2>3. QED
    BY <2>1, <2>2
<1>13. KeptScripts' = KeptScripts
  BY <1>1 DEF KeptScripts, Owned, Replaced
<1>14. ASSUME NEW n \in Names
       PROVE  /\ ServedCode(n)' = IF n \in Service!NamesOf(c) THEN c
                                  ELSE IF Taken(n) THEN None ELSE ServedCode(n)
              /\ Clouded(n)' <=> Clouded(n) /\ ~(n \in Service!NamesOf(c) \/ Taken(n))
  BY <1>9, <1>11, <1>12
<1>15. Service!NamesOf(c) \subseteq Names
  BY SourcesAssumption DEF Service!NamesOf, Service!Range
<1>16. \A n \in Names : Service!Replaces(n, c) <=> Taken(n)
  BY DEF Service!Replaces, Taken
<1>17. Service!Install(c)
  BY <1>1, <1>3, <1>9, <1>13, <1>14, <1>15, <1>16
  DEF Service!Install, Service!NoAnswer, AnswerOf, Clouded, KeptScripts
<1>18. QED
  BY <1>17

\* Reject: the names that are served and that the refused source registered
\* as well will be purged.
LEMMA RefuseStep ==
    ASSUME EngineInv, UniqueNames', Reject
    PROVE  \E c \in Codes : Service!Refuse(c)
<1>1. /\ UNCHANGED func
      /\ reply' = NoReply
      /\ \A i \in FuncIds : owner'[i] = IF owner[i] = "pending" THEN "doomed" ELSE owner[i]
      /\ Owned("pending") # {}
  BY DEF Reject, Clash
<1>2. PICK c \in Codes :
          \A n : n \in Service!NamesOf(c) <=> \E i \in Owned("pending") : func[i].name = n
  BY <1>1, PendingSource
<1>3. ASSUME NEW i \in FuncIds, owner[i] = "linked"
      PROVE  NamePurgedSince(i)' <=> NamePurgedSince(i) \/ func[i].name \in Service!NamesOf(c)
  <2>1. NamePurgedSince(i)' <=> \/ NamePurgedSince(i)
                                \/ \E j \in Owned("pending") : j > i /\ func[j].name = func[i].name
    BY <1>1 DEF NamePurgedSince, Owned
  <2>2. \A j \in Owned("pending") : j > i
    BY <1>3, PendingLatest DEF EngineInv
  <2>3. QED
    BY <1>2, <2>1, <2>2
<1>4. ASSUME NEW n \in Names
      PROVE  /\ ServedCode(n)' = ServedCode(n)
             /\ Clouded(n)' <=> \/ Clouded(n)
                                \/ n \in Service!NamesOf(c) /\ ServedCode(n) # None
  <2>1. CASE \A i \in FuncIds : owner[i] = "linked" => func[i].name # n
    <3>1. ServedCode(n) = None /\ ~Clouded(n)
      BY <2>1, LinkedNone DEF LinkedAs, Owned
    <3>2. ServedCode(n)' = None /\ ~Clouded(n)'
      BY <1>1, <2>1, LinkedNext
    <3>3. QED
      BY <3>1, <3>2
  <2>2. ASSUME NEW i \in FuncIds, owner[i] = "linked", func[i].name = n
        PROVE  /\ ServedCode(n)' = ServedCode(n)
               /\ Clouded(n)' <=> \/ Clouded(n)
                                  \/ n \in Service!NamesOf(c) /\ ServedCode(n) # None
    <3>1. /\ ServedCode(n) = func[i].code /\ func[i].code # None
          /\ Clouded(n) <=> NamePurgedSince(i)
      BY <2>2, LinkedOne DEF EngineInv
    <3>2. owner'[i] = "linked"
      BY <1>1, <2>2
    <3>3. ServedCode(n)' = func[i].code /\ (Clouded(n)' <=> NamePurgedSince(i)')
      BY <1>1, <2>2, <3>2, LinkedNext
    <3>4. QED
      BY <1>3, <2>2, <3>1, <3>3
  <2>3. QED
    BY <2>1, <2>2
<1>5. KeptScripts' = KeptScripts
  BY <1>1 DEF KeptScripts, Owned
<1>6. Service!NamesOf(c) \subseteq Names
  BY SourcesAssumption DEF Service!NamesOf, Service!Range
<1>7. Service!Refuse(c)
  BY <1>1, <1>4, <1>5, <1>6 DEF Service!Refuse, Service!NoAnswer, AnswerOf, Clouded, KeptScripts
<1>8. QED
  BY <1>7

\* FUNCTION DELETE: the names of one library are no longer served.
LEMMA RemoveStep ==
    ASSUME EngineInv, UniqueNames', NEW ln \in LibNames, DeleteLibrary(ln)
    PROVE  Service!Remove(ln)
<1> DEFINE Gone(i) == owner[i] = "linked" /\ LibOf[func[i].code] = ln
<1>1. /\ UNCHANGED func
      /\ reply' = NoReply
      /\ \A i \in FuncIds : owner'[i] = IF Gone(i) THEN "doomed" ELSE owner[i]
  BY DEF DeleteLibrary, Owned
<1>2. ASSUME NEW i \in FuncIds, owner[i] = "linked", ~Gone(i)
      PROVE  NamePurgedSince(i)' <=> NamePurgedSince(i)
  <2>1. \A j \in FuncIds : Gone(j) => func[j].name # func[i].name
    BY <1>2 DEF EngineInv, LinkInv, UniqueNames
  <2>2. QED
    BY <1>1, <2>1 DEF NamePurgedSince, Owned
<1>3. ASSUME NEW n \in Names
      PROVE  /\ ServedCode(n)' = IF ServedCode(n) # None /\ LibOf[ServedCode(n)] = ln
                                 THEN None ELSE ServedCode(n)
             /\ Clouded(n)' <=> Clouded(n) /\ ServedCode(n)' # None
  <2>1. CASE \A i \in FuncIds : owner[i] = "linked" => func[i].name # n
    <3>1. ServedCode(n) = None /\ ~Clouded(n)
      BY <2>1, LinkedNone DEF LinkedAs, Owned
    <3>2. ServedCode(n)' = None /\ ~Clouded(n)'
      BY <1>1, <2>1, LinkedNext
    <3>3. QED
      BY <3>1, <3>2
  <2>2. ASSUME NEW i \in FuncIds, owner[i] = "linked", func[i].name = n
        PROVE  /\ ServedCode(n)' = IF ServedCode(n) # None /\ LibOf[ServedCode(n)] = ln
                                   THEN None ELSE ServedCode(n)
               /\ Clouded(n)' <=> Clouded(n) /\ ServedCode(n)' # None
    <3>1. /\ ServedCode(n) = func[i].code /\ func[i].code # None
          /\ Clouded(n) <=> NamePurgedSince(i)
      BY <2>2, LinkedOne DEF EngineInv
    <3>2. CASE Gone(i)
      <4>1. \A j \in FuncIds : owner'[j] = "linked" => func[j].name # n
        BY <1>1, <2>2, <3>2 DEF EngineInv, LinkInv, UniqueNames
      <4>2. ServedCode(n)' = None /\ ~Clouded(n)'
        BY <1>1, <4>1, LinkedNext
      <4>3. QED
        BY <3>1, <3>2, <4>2
    <3>3. CASE ~Gone(i)
      <4>1. owner'[i] = "linked"
        BY <1>1, <2>2, <3>3
      <4>2. ServedCode(n)' = func[i].code /\ (Clouded(n)' <=> NamePurgedSince(i)')
        BY <1>1, <2>2, <4>1, LinkedNext
      <4>3. QED
        BY <1>2, <2>2, <3>1, <3>3, <4>2
    <3>4. QED
      BY <3>2, <3>3
  <2>3. QED
    BY <2>1, <2>2
<1>4. KeptScripts' = KeptScripts
  BY <1>1 DEF KeptScripts, Owned
<1>5. QED
  BY <1>1, <1>3, <1>4 DEF Service!Remove, Service!NoAnswer, AnswerOf, Clouded, KeptScripts

\* A reset of the functions, or of functions and scripts.
LEMMA RemoveAllStep ==
    ASSUME UniqueNames', \A i \in FuncIds : owner'[i] # "linked", reply' = NoReply
    PROVE  /\ KeptScripts' = KeptScripts => Service!RemoveAll(KeptScripts)
           /\ KeptScripts' = {} => Service!RemoveAll({})
<1>1. \A n \in Names : ServedCode(n)' = None /\ ~Clouded(n)'
  BY LinkedNext
<1>2. QED
  BY <1>1 DEF Service!RemoveAll, Service!NoAnswer, AnswerOf, Clouded, KeptScripts

\* A step that only makes or frees scripts.
LEMMA ScriptsFrame ==
    ASSUME EngineInv,
           \A i \in FuncIds : \/ owner'[i] = owner[i] /\ func'[i] = func[i]
                              \/ owner[i] = "unused" /\ owner'[i] = "script"
                              \/ owner[i] = "script" /\ owner'[i] = "freed" /\ func'[i] = func[i]
    PROVE  \A n \in Names : ServedCode(n)' = ServedCode(n) /\ (Clouded(n)' <=> Clouded(n))
<1>1. \A i \in FuncIds : owner'[i] = "linked" <=> owner[i] = "linked"
  OBVIOUS
<1>2. \A i \in FuncIds : owner[i] = "linked" => func'[i] = func[i]
  OBVIOUS
<1>3. ASSUME NEW i \in FuncIds, owner[i] = "linked"
      PROVE  NamePurgedSince(i)' <=> NamePurgedSince(i)
  <2>1. func'[i] = func[i] /\ func[i].name # None
    BY <1>3, NoneAssumption DEF EngineInv, LinkInv, TypeInv, Kinds
  <2>2. \A j \in FuncIds : owner[j] = "script" => func[j].name = None
    BY DEF EngineInv, LoadInv, Scripted, Owned
  <2>3. QED
    BY <2>1, <2>2 DEF NamePurgedSince, Owned
<1>4. QED
  BY <1>1, <1>2, <1>3, ServedFrame

LEMMA CompileScriptStep ==
    ASSUME EngineInv, NEW s \in Scripts, CompileScript(s)
    PROVE  Service!SetScripts(KeptScripts \cup {s})
<1>1. PICK new \in FuncIds :
          /\ owner[new] = "unused" /\ owner'[new] = "script"
          /\ func'[new].code = s
          /\ \A i \in FuncIds : i # new => owner'[i] = owner[i] /\ func'[i] = func[i]
          /\ reply' = NoReply
  BY BoundsAssumption
  DEF CompileScript, EngineInv, LinkInv, IdsUsed, TypeInv, TypeOK, FuncIds
<1>2. \A n \in Names : ServedCode(n)' = ServedCode(n) /\ (Clouded(n)' <=> Clouded(n))
  BY <1>1, ScriptsFrame
<1>3. KeptScripts' = KeptScripts \cup {s}
  BY <1>1 DEF KeptScripts, Owned
<1>4. QED
  BY <1>1, <1>2, <1>3 DEF Service!SetScripts, Service!NoAnswer, AnswerOf, Clouded, KeptScripts

LEMMA FreeScriptStep ==
    ASSUME EngineInv, NEW i \in FuncIds, FreeScript(i), NEW s \in Scripts, s = func[i].code
    PROVE  Service!SetScripts(KeptScripts \ {s})
<1>1. /\ owner[i] = "script" /\ owner'[i] = "freed"
      /\ \A j \in FuncIds : j # i => owner'[j] = owner[j]
      /\ UNCHANGED func /\ reply' = NoReply
  BY DEF FreeScript, EngineInv, LinkInv, TypeInv, TypeOK
<1>2. \A n \in Names : ServedCode(n)' = ServedCode(n) /\ (Clouded(n)' <=> Clouded(n))
  BY <1>1, ScriptsFrame
<1>3. KeptScripts' = KeptScripts \ {s}
  BY <1>1 DEF KeptScripts, Owned, EngineInv, LoadInv, Scripted
<1>4. QED
  BY <1>1, <1>2, <1>3 DEF Service!SetScripts, Service!NoAnswer, AnswerOf, Clouded, KeptScripts

LEMMA ResetScriptsStep ==
    ASSUME EngineInv, ResetScripts
    PROVE  Service!SetScripts({})
<1>1. /\ \A i \in FuncIds : owner'[i] = IF owner[i] = "script" THEN "freed" ELSE owner[i]
      /\ UNCHANGED func /\ reply' = NoReply
  BY DEF ResetScripts
<1>2. \A n \in Names : ServedCode(n)' = ServedCode(n) /\ (Clouded(n)' <=> Clouded(n))
  BY <1>1, ScriptsFrame
<1>3. KeptScripts' = {}
  BY <1>1 DEF KeptScripts, Owned
<1>4. QED
  BY <1>1, <1>2, <1>3 DEF Service!SetScripts, Service!NoAnswer, AnswerOf, Clouded, KeptScripts

\* A call answers with the called function's own source, or with an error
\* the service allows: the source does not run, or a refused load used the
\* function's name.
LEMMA AnswerStep ==
    ASSUME LoadAllSources, EngineInv, CallInv', TypeInv',
           NEW u \in Users, NEW i \in FuncIds, Fcall(u, i)
    PROVE  Service!Call(func[i].name)
<1>1. owner[i] = "linked" /\ UNCHANGED <<func, owner>>
  BY DEF Fcall, FcallHit, FcallLibraryMissing, FcallCompileError, FcallNotFound, FcallMiss,
     CallStarts, hostVars
<1>2. /\ func[i].name \in Names /\ func[i].code \in Codes /\ i \in Nat /\ i # 0
      /\ libraries[func[i].lib] # NoLib /\ libraries[func[i].lib].code = func[i].code
      /\ None \notin Names
  BY <1>1, IdTypes, NoneAssumption
  DEF EngineInv, LinkInv, TypeInv, Kinds, RefInv, HeldLibrary
<1>3. /\ ServedCode(func[i].name) = func[i].code /\ func[i].code # None
      /\ Clouded(func[i].name) <=> NamePurgedSince(i)
  BY <1>1, LinkedOne DEF EngineInv
<1>4. \/ reply' = [id |-> i, out |-> func[i].code]
      \/ /\ func[i].code \notin Runs \/ NamePurgedSince(i)
         /\ \E e \in Failures : reply' = [id |-> i, out |-> e]
  <2>1. ASSUME NEW b \in Codes, reply' = [id |-> i, out |-> b]
        PROVE  reply' = [id |-> i, out |-> func[i].code]
    BY <1>1, <2>1 DEF CallInv, AnswersOwnBody, Bodies
  <2>2. CASE FcallHit(u, i)
    <3>1. funcCache[u][i] \in Codes
      BY <2>2 DEF FcallHit, EngineInv, LinkInv, TypeInv, TypeOK
    <3>2. QED
      BY <2>1, <2>2, <3>1 DEF FcallHit
  <2>3. CASE FcallLibraryMissing(u, i)
    BY <1>2, <2>3 DEF FcallLibraryMissing
  <2>4. CASE FcallCompileError(u, i)
    BY <1>2, <2>4 DEF FcallCompileError, Failures
  <2>5. CASE FcallNotFound(u, i)
    <3>1. LookupTable(u, i)[func[i].name] = None /\ reply' = [id |-> i, out |-> "not_found"]
      BY <2>5 DEF FcallNotFound
    <3>2. CASE func[i].lib \in compiled[u]
      BY <1>1, <3>1, <3>2 DEF LookupTable, EngineInv, RegisteredUnlessPurged, Owned, Failures
    <3>3. CASE func[i].lib \notin compiled[u]
      <4>1. func[i].code \in Runs
        BY <1>2, <2>5, <3>3 DEF FcallNotFound, LibraryReady
      <4>2. func[i].name \in Defines[func[i].code]
        BY <1>1, <4>1 DEF EngineInv, LoadInv, OwnNames, LoadAllSources
      <4>3. LookupTable(u, i)[func[i].name] = func[i].code
        BY <1>2, <3>3, <4>2 DEF LookupTable, Registered
      <4>4. QED
        BY <1>3, <3>1, <4>3
    <3>4. QED
      BY <3>2, <3>3
  <2>6. CASE FcallMiss(u, i)
    <3>1. funcCache'[u][i] = LookupTable(u, i)[func[i].name]
      BY <2>6 DEF FcallMiss, EngineInv, LinkInv, TypeInv, TypeOK
    <3>2. LookupTable(u, i)[func[i].name] \in Codes
      BY <2>6, <3>1 DEF FcallMiss, TypeInv, TypeOK
    <3>3. QED
      BY <2>1, <2>6, <3>2 DEF FcallMiss
  <2>7. QED
    BY <2>2, <2>3, <2>4, <2>5, <2>6 DEF Fcall
<1>5. \A n \in Names : ServedCode(n)' = ServedCode(n) /\ (Clouded(n)' <=> Clouded(n))
  BY <1>1, ServedFrame DEF NamePurgedSince, Owned
<1>6. KeptScripts' = KeptScripts
  BY <1>1 DEF KeptScripts, Owned
<1>7. \/ AnswerOf(reply)' = [to |-> func[i].name, out |-> func[i].code]
      \/ /\ func[i].code \notin Runs \/ Clouded(func[i].name)
         /\ AnswerOf(reply)' = [to |-> func[i].name, out |-> "error"]
  <2>1. func[i].code \notin Failures
    BY <1>2, NoneAssumption DEF Bodies
  <2>2. reply'.id = i /\ reply' # NoReply
    BY <1>2, <1>4 DEF NoReply
  <2>3. AnswerOf(reply)' = [to  |-> func[i].name,
                            out |-> IF reply'.out \in Failures THEN "error" ELSE reply'.out]
    BY <1>1, <1>2, <2>2 DEF AnswerOf
  <2>4. QED
    BY <1>3, <1>4, <2>1, <2>3
<1>8. QED
  BY <1>2, <1>3, <1>5, <1>6, <1>7 DEF Service!Call, Clouded, KeptScripts

LEMMA EvaluateStep ==
    ASSUME EngineInv, NEW u \in Users, NEW i \in FuncIds, Eval(u, i)
    PROVE  Service!Evaluate(func[i].code)
<1>1. owner[i] = "script" /\ UNCHANGED <<func, owner>>
  BY DEF Eval, hostVars
<1>2. func[i].name = None /\ func[i].code \in Scripts /\ i # 0 /\ func[i].code \in KeptScripts
  BY <1>1, IdTypes
  DEF EngineInv, LoadInv, Scripted, Owned, LinkInv, TypeInv, Kinds, KeptScripts
<1>3. reply' = [id |-> i, out |-> func[i].code]
  BY DEF Eval, EngineInv, CallInv, CacheSound
<1>4. \A n \in Names : ServedCode(n)' = ServedCode(n) /\ (Clouded(n)' <=> Clouded(n))
  BY <1>1, ServedFrame DEF NamePurgedSince, Owned
<1>5. KeptScripts' = KeptScripts
  BY <1>1 DEF KeptScripts, Owned
<1>6. AnswerOf(reply)' = [to |-> func[i].code, out |-> func[i].code]
  <2>1. func[i].code \notin Failures
    BY <1>2, NoneAssumption DEF Bodies
  <2>2. reply'.id = i /\ reply'.out = func[i].code /\ reply' # NoReply
    BY <1>2, <1>3 DEF NoReply
  <2>3. QED
    BY <1>1, <1>2, <2>1, <2>2 DEF AnswerOf
<1>7. QED
  BY <1>2, <1>4, <1>5, <1>6 DEF Service!Evaluate, Clouded, KeptScripts

LEMMA ServiceStep ==
    ASSUME LoadOnlySources, LoadAllSources, EngineInv, [Next]_vars
    PROVE  [Service!Next]_(Service!vars)
<1>1. TypeInv' /\ UniqueNames' /\ CallInv'
  BY LinkStep, CallStep DEF EngineInv, NextLazy, LinkInv
<1>2. ASSUME NEW c \in Codes, CompileLibrary(c) PROVE Service!Next
  BY <1>2, CompileLibraryStep DEF Service!Next
<1>3. ASSUME NEW s \in Scripts, CompileScript(s) PROVE Service!Next
  BY <1>3, CompileScriptStep DEF Service!Next, KeptScripts
<1>4. CASE Link
  BY <1>1, <1>4, InstallStep DEF Service!Next
<1>5. CASE Reject
  BY <1>1, <1>5, RefuseStep DEF Service!Next
<1>6. ASSUME NEW ln \in LibNames, DeleteLibrary(ln) PROVE Service!Next
  BY <1>1, <1>6, RemoveStep DEF Service!Next
<1>7. ASSUME NEW i \in FuncIds, Free(i) PROVE Service!Next
  BY <1>7, FreeStep DEF Service!Next
<1>8. ASSUME NEW i \in FuncIds, FreeScript(i) PROVE Service!Next
  <2>1. PICK s \in Scripts : s = func[i].code
    BY <1>8 DEF FreeScript, EngineInv, LinkInv, TypeInv, Kinds
  <2>2. Service!SetScripts(KeptScripts \ {s})
    BY <1>8, <2>1, FreeScriptStep
  <2>3. QED
    BY <2>2 DEF Service!Next, KeptScripts
<1>9. ASSUME NEW u \in Users, NEW i \in FuncIds, Fcall(u, i) PROVE Service!Next
  <2>1. Service!Call(func[i].name)
    BY <1>1, <1>9, AnswerStep
  <2>2. func[i].name \in Names
    BY <1>9 DEF Fcall, FcallHit, FcallLibraryMissing, FcallCompileError, FcallNotFound,
       FcallMiss, CallStarts, EngineInv, LinkInv, TypeInv, Kinds
  <2>3. QED
    BY <2>1, <2>2 DEF Service!Next
<1>10. ASSUME NEW u \in Users, NEW i \in FuncIds, Eval(u, i) PROVE Service!Next
  <2>1. func[i].code \in Scripts
    BY <1>10 DEF Eval, EngineInv, LinkInv, TypeInv, Kinds
  <2>2. QED
    BY <1>10, <2>1, EvaluateStep DEF Service!Next
<1>11. CASE ResetFunctions("doomed")
  <2>1. /\ \A i \in FuncIds : owner'[i] = IF owner[i] = "linked" THEN "doomed" ELSE owner[i]
        /\ UNCHANGED func /\ reply' = NoReply
    BY <1>11 DEF ResetFunctions
  <2>2. KeptScripts' = KeptScripts
    BY <2>1 DEF KeptScripts, Owned
  <2>3. Service!RemoveAll(KeptScripts)
    BY <1>1, <2>1, <2>2, RemoveAllStep
  <2>4. QED
    BY <2>3 DEF Service!Next, KeptScripts
<1>12. CASE ResetAll
  <2>1. /\ \A i \in FuncIds : owner'[i] \notin {"linked", "script"}
        /\ reply' = NoReply
    BY <1>12 DEF ResetAll
  <2>2. KeptScripts' = {}
    BY <2>1 DEF KeptScripts, Owned
  <2>3. Service!RemoveAll({})
    BY <1>1, <2>1, <2>2, RemoveAllStep
  <2>4. QED
    BY <2>3 DEF Service!Next
<1>13. CASE ResetScripts
  BY <1>13, ResetScriptsStep DEF Service!Next
<1>14. CASE UNCHANGED vars
  <2>1. UNCHANGED <<func, owner, reply>>
    BY <1>14 DEF vars, hostVars
  <2>2. \A n \in Names : ServedCode(n)' = ServedCode(n) /\ (Clouded(n)' <=> Clouded(n))
    BY <2>1, ServedFrame DEF NamePurgedSince, Owned
  <2>3. KeptScripts' = KeptScripts
    BY <2>1 DEF KeptScripts, Owned
  <2>4. AnswerOf(reply)' = AnswerOf(reply)
    BY <2>1 DEF AnswerOf
  <2>5. QED
    BY <2>2, <2>3, <2>4 DEF Service!vars, Clouded, KeptScripts
<1>15. QED
  BY <1>2, <1>3, <1>4, <1>5, <1>6, <1>7, <1>8, <1>9, <1>10, <1>11, <1>12, <1>13, <1>14 DEF Next

LEMMA ServiceInit == Init => Service!Init
<1> SUFFICES ASSUME Init PROVE Service!Init
  OBVIOUS
<1>1. \A o \in {"linked", "script"} : Owned(o) = {}
  BY DEF Init, Owned
<1>2. \A n \in Names : LinkedAs(n) = {}
  BY <1>1 DEF LinkedAs
<1>3. \A n \in Names : ServedCode(n) = None /\ ~Clouded(n)
  BY <1>2, LinkedNone
<1>4. AnswerOf(reply) = [to |-> None, out |-> None]
  BY DEF Init, AnswerOf
<1>5. QED
  BY <1>1, <1>3, <1>4 DEF Service!Init, Service!NoAnswer, Clouded

LEMMA SpecEngineInv ==
    ASSUME LoadOnlySources, LoadAllSources
    PROVE  Spec => []EngineInv
<1>1. Spec => SpecLazy
  <2>1. [Next]_vars => [NextLazy]_vars
    BY DEF NextLazy
  <2>2. QED
    BY <2>1, PTL DEF Spec, SpecLazy
<1>2. RefInv /\ LinkInv /\ LoadInv /\ CallInv /\ RegisteredUnlessPurged => EngineInv
  BY DEF EngineInv
<1>3. QED
  BY <1>1, <1>2, SpecRefInv, SpecLoadInv, SpecCallInv, RegisteredOnceCompiled, PTL

\* The engine implements the service it promises: loads and deletions take
\* effect whole, a call is answered with the source that is served under the
\* name, and errors are confined to sources that do not run and to names that
\* a refused load has used.
THEOREM EngineImplementsService ==
    ASSUME LoadOnlySources, LoadAllSources
    PROVE  Spec => ImplementsService
<1>1. EngineInv /\ [Next]_vars => [Service!Next]_(Service!vars)
  BY ServiceStep
<1>2. QED
  BY SpecEngineInv, ServiceInit, <1>1, PTL DEF Spec, ImplementsService, Service!Spec
=============================================================================
