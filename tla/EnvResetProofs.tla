--------------------------- MODULE EnvResetProofs ---------------------------
(***************************************************************************)
(* Proofs about EnvReset: every Lua state has one owner, and the engine's  *)
(* names are registered while its context exists.                          *)
(***************************************************************************)
EXTENDS EnvReset, SequenceTheorems, TLAPS

-----------------------------------------------------------------------------
(* The states.                                                             *)

StatesTyped ==
    /\ current \in [Slots -> {NoState} \cup 1..MaxOpen]
    /\ callbacks \subseteq (SUBSET States) \ {{}}

StatesInv == StatesTyped /\ OneOwner

\* A step that gives some slots fresh states and empties others.
Given(fresh, emptied) ==
    current' = [s \in Slots |-> IF s \in fresh THEN Fresh(s)
                                ELSE IF s \in emptied THEN NoState ELSE current[s]]

LEMMA SlotsExist ==
    /\ CompileSlot \in Slots
    /\ UserSlots \subseteq Slots
    /\ CompileSlot \notin UserSlots
BY DEF Slots, UserSlots, CompileSlot, Kinds

LEMMA EntriesOfKind ==
    ASSUME NEW k \in Kinds
    PROVE  Entries({k}) \subseteq UserSlots
BY DEF Entries, UserSlots

LEMMA FreshIsFree ==
    ASSUME NEW STATE ss, HasRoom(ss), NEW s \in ss
    PROVE  Fresh(s) \in 1..MaxOpen /\ <<s, Fresh(s)>> \notin open
<1>1. \E g \in 1..MaxOpen : <<s, g>> \notin open
  BY DEF HasRoom
<1> QED
  BY <1>1 DEF Fresh

LEMMA HeldMember ==
    ASSUME NEW STATE ss, NEW x
    PROVE  x \in Held(ss) <=> \E s \in ss : current[s] # NoState /\ x = <<s, current[s]>>
BY DEF Held

LEMMA HeldSplit ==
    ASSUME NEW STATE ss, NEW STATE tt, NEW STATE both, both = ss \cup tt, ss \cap tt = {}
    PROVE  Held(ss) \cup Held(tt) = Held(both) /\ Held(ss) \cap Held(tt) = {}
<1>1. ASSUME NEW x
      PROVE  /\ x \in Held(ss) \/ x \in Held(tt) <=> x \in Held(both)
             /\ ~(x \in Held(ss) /\ x \in Held(tt))
  <2>1. x \in Held(ss) <=> \E s \in ss : current[s] # NoState /\ x = <<s, current[s]>>
    BY HeldMember
  <2>2. x \in Held(tt) <=> \E s \in tt : current[s] # NoState /\ x = <<s, current[s]>>
    BY HeldMember
  <2>3. x \in Held(both) <=> \E s \in both : current[s] # NoState /\ x = <<s, current[s]>>
    BY HeldMember
  <2> QED
    BY <2>1, <2>2, <2>3
<1> QED
  BY <1>1

\* What is held after such a step.
LEMMA HeldAfter ==
    ASSUME StatesTyped,
           NEW STATE fresh, fresh \subseteq Slots,
           NEW STATE emptied, emptied \subseteq Slots,
           HasRoom(fresh), Given(fresh, emptied)
    PROVE  /\ current' \in [Slots -> {NoState} \cup 1..MaxOpen]
           /\ Created(fresh) \cap open = {}
           /\ Held(Slots)' = (Held(Slots) \ Held(fresh \cup emptied)) \cup Created(fresh)
<1>1. \A s \in fresh : Fresh(s) \in 1..MaxOpen /\ <<s, Fresh(s)>> \notin open
  BY FreshIsFree
<1>2. current' \in [Slots -> {NoState} \cup 1..MaxOpen]
  BY <1>1 DEF Given, StatesTyped
<1>3. Created(fresh) \cap open = {}
  BY <1>1 DEF Created
<1>4. \A s \in Slots : current'[s] = IF s \in fresh THEN Fresh(s)
                                     ELSE IF s \in emptied THEN NoState ELSE current[s]
  BY DEF Given
<1>5. \A s \in fresh : Fresh(s) # NoState
  <2>1. 0 \notin 1..MaxOpen
    BY NamesAssumption
  <2> QED
    BY <1>1, <2>1 DEF NoState
<1>6. ASSUME NEW x
      PROVE  x \in Held(Slots)' <=> x \in (Held(Slots) \ Held(fresh \cup emptied)) \cup Created(fresh)
  <2>1. x \in Held(Slots)' <=> \E s \in Slots : current'[s] # NoState /\ x = <<s, current'[s]>>
    BY DEF Held
  <2>2. x \in Created(fresh) <=> \E s \in fresh : x = <<s, Fresh(s)>>
    BY DEF Created
  <2>3. x \in Held(Slots) \ Held(fresh \cup emptied) <=>
          \E s \in Slots \ (fresh \cup emptied) : current[s] # NoState /\ x = <<s, current[s]>>
    BY HeldMember
  <2>4. x \in Held(Slots)' <=>
          \/ \E s \in fresh : x = <<s, Fresh(s)>>
          \/ \E s \in Slots \ (fresh \cup emptied) : current[s] # NoState /\ x = <<s, current[s]>>
    BY <2>1, <1>4, <1>5
  <2> QED
    BY <2>2, <2>3, <2>4
<1> QED
  BY <1>2, <1>3, <1>6

\* Held states are of the type a callback is given.
LEMMA HeldTyped ==
    ASSUME StatesTyped, NEW STATE ss, ss \subseteq Slots
    PROVE  Held(ss) \subseteq States /\ Held(ss) \subseteq Held(Slots)
BY NamesAssumption DEF Held, States, StatesTyped, NoState

\* Such a step keeps every state owned once, if what it takes out of the slots
\* is closed or handed to a callback.
LEMMA Detaching ==
    ASSUME StatesInv,
           NEW STATE fresh, fresh \subseteq Slots,
           NEW STATE emptied, emptied \subseteq Slots,
           HasRoom(fresh), Given(fresh, emptied),
           NEW STATE old, NEW STATE closed, NEW async \in BOOLEAN,
           old \cup closed = Held(fresh \cup emptied), old \cap closed = {},
           Detach(old, async, closed, Created(fresh))
    PROVE  StatesInv'
<1> DEFINE taken == Held(fresh \cup emptied)
           made == Created(fresh)
<1>1. /\ current' \in [Slots -> {NoState} \cup 1..MaxOpen]
      /\ made \cap open = {}
      /\ Held(Slots)' = (Held(Slots) \ taken) \cup made
  BY HeldAfter DEF StatesInv
<1>2. taken \subseteq States /\ taken \subseteq Held(Slots)
  BY HeldTyped DEF StatesInv
<1>3. /\ open = Held(Slots) \cup UNION callbacks
      /\ \A cb \in callbacks : cb \cap Held(Slots) = {}
      /\ \A c, d \in callbacks : c # d => c \cap d = {}
      /\ callbacks \subseteq (SUBSET States) \ {{}}
  BY DEF StatesInv, StatesTyped, OneOwner
<1>4. open' = (open \ (closed \cup IF async THEN {} ELSE old)) \cup made
  BY DEF Detach
<1>5. CASE async /\ old # {}
  <2>1. callbacks' = callbacks \cup {old}
    BY <1>5 DEF Detach
  <2>2. open' = (open \ closed) \cup made
    BY <1>4, <1>5
  <2>3. old \subseteq States /\ old \subseteq Held(Slots) /\ old \cap Held(Slots)' = {}
    <3>1. old \subseteq taken
      OBVIOUS
    <3>2. old \subseteq Held(Slots) /\ Held(Slots) \subseteq open
      BY <3>1, <1>2, <1>3
    <3>3. old \cap made = {}
      BY <3>2, <1>1
    <3>4. old \cap Held(Slots)' = {}
      BY <3>1, <3>3, <1>1
    <3> HIDE DEF taken, made
    <3> QED
      BY <3>1, <3>2, <3>4, <1>2
  <2>4. \A cb \in callbacks : cb \cap Held(Slots)' = {} /\ cb \cap old = {}
    <3> TAKE cb \in callbacks
    <3>1. cb \subseteq open
      BY <1>3
    <3>2. cb \cap made = {}
      BY <3>1, <1>1
    <3> QED
      BY <3>2, <1>1, <1>3, <2>3
  <2>5. open' = Held(Slots)' \cup UNION callbacks'
    <3> SUFFICES ASSUME NEW x
                 PROVE  x \in open' <=> x \in Held(Slots)' \cup UNION callbacks'
      OBVIOUS
    <3>1. x \in UNION callbacks' <=> x \in old \/ \E cb \in callbacks : x \in cb
      BY <2>1
    <3>2. x \in open <=> x \in Held(Slots) \/ \E cb \in callbacks : x \in cb
      BY <1>3
    <3>3. x \in closed => x \in Held(Slots) /\ ~\E cb \in callbacks : x \in cb
      <4>1. x \in closed => x \in taken
        OBVIOUS
      <4>2. x \in taken => x \in Held(Slots)
        BY <1>2
      <4>3. \A cb \in callbacks : ~(x \in cb /\ x \in Held(Slots))
        BY <1>3
      <4> QED
        BY <4>1, <4>2, <4>3
    <3>4. x \in taken <=> x \in old \/ x \in closed
      OBVIOUS
    <3>5. x \in made => x \notin open
      BY <1>1
    <3>6. x \in old => x \notin closed /\ x \in Held(Slots)
      BY <1>2
    <3>7. x \in open' <=> (x \in open /\ x \notin closed) \/ x \in made
      BY <2>2
    <3>8. x \in Held(Slots)' <=> (x \in Held(Slots) /\ x \notin taken) \/ x \in made
      BY <1>1
    <3> HIDE DEF taken, made
    <3> QED
      BY <3>1, <3>2, <3>3, <3>4, <3>5, <3>6, <3>7, <3>8
  <2>6. callbacks' \subseteq (SUBSET States) \ {{}}
    BY <2>1, <2>3, <1>3, <1>5
  <2>7. \A cb \in callbacks' : cb \cap Held(Slots)' = {}
    BY <2>1, <2>3, <2>4
  <2>8. \A c, d \in callbacks' : c # d => c \cap d = {}
    BY <2>1, <2>4, <1>3
  <2> QED
    BY <1>1, <2>5, <2>6, <2>7, <2>8 DEF StatesInv, StatesTyped, OneOwner
<1>6. CASE ~(async /\ old # {})
  <2>1. callbacks' = callbacks
    BY <1>6 DEF Detach
  <2>2. open' = (open \ taken) \cup made
    BY <1>4, <1>6
  <2>3. \A cb \in callbacks : cb \cap Held(Slots)' = {} /\ cb \cap taken = {}
    <3> TAKE cb \in callbacks
    <3>1. cb \subseteq open
      BY <1>3
    <3>2. cb \cap made = {}
      BY <3>1, <1>1
    <3>3. cb \cap Held(Slots) = {}
      BY <1>3
    <3>4. Held(Slots)' \subseteq Held(Slots) \cup made
      BY <1>1
    <3>5. cb \cap Held(Slots)' = {}
      BY <3>2, <3>3, <3>4
    <3>6. cb \cap taken = {}
      BY <3>3, <1>2
    <3> QED
      BY <3>5, <3>6
  <2>4. open' = Held(Slots)' \cup UNION callbacks
    <3> SUFFICES ASSUME NEW x
                 PROVE  x \in open' <=> x \in Held(Slots)' \/ x \in UNION callbacks
      OBVIOUS
    <3>1. x \in open <=> x \in Held(Slots) \/ x \in UNION callbacks
      BY <1>3
    <3>2. x \in taken => x \notin UNION callbacks
      BY <2>3
    <3>3. x \in open' <=> (x \in open /\ x \notin taken) \/ x \in made
      BY <2>2
    <3>4. x \in Held(Slots)' <=> (x \in Held(Slots) /\ x \notin taken) \/ x \in made
      BY <1>1
    <3>5. x \in made => x \notin open
      BY <1>1
    <3>6. x \in taken => x \in Held(Slots)
      BY <1>2
    <3> HIDE DEF taken, made
    <3> QED
      BY <3>1, <3>2, <3>3, <3>4, <3>5, <3>6
  <2> QED
    BY <1>1, <1>3, <2>1, <2>3, <2>4 DEF StatesInv, StatesTyped, OneOwner
<1> QED
  BY <1>5, <1>6

LEMMA NothingHeld == Held({}) = {}
BY DEF Held

\* Slots that get their first state.
LEMMA Creating ==
    ASSUME StatesInv, NEW STATE fresh, fresh \subseteq Slots, HasRoom(fresh), Held(fresh) = {},
           current' = [s \in Slots |-> IF s \in fresh THEN Fresh(s) ELSE current[s]],
           open' = open \cup Created(fresh),
           callbacks' = callbacks
    PROVE  StatesInv'
<1>1. Given(fresh, {})
  BY DEF Given
<1>2. Detach({}, FALSE, {}, Created(fresh))
  BY DEF Detach
<1>3. {} \cup {} = Held(fresh \cup {}) /\ {} \cap {} = {}
  OBVIOUS
<1> QED
  BY <1>1, <1>2, <1>3, Detaching

LEMMA Destroying ==
    ASSUME StatesInv, DestroyContext, callbacks' = callbacks
    PROVE  StatesInv'
<1>1. Given({}, Slots)
  BY DEF Given, DestroyContext, Empty
<1>2. Created({}) = {}
  BY DEF Created
<1>3. Detach({}, FALSE, Held(Slots), Created({}))
  BY <1>2 DEF Detach, DestroyContext
<1>4. HasRoom({})
  BY DEF HasRoom
<1>5. {} \cup Held(Slots) = Held({} \cup Slots) /\ {} \cap Held(Slots) = {}
  OBVIOUS
<1> QED
  BY <1>1, <1>3, <1>4, <1>5, Detaching

LEMMA Running ==
    ASSUME StatesInv, NEW cb \in callbacks, RunCallback(cb)
    PROVE  StatesInv'
<1>1. Held(Slots)' = Held(Slots)
  BY DEF RunCallback, Held
<1>2. /\ open = Held(Slots) \cup UNION callbacks
      /\ \A c \in callbacks : c \cap Held(Slots) = {}
      /\ \A c, d \in callbacks : c # d => c \cap d = {}
  BY DEF StatesInv, OneOwner
<1>3. ASSUME NEW x
      PROVE  x \in open' <=> x \in Held(Slots) \/ \E c \in callbacks' : x \in c
  <2>1. x \in open' <=> x \in open /\ x \notin cb
    BY DEF RunCallback
  <2>2. x \in open <=> x \in Held(Slots) \/ \E c \in callbacks : x \in c
    BY <1>2
  <2>3. x \in cb => x \notin Held(Slots) /\ \A c \in callbacks : x \in c => c = cb
    BY <1>2
  <2>4. (\E c \in callbacks' : x \in c) <=> \E c \in callbacks : c # cb /\ x \in c
    BY DEF RunCallback
  <2> QED
    BY <2>1, <2>2, <2>3, <2>4
<1>4. open' = Held(Slots)' \cup UNION callbacks'
  BY <1>1, <1>3
<1>5. callbacks' \subseteq callbacks /\ current' = current
  BY DEF RunCallback
<1> QED
  BY <1>1, <1>2, <1>4, <1>5 DEF StatesInv, StatesTyped, OneOwner

\* Resets take the users' states and the compile state out of their slots.
LEMMA Resetting ==
    ASSUME StatesInv, NEW k \in Kinds, NEW async \in BOOLEAN, ResetKind(k, async)
    PROVE  StatesInv'
<1>1. Entries({k}) \cup {CompileSlot} \subseteq Slots /\ {} \subseteq Slots
  BY SlotsExist, EntriesOfKind
<1>2. HasRoom(Entries({k}) \cup {CompileSlot})
  BY DEF ResetKind
<1>3. Given(Entries({k}) \cup {CompileSlot}, {})
  BY DEF ResetKind, Given
<1>4. Detach(Held(Entries({k})), async, Held({CompileSlot}), Created(Entries({k}) \cup {CompileSlot}))
  BY DEF ResetKind
<1>5. Entries({k}) \cap {CompileSlot} = {}
  BY SlotsExist, EntriesOfKind
<1>6. /\ Held(Entries({k})) \cup Held({CompileSlot}) = Held(Entries({k}) \cup {CompileSlot})
      /\ Held(Entries({k})) \cap Held({CompileSlot}) = {}
  BY <1>5, HeldSplit
<1>7. Held((Entries({k}) \cup {CompileSlot}) \cup {}) = Held(Entries({k}) \cup {CompileSlot})
  BY DEF Held
<1> QED
  BY <1>1, <1>2, <1>3, <1>4, <1>6, <1>7, Detaching

LEMMA ResettingAll ==
    ASSUME StatesInv, NEW async \in BOOLEAN, ResetAll(async)
    PROVE  StatesInv'
<1>1. {CompileSlot} \subseteq Slots /\ UserSlots \subseteq Slots
  BY SlotsExist
<1>2. HasRoom({CompileSlot})
  BY DEF ResetAll
<1>3. Given({CompileSlot}, UserSlots)
  <2>1. \A s \in Slots : s = CompileSlot \/ s \in UserSlots
    BY DEF Slots
  <2> QED
    BY <2>1 DEF ResetAll, Given, Empty
<1>4. Detach(Held(UserSlots), async, Held({CompileSlot}), Created({CompileSlot}))
  BY DEF ResetAll
<1>5. UserSlots \cap {CompileSlot} = {}
  BY SlotsExist
<1>6. {CompileSlot} \cup UserSlots = UserSlots \cup {CompileSlot}
  OBVIOUS
<1>7. /\ Held(UserSlots) \cup Held({CompileSlot}) = Held({CompileSlot} \cup UserSlots)
      /\ Held(UserSlots) \cap Held({CompileSlot}) = {}
  BY <1>5, <1>6, HeldSplit
<1> QED
  BY <1>1, <1>2, <1>3, <1>4, <1>7, Detaching

LEMMA Loading ==
    ASSUME StatesInv, CreateContext, current[CompileSlot] = NoState
    PROVE  StatesInv'
<1>1. HasRoom({CompileSlot}) /\ {CompileSlot} \subseteq Slots
  BY SlotsExist DEF CreateContext
<1>2. Held({CompileSlot}) = {}
  BY DEF CreateContext, Held
<1>3. current' = [s \in Slots |-> IF s \in {CompileSlot} THEN Fresh(s) ELSE current[s]]
  BY SlotsExist DEF CreateContext, StatesInv, StatesTyped
<1>4. open' = open \cup Created({CompileSlot}) /\ callbacks' = callbacks
  BY DEF CreateContext
<1> QED
  BY <1>1, <1>2, <1>3, <1>4, Creating

LEMMA Calling ==
    ASSUME StatesInv, NEW u \in Users, FirstCall(u)
    PROVE  StatesInv'
<1>1. HasRoom({u} \X Kinds) /\ Held({u} \X Kinds) = {}
  BY DEF FirstCall
<1>2. {u} \X Kinds \subseteq Slots
  BY DEF Slots, UserSlots
<1>3. /\ current' = [s \in Slots |-> IF s \in {u} \X Kinds THEN Fresh(s) ELSE current[s]]
      /\ open' = open \cup Created({u} \X Kinds)
      /\ callbacks' = callbacks
  BY DEF FirstCall
<1> QED
  BY <1>1, <1>2, <1>3, Creating

-----------------------------------------------------------------------------
(* The names.                                                              *)

\* The places in the table whose names the server holds for the context.
Claimed == IF phase = "registering" THEN 1..next - 1
           ELSE IF phase = "serving" THEN DOMAIN names ELSE {}

\* The server holds the context under these names and no others; without a
\* context there are no states in the slots.
NamesInv ==
    /\ phase \in {"unloaded", "created", "registering", "serving"}
    /\ names \in Seq(EngineNames)
    /\ Len(names) <= MaxNames
    /\ next \in 1..MaxNames + 1
    /\ registered \in [EngineNames -> {"nobody", "other", "ours"}]
    /\ Claimed \subseteq DOMAIN names
    /\ \A n \in EngineNames : registered[n] = "ours" <=> \E j \in Claimed : names[j] = n
    /\ phase = "unloaded" => current = Empty

Inv == StatesInv /\ NamesInv

LEMMA TakingBack ==
    ASSUME NamesInv, NEW STATE ns, ns = {names[j] : j \in Claimed}, Unregister(ns)
    PROVE  /\ registered' \in [EngineNames -> {"nobody", "other", "ours"}]
           /\ \A n \in EngineNames : registered'[n] # "ours"
           /\ \A n \in EngineNames : registered[n] = "other" => registered'[n] = "other"
<1>1. \A n \in EngineNames : n \in ns <=> registered[n] = "ours"
  BY DEF NamesInv
<1>2. \A n \in EngineNames : registered'[n] = IF n \in ns THEN "nobody" ELSE registered[n]
  BY DEF Unregister
<1>3. registered' \in [EngineNames -> {"nobody", "other", "ours"}]
  BY DEF Unregister, NamesInv
<1> QED
  BY <1>1, <1>2, <1>3

LEMMA Init_Inv == Init => Inv
<1> SUFFICES ASSUME Init PROVE Inv
  OBVIOUS
<1>1. current = [s \in Slots |-> 0] /\ open = {} /\ callbacks = {}
  BY DEF Init, Empty, NoState
<1>2. Held(Slots) = {}
  BY <1>1 DEF Held, NoState
<1>3. StatesInv
  BY <1>1, <1>2 DEF StatesInv, StatesTyped, OneOwner, NoState
<1>4. NamesInv
  BY NamesAssumption DEF NamesInv, Init, Claimed
<1> QED
  BY <1>3, <1>4 DEF Inv

LEMMA Next_StatesInv == Inv /\ [Next]_vars => StatesInv'
<1> SUFFICES ASSUME Inv, [Next]_vars PROVE StatesInv'
  OBVIOUS
<1> USE DEF Inv
<1>1. ASSUME UNCHANGED <<current, open, callbacks>> PROVE StatesInv'
  BY <1>1 DEF StatesInv, StatesTyped, OneOwner, Held
<1>2. CASE CreateContext
  <2>1. current[CompileSlot] = NoState
    BY <1>2, SlotsExist DEF CreateContext, NamesInv, Empty
  <2> QED
    BY <1>2, <2>1, Loading
<1>3. CASE \E config \in Configs : SetNames(config)
  BY <1>1, <1>3 DEF SetNames
<1>4. CASE ConfigsFail
  BY <1>4, Destroying DEF ConfigsFail
<1>5. CASE RegisterName
  BY <1>1, <1>5 DEF RegisterName
<1>6. CASE NameTaken
  BY <1>6, Destroying DEF NameTaken
<1>7. CASE LoadEnds
  BY <1>1, <1>7 DEF LoadEnds
<1>8. CASE Unload
  BY <1>8, Destroying DEF Unload
<1>9. CASE \E u \in Users : FirstCall(u)
  BY <1>9, Calling
<1>10. CASE \E k \in Kinds, async \in BOOLEAN : ResetKind(k, async)
  BY <1>10, Resetting
<1>11. CASE \E async \in BOOLEAN : ResetAll(async)
  BY <1>11, ResettingAll
<1>12. CASE \E cb \in callbacks : RunCallback(cb)
  BY <1>12, Running
<1>13. CASE UNCHANGED vars
  BY <1>1, <1>13 DEF vars
<1> QED
  BY <1>2, <1>3, <1>4, <1>5, <1>6, <1>7, <1>8, <1>9, <1>10, <1>11, <1>12, <1>13 DEF Next

\* OthersKept as one step.
OthersStay == \A n \in EngineNames : registered[n] = "other" => registered'[n] = "other"

LEMMA Next_NamesInv == Inv /\ [Next]_vars => NamesInv' /\ OthersStay
<1> SUFFICES ASSUME Inv, [Next]_vars PROVE NamesInv' /\ OthersStay
  OBVIOUS
<1> USE DEF Inv
<1>1. ASSUME UNCHANGED <<phase, names, next, registered>>, phase = "serving" \/ current' = current
      PROVE  NamesInv' /\ OthersStay
  BY <1>1 DEF NamesInv, OthersStay, Claimed
<1>2. CASE CreateContext
  <2>1. names' \in Seq(EngineNames) /\ Len(names') <= MaxNames
    BY <1>2, NamesAssumption DEF CreateContext, NamesInv
  <2> QED
    BY <1>2, <2>1 DEF CreateContext, NamesInv, OthersStay, Claimed
<1>3. ASSUME NEW config \in Configs, SetNames(config) PROVE NamesInv' /\ OthersStay
  <2>1. PICK m \in Nat : m <= MaxNames /\ m <= Len(config) /\ names' = SubSeq(config, 1, m)
    <3>1. Len(config) \in Nat /\ MaxNames \in Nat
      BY NamesAssumption
    <3> QED
      BY <1>3, <3>1 DEF SetNames
  <2>2. \A i \in 1..m : config[i] \in EngineNames
    BY <2>1, NamesAssumption
  <2>3. names' \in Seq(EngineNames) /\ Len(names') = IF 1 <= m THEN m - 1 + 1 ELSE 0
    BY <2>1, <2>2, SubSeqProperties
  <2>4. Len(names') <= MaxNames
    BY <2>1, <2>3
  <2> QED
    BY <1>3, <2>3, <2>4, NamesAssumption DEF SetNames, NamesInv, OthersStay, Claimed
<1>4. CASE ConfigsFail
  BY <1>4, NamesAssumption DEF ConfigsFail, DestroyContext, NamesInv, OthersStay, Claimed
<1>5. CASE RegisterName
  <2>1. /\ phase' = "registering" /\ phase = "registering" /\ names' = names
        /\ next' = next + 1 /\ next \in 1..Len(names)
        /\ registered' = [registered EXCEPT ![names[next]] = "ours"]
        /\ registered[names[next]] = "nobody"
        /\ names[next] \in EngineNames
    BY <1>5 DEF RegisterName, NamesInv
  <2>2. Claimed = 1..next - 1 /\ Claimed' = 1..next
    BY <2>1 DEF Claimed
  <2>3. \A n \in EngineNames :
          registered'[n] = "ours" <=> registered[n] = "ours" \/ n = names[next]
    BY <2>1 DEF NamesInv
  <2>4. \A n \in EngineNames : registered'[n] = "ours" <=> \E j \in Claimed' : names'[j] = n
    <3>1. \A j : j \in Claimed' <=> j \in Claimed \/ j = next
      BY <2>1, <2>2
    <3> QED
      BY <3>1, <2>1, <2>3 DEF NamesInv
  <2>5. registered' \in [EngineNames -> {"nobody", "other", "ours"}]
    BY <2>1 DEF NamesInv
  <2>6. next' \in 1..MaxNames + 1 /\ Claimed' \subseteq DOMAIN names'
    BY <2>1, <2>2, NamesAssumption DEF NamesInv
  <2>7. OthersStay
    BY <2>1 DEF NamesInv, OthersStay
  <2> QED
    BY <2>1, <2>4, <2>5, <2>6, <2>7 DEF NamesInv
<1>6. CASE NameTaken
  <2>1. {names[j] : j \in 1..next - 1} = {names[j] : j \in Claimed}
    BY <1>6 DEF NameTaken, Claimed
  <2>2. Unregister({names[j] : j \in 1..next - 1})
    BY <1>6 DEF NameTaken
  <2>3. /\ registered' \in [EngineNames -> {"nobody", "other", "ours"}]
        /\ \A n \in EngineNames : registered'[n] # "ours"
        /\ OthersStay
    BY <2>1, <2>2, TakingBack DEF OthersStay
  <2> QED
    BY <1>6, <2>3 DEF NameTaken, DestroyContext, NamesInv, Claimed
<1>7. CASE LoadEnds
  <2>1. 1..next - 1 = DOMAIN names
    BY <1>7 DEF LoadEnds, NamesInv, Claimed
  <2>2. Claimed' = Claimed
    BY <1>7, <2>1 DEF LoadEnds, Claimed
  <2> QED
    BY <1>7, <2>2 DEF LoadEnds, NamesInv, OthersStay
<1>8. CASE Unload
  <2>1. {names[j] : j \in DOMAIN names} = {names[j] : j \in Claimed}
    BY <1>8 DEF Unload, Claimed
  <2>2. Unregister({names[j] : j \in DOMAIN names})
    BY <1>8 DEF Unload
  <2>3. /\ registered' \in [EngineNames -> {"nobody", "other", "ours"}]
        /\ \A n \in EngineNames : registered'[n] # "ours"
        /\ OthersStay
    BY <2>1, <2>2, TakingBack DEF OthersStay
  <2> QED
    BY <1>8, <2>3, NamesAssumption DEF Unload, DestroyContext, NamesInv, Claimed
<1>9. CASE \E u \in Users : FirstCall(u)
  BY <1>1, <1>9 DEF FirstCall, Serving
<1>10. CASE \E k \in Kinds, async \in BOOLEAN : ResetKind(k, async)
  BY <1>1, <1>10 DEF ResetKind, Serving
<1>11. CASE \E async \in BOOLEAN : ResetAll(async)
  BY <1>1, <1>11 DEF ResetAll, Serving
<1>12. CASE \E cb \in callbacks : RunCallback(cb)
  BY <1>1, <1>12 DEF RunCallback
<1>13. CASE UNCHANGED vars
  BY <1>1, <1>13 DEF vars
<1> QED
  BY <1>2, <1>3, <1>4, <1>5, <1>6, <1>7, <1>8, <1>9, <1>10, <1>11, <1>12, <1>13 DEF Next

-----------------------------------------------------------------------------
\* The invariants of states and names hold together: the theorems below follow from it.
THEOREM SpecInv == Spec => []Inv
<1>1. Inv /\ [Next]_vars => Inv'
  BY Next_StatesInv, Next_NamesInv DEF Inv
<1> QED
  BY <1>1, Init_Inv, PTL DEF Spec

\* The engine's tables keep their types, and no callback is empty.
THEOREM TypeCorrect == Spec => []TypeOK
<1>1. Inv => TypeOK
  <2> SUFFICES ASSUME Inv PROVE TypeOK
    OBVIOUS
  <2>1. Held(Slots) \subseteq States
    BY HeldTyped DEF Inv, StatesInv
  <2>2. open \subseteq States
    BY <2>1 DEF Inv, StatesInv, StatesTyped, OneOwner
  <2> QED
    BY <2>2 DEF Inv, StatesInv, StatesTyped, NamesInv, TypeOK
<1> QED
  BY <1>1, SpecInv, PTL

\* Whatever resets, calls and unloads come before a callback runs, every Lua
\* state is owned by one slot or callback, which closes it.
THEOREM OwnerCorrect == Spec => []OneOwner
<1>1. Inv => OneOwner
  BY DEF Inv, StatesInv
<1> QED
  BY <1>1, SpecInv, PTL

\* The server never holds a destroyed context under a name.
THEOREM ContextCorrect == Spec => []ContextServed
<1>1. Inv => ContextServed
  BY DEF Inv, NamesInv, Claimed, ContextServed
<1> QED
  BY <1>1, SpecInv, PTL

\* OnLoad and OnUnload leave the names of other modules alone.
THEOREM OthersCorrect == Spec => OthersKept
<1>1. Inv /\ [Next]_vars => [OthersStay]_vars
  BY Next_NamesInv
<1>2. [][OthersStay]_vars => OthersKept
  BY PTL DEF OthersStay, OthersKept
<1> QED
  BY <1>1, <1>2, SpecInv, PTL DEF Spec

LEMMA FreshIsState ==
    ASSUME NEW STATE ss, HasRoom(ss), NEW s \in ss
    PROVE  Fresh(s) # NoState
<1>1. 0 \notin 1..MaxOpen
  BY NamesAssumption
<1> QED
  BY <1>1, FreshIsFree DEF NoState

\* A call finds both states in a user's entry, whichever kind was reset.
THEOREM EntriesCorrect == Spec => []EntriesWhole
<1> DEFINE Whole(u) == current[<<u, "eval">>] = NoState <=> current[<<u, "function">>] = NoState
<1>1. Init => EntriesWhole
  BY DEF Init, Empty, EntriesWhole, Slots, UserSlots, Kinds
<1>2. Inv /\ EntriesWhole /\ [Next]_vars => EntriesWhole'
  <2> SUFFICES ASSUME Inv, EntriesWhole, [Next]_vars, NEW u \in Users PROVE Whole(u)'
    BY DEF EntriesWhole
  <2>1. Whole(u)
    BY DEF EntriesWhole
  <2>2. /\ \A k \in Kinds : <<u, k>> \in Slots /\ <<u, k>> # CompileSlot
        /\ "eval" \in Kinds /\ "function" \in Kinds
    BY DEF Slots, UserSlots, Kinds, CompileSlot
  <2>3. ASSUME current' = Empty PROVE Whole(u)'
    BY <2>2, <2>3 DEF Empty
  <2>4. CASE CreateContext
    <3>1. \A k \in Kinds : current'[<<u, k>>] = current[<<u, k>>]
      BY <2>2, <2>4 DEF CreateContext, Inv, StatesInv, StatesTyped
    <3> QED
      BY <2>1, <2>2, <3>1
  <2>5. CASE ConfigsFail \/ NameTaken \/ Unload
    BY <2>3, <2>5 DEF ConfigsFail, NameTaken, Unload, DestroyContext
  <2>6. ASSUME NEW v \in Users, FirstCall(v) PROVE Whole(u)'
    <3>1. HasRoom({v} \X Kinds)
      BY <2>6 DEF FirstCall
    <3>2. \A s \in {v} \X Kinds : Fresh(s) # NoState
      BY <3>1, FreshIsState
    <3>3. \A k \in Kinds : current'[<<u, k>>] = IF <<u, k>> \in {v} \X Kinds THEN Fresh(<<u, k>>)
                                                ELSE current[<<u, k>>]
      BY <2>2, <2>6 DEF FirstCall
    <3> QED
      BY <2>1, <2>2, <3>2, <3>3
  <2>7. ASSUME NEW k \in Kinds, NEW async \in BOOLEAN, ResetKind(k, async) PROVE Whole(u)'
    <3>1. HasRoom(Entries({k}) \cup {CompileSlot})
      BY <2>7 DEF ResetKind
    <3>2. \A s \in Entries({k}) : Fresh(s) # NoState /\ current[s] # NoState
      BY <3>1, FreshIsState DEF Entries
    <3>3. \A j \in Kinds : current'[<<u, j>>] = IF <<u, j>> \in Entries({k}) THEN Fresh(<<u, j>>)
                                                ELSE current[<<u, j>>]
      BY <2>2, <2>7 DEF ResetKind
    <3>4. \A j \in Kinds : current'[<<u, j>>] = NoState <=> current[<<u, j>>] = NoState
      BY <3>2, <3>3
    <3> QED
      BY <2>1, <2>2, <3>4
  <2>8. ASSUME NEW async \in BOOLEAN, ResetAll(async) PROVE Whole(u)'
    <3>1. \A k \in Kinds : current'[<<u, k>>] = NoState
      BY <2>2, <2>8 DEF ResetAll, Empty
    <3> QED
      BY <2>2, <3>1
  <2>9. ASSUME current' = current PROVE Whole(u)'
    BY <2>1, <2>9
  <2>10. CASE RegisterName \/ LoadEnds \/ (\E config \in Configs : SetNames(config))
              \/ (\E cb \in callbacks : RunCallback(cb)) \/ UNCHANGED vars
    BY <2>9, <2>10 DEF RegisterName, LoadEnds, SetNames, RunCallback, vars
  <2> QED
    BY <2>4, <2>5, <2>6, <2>7, <2>8, <2>10 DEF Next
<1> QED
  BY <1>1, <1>2, SpecInv, PTL DEF Spec
=============================================================================
