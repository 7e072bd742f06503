------------------------ MODULE ReplyHandsOnProofs ------------------------
(***************************************************************************)
(* A script that returns the reply of its command answers with what is     *)
(* left of that reply: HandsOn, for replies of any size and depth.  First  *)
(* the conversion to Lua and what is left of a reply are shown to be what  *)
(* their recursive definitions say, and a value to determine what is left, *)
(* which for integers and texts needs what the conversions of doubles and  *)
(* of C strings keep; then reading a stream is taken apart; then the       *)
(* conversion is followed, container by container, by the replies that a   *)
(* reader of its part of the stream gets.                                  *)
(***************************************************************************)
EXTENDS ReplyConversionProofs, WellFoundedInduction

-----------------------------------------------------------------------------
(* Induction, as in LibraryProofs.                                          *)

Less == {p \in Nat \X Nat : p[1] < p[2]}

LEMMA Smallest ==
    ASSUME NEW T, T \subseteq Nat, T # {}
    PROVE  \E n \in T : \A m \in T : n <= m
<1>1. OpToRel(<, Nat) = Less
  BY DEF OpToRel, Less
<1>2. \E n \in T : \A m \in T : ~(<<m, n>> \in Less)
  BY <1>1, NatLessThanWellFounded, WFMin
<1>3. \A m, n \in Nat : m < n => <<m, n>> \in Less
  BY DEF Less
<1>4. \A m, n \in Nat : ~(m < n) => n <= m
  OBVIOUS
<1>5. QED
  BY <1>2, <1>3, <1>4

LEMMA LeastIs ==
    ASSUME NEW T, T \subseteq Nat, T # {}
    PROVE  Least(T) \in T /\ \A m \in T : Least(T) <= m
<1>1. \E n \in T : \A m \in T : n <= m
  BY Smallest
<1>2. QED
  BY <1>1 DEF Least

LEMMA Induction ==
    ASSUME NEW S, 0 \in S, \A n \in Nat : n \in S => n + 1 \in S
    PROVE  \A n \in Nat : n \in S
<1> SUFFICES ASSUME Nat \ S # {}
             PROVE  FALSE
  OBVIOUS
<1>1. PICK n \in Nat \ S : \A m \in Nat \ S : n <= m
  BY Smallest
<1>2. n # 0 /\ n - 1 \in Nat /\ n - 1 + 1 = n /\ ~(n <= n - 1)
  BY <1>1
<1>3. n - 1 \in S
  BY <1>1, <1>2
<1>4. QED
  BY <1>1, <1>2, <1>3

-----------------------------------------------------------------------------
(* ToLua and HandedOn are what their definitions say, by induction on the   *)
(* depth of replies.                                                        *)

Shallow(w, n) == {r \in Replies[w] : Depth[r] < n}

\* Both functions as far as depth n.
Approx(w, n, f, g) ==
    /\ f = [r \in Shallow(w, n) |-> ValueOf(r, w, f)]
    /\ g = [r \in Shallow(w, n) |-> LeftOf(r, w, g)]

LEMMA ItemsOf ==
    ASSUME NEW w \in {2, 3}, NEW r \in Replies[w], r.k = "array"
    PROVE  /\ r = Array(r.items)
           /\ Len(r.items) \in Nat /\ DOMAIN r.items = 1 .. Len(r.items)
           /\ \A i \in 1 .. Len(r.items) : r.items[i] \in Replies[w] /\ r.items[i] \in Parts(r)
<1>1. r = Array(r.items) /\ r.items \in Seq(Replies[w])
  BY RepliesAssumption DEF IsReply, Null
<1>2. Len(r.items) \in Nat /\ DOMAIN r.items = 1 .. Len(r.items)
  BY <1>1
<1>3. \A i \in 1 .. Len(r.items) : r.items[i] \in Replies[w]
  BY <1>1
<1>4. QED
  BY <1>1, <1>2, <1>3 DEF Parts

LEMMA PairsOf ==
    ASSUME NEW w \in {2, 3}, NEW r \in Replies[w], r.k = "map", NEW p \in Entries(r)
    PROVE  /\ p = <<p[1], p[2]>>
           /\ p[1] \in Replies[w] /\ p[2] \in Replies[w]
           /\ p[1] \in Parts(r) /\ p[2] \in Parts(r)
<1>1. r.pairs \in Seq(Replies[w] \X Replies[w])
  BY RepliesAssumption DEF IsReply, Null
<1>2. PICK i \in DOMAIN r.pairs : p = r.pairs[i]
  BY DEF Entries
<1>3. p \in Replies[w] \X Replies[w]
  BY <1>1, <1>2
<1>4. QED
  BY <1>3 DEF Parts

LEMMA WinningOf ==
    ASSUME NEW w \in {2, 3}, NEW r \in Replies[w], r.k = "map"
    PROVE  /\ \A f : Winning(r, f) \subseteq Entries(r)
           /\ \A f, g : (\A part \in Parts(r) : f[part] = g[part]) => Winning(r, f) = Winning(r, g)
<1>1. \A f : Winning(r, f) \subseteq Entries(r)
  BY DEF Winning, Entries
<1>2. \A i \in DOMAIN r.pairs : r.pairs[i][1] \in Parts(r)
  BY PairsOf DEF Entries
<1>3. ASSUME NEW f, NEW g, \A part \in Parts(r) : f[part] = g[part]
      PROVE  Winning(r, f) = Winning(r, g)
  <2>1. \A i \in DOMAIN r.pairs : f[r.pairs[i][1]] = g[r.pairs[i][1]]
    BY <1>2, <1>3
  <2>2. QED
    BY <2>1 DEF Winning
<1>4. QED
  BY <1>1, <1>3

LEMMA ElementsOf ==
    ASSUME NEW w \in {2, 3}, NEW r \in Replies[w], r.k = "set", NEW e \in r.elems
    PROVE  r = SetOf(r.elems) /\ e \in Replies[w] /\ e \in Parts(r)
<1>1. r = SetOf(r.elems) /\ r.elems \subseteq Replies[w]
  BY RepliesAssumption DEF IsReply, Null
<1>2. QED
  BY <1>1 DEF Parts

\* How long the items are until the first null.
Kept(w, s) ==
    LET nulls == {i \in DOMAIN s : s[i] = Null}
    IN  IF w = 2 \/ nulls = {} THEN Len(s) ELSE Least(nulls) - 1

LEMMA KeptUpToNull ==
    ASSUME NEW w \in {2, 3}, NEW s, Len(s) \in Nat, DOMAIN s = 1 .. Len(s)
    PROVE  /\ Kept(w, s) \in 0 .. Len(s)
           /\ \A i \in 1 .. Kept(w, s) : w = 3 => s[i] # Null
           /\ Kept(w, s) < Len(s) => w = 3 /\ s[Kept(w, s) + 1] = Null
<1> DEFINE nulls == {i \in DOMAIN s : s[i] = Null}
<1>1. CASE w = 2 \/ nulls = {}
  BY <1>1 DEF Kept
<1>2. CASE w = 3 /\ nulls # {}
  <2>1. PICK m \in nulls : m = Least(nulls) /\ \A j \in nulls : m <= j
    <3>1. nulls \subseteq Nat
      OBVIOUS
    <3>2. QED
      BY <1>2, <3>1, LeastIs
  <2>2. Kept(w, s) = m - 1
    BY <1>2, <2>1 DEF Kept
  <2>3. m \in 1 .. Len(s) /\ s[m] = Null
    BY <2>1
  <2>4. \A i \in 1 .. m - 1 : s[i] # Null
    <3>1. \A i \in 1 .. m - 1 : i \in DOMAIN s /\ ~(m <= i)
      BY <2>3
    <3>2. QED
      BY <2>1, <3>1
  <2>5. m - 1 \in 0 .. Len(s) /\ m - 1 + 1 = m
    BY <2>3
  <2>6. QED
    BY <1>2, <2>2, <2>3, <2>4, <2>5
<1>3. QED
  BY <1>1, <1>2

LEMMA LeftOfArray ==
    ASSUME NEW w, NEW r, NEW f, r.k = "array"
    PROVE  LeftOf(r, w, f) = Array([i \in 1 .. Kept(w, r.items) |-> f[r.items[i]]])
BY DEF LeftOf, Kept

\* Both bodies look at nothing but the parts of the reply.
LEMMA OnlyParts ==
    ASSUME NEW w \in {2, 3}, NEW r \in Replies[w], NEW f, NEW g,
           \A part \in Parts(r) : f[part] = g[part]
    PROVE  ValueOf(r, w, f) = ValueOf(r, w, g) /\ LeftOf(r, w, f) = LeftOf(r, w, g)
<1>1. CASE r.k = "array"
  <2>1. \A i \in DOMAIN r.items : f[r.items[i]] = g[r.items[i]]
    BY <1>1, ItemsOf
  <2>2. {Pair(Num(i), f[r.items[i]]) : i \in DOMAIN r.items}
        = {Pair(Num(i), g[r.items[i]]) : i \in DOMAIN r.items}
    BY <2>1
  <2>3. \A i \in 1 .. Kept(w, r.items) : i \in DOMAIN r.items
    BY <1>1, ItemsOf, KeptUpToNull
  <2>4. [i \in 1 .. Kept(w, r.items) |-> f[r.items[i]]]
        = [i \in 1 .. Kept(w, r.items) |-> g[r.items[i]]]
    BY <2>1, <2>3
  <2>5. ValueOf(r, w, f) = ValueOf(r, w, g)
    BY <1>1, <2>2 DEF ValueOf
  <2>6. /\ LeftOf(r, w, f) = Array([i \in 1 .. Kept(w, r.items) |-> f[r.items[i]]])
        /\ LeftOf(r, w, g) = Array([i \in 1 .. Kept(w, r.items) |-> g[r.items[i]]])
    BY <1>1, LeftOfArray
  <2>7. QED
    BY <2>4, <2>5, <2>6
<1>2. CASE r.k = "map"
  <2>0. /\ \A h : Winning(r, h) \subseteq Entries(r)
        /\ Winning(r, f) = Winning(r, g)
    BY <1>2, WinningOf
  <2>1. \A p \in Entries(r) : f[p[1]] = g[p[1]] /\ f[p[2]] = g[p[2]]
    BY <1>2, PairsOf
  <2>2. {Pair(f[p[1]], f[p[2]]) : p \in Winning(r, f)}
        = {Pair(g[p[1]], g[p[2]]) : p \in Winning(r, g)}
    BY <2>0, <2>1
  <2>3. {<<f[p[1]], f[p[2]]>> : p \in {q \in Winning(r, ToLua(w)) : w = 3 => q[2] # Null}}
        = {<<g[p[1]], g[p[2]]>> : p \in {q \in Winning(r, ToLua(w)) : w = 3 => q[2] # Null}}
    BY <2>0, <2>1
  <2>4. ValueOf(r, w, f) = ValueOf(r, w, g)
    BY <1>2, <2>2 DEF ValueOf
  <2>5. LeftOf(r, w, f) = LeftOf(r, w, g)
    BY <1>2, <2>3 DEF LeftOf
  <2>6. QED
    BY <2>4, <2>5
<1>3. CASE r.k = "set"
  <2>1. \A e \in r.elems : f[e] = g[e]
    BY <1>3, ElementsOf
  <2>2. {Pair(f[e], Bool(TRUE)) : e \in r.elems} = {Pair(g[e], Bool(TRUE)) : e \in r.elems}
    BY <2>1
  <2>3. {f[e] : e \in r.elems} = {g[e] : e \in r.elems}
    BY <2>1
  <2>4. ValueOf(r, w, f) = ValueOf(r, w, g)
    BY <1>3, <2>2 DEF ValueOf
  <2>5. LeftOf(r, w, f) = LeftOf(r, w, g)
    BY <1>3, <2>3 DEF LeftOf
  <2>6. QED
    BY <2>4, <2>5
<1>4. CASE r.k \notin {"array", "map", "set"}
  BY <1>4 DEF ValueOf, LeftOf
<1>5. QED
  BY <1>1, <1>2, <1>3, <1>4

LEMMA PartsAreShallow ==
    ASSUME NEW w \in {2, 3}, NEW n \in Nat, NEW r \in Shallow(w, n + 1), NEW part \in Parts(r)
    PROVE  part \in Shallow(w, n)
<1>1. r \in Replies[w] /\ Depth[r] \in Nat /\ Depth[part] < Depth[r] /\ Depth[r] < n + 1
  BY DepthAssumption DEF Shallow
<1>2. part \in Replies[w]
  <2>1. r.k \in {"array", "map", "set"}
    BY DEF Parts
  <2>2. CASE r.k = "array"
    BY <1>1, <2>2, ItemsOf DEF Parts
  <2>3. CASE r.k = "map"
    <3>1. PICK p \in Entries(r) : part = p[1] \/ part = p[2]
      BY <2>3 DEF Parts
    <3>2. QED
      BY <1>1, <2>3, <3>1, PairsOf
  <2>4. CASE r.k = "set"
    BY <1>1, <2>4, ElementsOf DEF Parts
  <2>5. QED
    BY <2>1, <2>2, <2>3, <2>4
<1>3. Depth[part] \in Nat
  BY <1>2, DepthAssumption
<1>4. QED
  BY <1>1, <1>2, <1>3 DEF Shallow

\* A deeper approximation goes on from a shallower one.
LEMMA Shallower ==
    ASSUME NEW w \in {2, 3}, NEW n \in Nat, NEW m \in Nat, m <= n,
           NEW f, NEW g, Approx(w, n, f, g)
    PROVE  Approx(w, m, [r \in Shallow(w, m) |-> f[r]], [r \in Shallow(w, m) |-> g[r]])
<1> DEFINE f0 == [r \in Shallow(w, m) |-> f[r]]
           g0 == [r \in Shallow(w, m) |-> g[r]]
<1>1. ASSUME NEW r \in Shallow(w, m)
      PROVE  f[r] = ValueOf(r, w, f0) /\ g[r] = LeftOf(r, w, g0)
  <2>1. r \in Shallow(w, n) /\ r \in Shallow(w, m + 1) /\ r \in Replies[w]
    BY DepthAssumption DEF Shallow
  <2>2. \A part \in Parts(r) : f0[part] = f[part] /\ g0[part] = g[part]
    BY <2>1, PartsAreShallow
  <2>3. ValueOf(r, w, f0) = ValueOf(r, w, f) /\ LeftOf(r, w, g0) = LeftOf(r, w, g)
    <3> HIDE DEF f0, g0
    <3>1. QED
      BY <2>1, <2>2, OnlyParts
  <2>4. f[r] = ValueOf(r, w, f) /\ g[r] = LeftOf(r, w, g)
    BY <2>1 DEF Approx
  <2>5. QED
    BY <2>3, <2>4
<1>2. f0 = [r \in Shallow(w, m) |-> ValueOf(r, w, f0)]
  BY <1>1
<1>3. g0 = [r \in Shallow(w, m) |-> LeftOf(r, w, g0)]
  BY <1>1
<1>4. QED
  BY <1>2, <1>3 DEF Approx

\* The approximation to depth n is there and is the only one.
LEMMA OneApprox ==
    ASSUME NEW w \in {2, 3}
    PROVE  \A n \in Nat :
               /\ \E f, g : Approx(w, n, f, g)
               /\ \A f, g, f2, g2 : Approx(w, n, f, g) /\ Approx(w, n, f2, g2) => f = f2 /\ g = g2
<1> DEFINE One(n) ==
      /\ \E f, g : Approx(w, n, f, g)
      /\ \A f, g, f2, g2 : Approx(w, n, f, g) /\ Approx(w, n, f2, g2) => f = f2 /\ g = g2
    S == {n \in Nat : One(n)}
<1>1. One(0)
  <2>1. Shallow(w, 0) = {}
    BY DepthAssumption DEF Shallow
  <2>2. Approx(w, 0, [r \in {} |-> {}], [r \in {} |-> {}])
    BY <2>1 DEF Approx
  <2>3. QED
    BY <2>1, <2>2 DEF Approx
<1>2. ASSUME NEW n \in Nat, One(n)
      PROVE  One(n + 1)
  <2>1. Shallow(w, n) \subseteq Shallow(w, n + 1) /\ Shallow(w, n + 1) \subseteq Replies[w]
    BY DepthAssumption DEF Shallow
  <2>2. \A f, g : Approx(w, n + 1, f, g) =>
            Approx(w, n, [r \in Shallow(w, n) |-> f[r]], [r \in Shallow(w, n) |-> g[r]])
    BY Shallower
  <2>3. \E f, g : Approx(w, n + 1, f, g)
    <3>1. PICK f : \E g : Approx(w, n, f, g)
      BY <1>2
    <3>2. PICK g : Approx(w, n, f, g)
      BY <3>1
    <3> DEFINE f1 == [r \in Shallow(w, n + 1) |-> ValueOf(r, w, f)]
               g1 == [r \in Shallow(w, n + 1) |-> LeftOf(r, w, g)]
    <3>3. \A r \in Shallow(w, n) : f1[r] = f[r] /\ g1[r] = g[r]
      BY <2>1, <3>2 DEF Approx
    <3>4. ASSUME NEW r \in Shallow(w, n + 1)
          PROVE  ValueOf(r, w, f) = ValueOf(r, w, f1) /\ LeftOf(r, w, g) = LeftOf(r, w, g1)
      <4>1. \A part \in Parts(r) : f[part] = f1[part] /\ g[part] = g1[part]
        BY <3>3, PartsAreShallow
      <4>2. r \in Replies[w]
        BY <2>1
      <4> HIDE DEF f1, g1
      <4>3. QED
        BY <4>1, <4>2, OnlyParts
    <3>5. f1 = [r \in Shallow(w, n + 1) |-> ValueOf(r, w, f1)]
      BY <3>4
    <3>6. g1 = [r \in Shallow(w, n + 1) |-> LeftOf(r, w, g1)]
      BY <3>4
    <3> HIDE DEF f1, g1
    <3>7. Approx(w, n + 1, f1, g1)
      BY <3>5, <3>6 DEF Approx
    <3>8. QED
      BY <3>7
  <2>4. ASSUME NEW f, NEW g, NEW f2, NEW g2, Approx(w, n + 1, f, g), Approx(w, n + 1, f2, g2)
        PROVE  f = f2 /\ g = g2
    <3>1. /\ [r \in Shallow(w, n) |-> f[r]] = [r \in Shallow(w, n) |-> f2[r]]
          /\ [r \in Shallow(w, n) |-> g[r]] = [r \in Shallow(w, n) |-> g2[r]]
      <4>1. /\ Approx(w, n, [r \in Shallow(w, n) |-> f[r]], [r \in Shallow(w, n) |-> g[r]])
            /\ Approx(w, n, [r \in Shallow(w, n) |-> f2[r]], [r \in Shallow(w, n) |-> g2[r]])
        BY <2>2, <2>4
      <4>2. \A a, b, a2, b2 : Approx(w, n, a, b) /\ Approx(w, n, a2, b2) => a = a2 /\ b = b2
        BY <1>2
      <4>3. QED
        BY <4>1, <4>2
    <3>2. \A r \in Shallow(w, n) : f[r] = f2[r] /\ g[r] = g2[r]
      <4> TAKE r \in Shallow(w, n)
      <4>1. /\ [x \in Shallow(w, n) |-> f[x]][r] = [x \in Shallow(w, n) |-> f2[x]][r]
            /\ [x \in Shallow(w, n) |-> g[x]][r] = [x \in Shallow(w, n) |-> g2[x]][r]
        BY <3>1
      <4>2. QED
        BY <4>1
    <3>3. ASSUME NEW r \in Shallow(w, n + 1)
          PROVE  ValueOf(r, w, f) = ValueOf(r, w, f2) /\ LeftOf(r, w, g) = LeftOf(r, w, g2)
      <4>1. \A part \in Parts(r) : f[part] = f2[part] /\ g[part] = g2[part]
        BY <3>2, PartsAreShallow
      <4>2. QED
        BY <2>1, <4>1, OnlyParts
    <3>4. /\ f = [r \in Shallow(w, n + 1) |-> ValueOf(r, w, f)]
          /\ f2 = [r \in Shallow(w, n + 1) |-> ValueOf(r, w, f2)]
          /\ g = [r \in Shallow(w, n + 1) |-> LeftOf(r, w, g)]
          /\ g2 = [r \in Shallow(w, n + 1) |-> LeftOf(r, w, g2)]
      BY <2>4 DEF Approx
    <3>5. /\ [r \in Shallow(w, n + 1) |-> ValueOf(r, w, f)]
             = [r \in Shallow(w, n + 1) |-> ValueOf(r, w, f2)]
          /\ [r \in Shallow(w, n + 1) |-> LeftOf(r, w, g)]
             = [r \in Shallow(w, n + 1) |-> LeftOf(r, w, g2)]
      BY <3>3
    <3>6. QED
      BY <3>4, <3>5
  <2>5. QED
    BY <2>3, <2>4
<1>3. 0 \in S /\ \A n \in Nat : n \in S => n + 1 \in S
  BY <1>1, <1>2
<1> HIDE DEF S
<1>4. \A n \in Nat : n \in S
  BY <1>3, Induction
<1>5. QED
  BY <1>4 DEF S

F(w, n) == CHOOSE f : \E g : Approx(w, n, f, g)
G(w, n) == CHOOSE g : \E f : Approx(w, n, f, g)

LEMMA Approximation ==
    ASSUME NEW w \in {2, 3}, NEW n \in Nat
    PROVE  Approx(w, n, F(w, n), G(w, n))
<1>1. (\E g : Approx(w, n, F(w, n), g)) /\ \E f : Approx(w, n, f, G(w, n))
  BY OneApprox DEF F, G
<1>2. QED
  BY <1>1 DEF Approx

\* The limit of the approximations, each taken deep enough.
LEMMA Limits ==
    ASSUME NEW w \in {2, 3}
    PROVE  /\ \E f : f = [r \in Replies[w] |-> ValueOf(r, w, f)]
           /\ \E g : g = [r \in Replies[w] |-> LeftOf(r, w, g)]
<1> DEFINE f == [r \in Replies[w] |-> F(w, Depth[r] + 1)[r]]
           g == [r \in Replies[w] |-> G(w, Depth[r] + 1)[r]]
<1>1. ASSUME NEW r \in Replies[w], NEW n \in Nat, Depth[r] < n
      PROVE  F(w, n)[r] = F(w, Depth[r] + 1)[r] /\ G(w, n)[r] = G(w, Depth[r] + 1)[r]
  <2>1. PICK m \in Nat : m = Depth[r] + 1 /\ m <= n
    BY <1>1, DepthAssumption
  <2>2. r \in Shallow(w, m)
    BY <2>1, DepthAssumption DEF Shallow
  <2>3. Approx(w, m, [x \in Shallow(w, m) |-> F(w, n)[x]], [x \in Shallow(w, m) |-> G(w, n)[x]])
    BY <2>1, Approximation, Shallower
  <2>4. /\ F(w, m) = [x \in Shallow(w, m) |-> F(w, n)[x]]
        /\ G(w, m) = [x \in Shallow(w, m) |-> G(w, n)[x]]
    BY <2>3, Approximation, OneApprox
  <2>5. [x \in Shallow(w, m) |-> F(w, n)[x]][r] = F(w, n)[r]
    BY <2>2
  <2>6. [x \in Shallow(w, m) |-> G(w, n)[x]][r] = G(w, n)[r]
    BY <2>2
  <2>7. QED
    BY <2>1, <2>4, <2>5, <2>6
<1>2. ASSUME NEW r \in Replies[w]
      PROVE  f[r] = ValueOf(r, w, f) /\ g[r] = LeftOf(r, w, g)
  <2>1. PICK n \in Nat : n = Depth[r] + 1
    BY DepthAssumption
  <2>2. r \in Shallow(w, n)
    BY <2>1, DepthAssumption DEF Shallow
  <2>3. \A part \in Parts(r) : part \in Replies[w] /\ Depth[part] < n
    <3> TAKE part \in Parts(r)
    <3>1. r \in Shallow(w, n + 1)
      BY <2>1, DepthAssumption DEF Shallow
    <3>2. QED
      BY <3>1, PartsAreShallow DEF Shallow
  <2>4. \A part \in Parts(r) : f[part] = F(w, n)[part] /\ g[part] = G(w, n)[part]
    BY <1>1, <2>3
  <2>5. f[r] = F(w, n)[r] /\ g[r] = G(w, n)[r]
    BY <2>1
  <2>6. F(w, n)[r] = ValueOf(r, w, F(w, n)) /\ G(w, n)[r] = LeftOf(r, w, G(w, n))
    BY <2>2, Approximation DEF Approx
  <2> HIDE DEF f, g
  <2>7. ValueOf(r, w, f) = ValueOf(r, w, F(w, n)) /\ LeftOf(r, w, g) = LeftOf(r, w, G(w, n))
    BY <2>4, OnlyParts
  <2>8. QED
    BY <2>5, <2>6, <2>7
<1>3. f = [r \in Replies[w] |-> ValueOf(r, w, f)]
  BY <1>2
<1>4. g = [r \in Replies[w] |-> LeftOf(r, w, g)]
  BY <1>2
<1>5. QED
  BY <1>3, <1>4

LEMMA Conversions ==
    ASSUME NEW w \in {2, 3}
    PROVE  /\ ToLua(w) = [r \in Replies[w] |-> ValueOf(r, w, ToLua(w))]
           /\ HandedOn(w) = [r \in Replies[w] |-> LeftOf(r, w, HandedOn(w))]
BY Limits DEF ToLua, HandedOn

-----------------------------------------------------------------------------
(* Tables and their shapes.                                                 *)

TriedNames == {"err", "ok", "double", "big_number", "verbatim_string", "map", "set"}

LEMMA GetOnly ==
    ASSUME NEW k, NEW x
    PROVE  /\ Get(Table({Pair(k, x)}), k) = x
           /\ \A l : l # k => Get(Table({Pair(k, x)}), l) = Nil
<1>1. {p \in {Pair(k, x)} : p.key = k} = {Pair(k, x)}
  BY DEF Pair
<1>2. \A l : l # k => {p \in {Pair(k, x)} : p.key = l} = {}
  BY DEF Pair
<1>3. Table({Pair(k, x)}).f = {Pair(k, x)} /\ Pair(k, x).val = x
  BY DEF Table, Pair
<1>4. (CHOOSE p \in {Pair(k, x)} : TRUE) = Pair(k, x)
  OBVIOUS
<1>5. QED
  BY <1>1, <1>2, <1>3, <1>4 DEF Get

LEMMA GetTwo ==
    ASSUME NEW k, NEW x, NEW l, NEW y, k # l
    PROVE  /\ Get(Table({Pair(k, x), Pair(l, y)}), k) = x
           /\ Get(Table({Pair(k, x), Pair(l, y)}), l) = y
<1>1. /\ {p \in {Pair(k, x), Pair(l, y)} : p.key = k} = {Pair(k, x)}
      /\ {p \in {Pair(k, x), Pair(l, y)} : p.key = l} = {Pair(l, y)}
  BY DEF Pair
<1>2. /\ Table({Pair(k, x), Pair(l, y)}).f = {Pair(k, x), Pair(l, y)}
      /\ Pair(k, x).val = x /\ Pair(l, y).val = y
  BY DEF Table, Pair
<1>3. /\ (CHOOSE p \in {Pair(k, x)} : TRUE) = Pair(k, x)
      /\ (CHOOSE p \in {Pair(l, y)} : TRUE) = Pair(l, y)
  OBVIOUS
<1>4. QED
  BY <1>1, <1>2, <1>3 DEF Get

LEMMA FieldOfSingle ==
    ASSUME NEW name, NEW x
    PROVE  /\ Single(name, x).t = "table"
           /\ Field(Single(name, x), name) = x
           /\ \A other : other # name => Field(Single(name, x), other) = Nil
<1>1. \A other : other # name => Str(<<other>>) # Str(<<name>>)
  BY DEF Str
<1>2. QED
  BY <1>1, GetOnly DEF Field, Single, Table

LEMMA TriedIs ==
    /\ DOMAIN Tried = 1 .. 7
    /\ Tried[1] = <<"err", "string">> /\ Tried[2] = <<"ok", "string">>
    /\ Tried[3] = <<"double", "number">> /\ Tried[4] = <<"big_number", "string">>
    /\ Tried[5] = <<"verbatim_string", "table">> /\ Tried[6] = <<"map", "table">>
    /\ Tried[7] = <<"set", "table">>
BY DEF Tried

\* The first field that counts is the shape.
LEMMA ShapeIs ==
    ASSUME NEW v, NEW i \in 1 .. 7, Counts(v, i), \A j \in 1 .. i - 1 : ~Counts(v, j)
    PROVE  Shape(v) = Tried[i][1]
<1> DEFINE is == {j \in DOMAIN Tried : Counts(v, j)}
<1>1. i \in is
  BY TriedIs
<1>2. \A j \in is : i <= j
  <2> TAKE j \in is
  <2>1. j \in 1 .. 7 /\ Counts(v, j)
    BY TriedIs
  <2>2. j \notin 1 .. i - 1
    BY <2>1
  <2>3. QED
    BY <2>1, <2>2
<1>3. \A m \in is : (\A j \in is : m <= j) => m = i
  <2> TAKE m \in is
  <2>1. m \in 1 .. 7
    BY TriedIs
  <2>2. QED
    BY <1>1, <1>2, <2>1
<1>4. Least(is) = i
  <2> HIDE DEF is
  <2>1. QED
    BY <1>1, <1>2, <1>3 DEF Least
<1>5. QED
  BY <1>1, <1>4 DEF Shape

\* A table without any of the fields is an array.
LEMMA ShapeArray ==
    ASSUME NEW v, \A name \in TriedNames : Field(v, name) = Nil
    PROVE  Shape(v) = "array"
<1>1. \A i \in 1 .. 7 : Tried[i][1] \in TriedNames /\ Tried[i][2] # "nil"
  BY TriedIs DEF TriedNames
<1>2. \A i \in 1 .. 7 : ~Counts(v, i)
  BY <1>1 DEF Counts, Nil
<1>3. {j \in DOMAIN Tried : Counts(v, j)} = {}
  BY <1>2, TriedIs
<1>4. QED
  BY <1>3 DEF Shape

LEMMA ShapeOfSingle ==
    ASSUME NEW i \in 1 .. 7, NEW x, x.t = Tried[i][2],
           i = 5 => \A name \in {"format", "string"} : Field(x, name).t = "string"
    PROVE  Shape(Single(Tried[i][1], x)) = Tried[i][1]
<1>1. PICK v : v = Single(Tried[i][1], x)
  OBVIOUS
<1>2. Field(v, Tried[i][1]) = x /\ \A other : other # Tried[i][1] => Field(v, other) = Nil
  BY <1>1, FieldOfSingle
<1>3. \A j \in 1 .. 7 : Tried[j][2] # "nil" /\ (Tried[j][1] = "verbatim_string" <=> j = 5)
  BY TriedIs
<1>4. \A j \in 1 .. i - 1 : j \in 1 .. 7 /\ Tried[j][1] # Tried[i][1]
  BY TriedIs
<1>5. Counts(v, i)
  <2>1. CASE i = 5
    <3>1. Tried[i][1] = "verbatim_string"
      BY <1>3, <2>1
    <3>2. QED
      BY <1>2, <2>1, <3>1 DEF Counts
  <2>2. CASE i # 5
    BY <1>2, <1>3, <2>2 DEF Counts
  <2>3. QED
    BY <2>1, <2>2
<1>6. \A j \in 1 .. i - 1 : ~Counts(v, j)
  <2> TAKE j \in 1 .. i - 1
  <2>1. Field(v, Tried[j][1]).t = "nil"
    BY <1>2, <1>4 DEF Nil
  <2>2. QED
    BY <1>3, <1>4, <2>1 DEF Counts
<1>7. QED
  BY <1>1, <1>5, <1>6, ShapeIs

-----------------------------------------------------------------------------
(* Integers and texts.                                                      *)

\* Up to Exact an integer is a double.
LEMMA ExactDouble ==
    ASSUME NEW n \in -Exact .. Exact
    PROVE  n \in Int /\ n \in -Longest - 1 .. Longest /\ AsDouble(n) = n
<1> DEFINE wide == {u \in Units : n \in -(u * Exact) .. u * Exact}
<1>1. n \in Int /\ n \in -Longest - 1 .. Longest
  BY NumbersAssumption
<1>2. 1 \in wide
  BY NumbersAssumption
<1>3. wide \subseteq Nat \ {0}
  BY NumbersAssumption
<1>4. Least(wide) \in wide /\ Least(wide) <= 1
  <2> HIDE DEF wide
  <2>1. QED
    BY <1>2, <1>3, LeastIs
<1>5. Unit(n) = 1
  <2>1. PICK u : u = Least(wide)
    OBVIOUS
  <2>2. Unit(n) = u
    BY <2>1 DEF Unit
  <2>3. u \in Nat /\ u # 0 /\ u <= 1
    <3> HIDE DEF wide
    <3>1. QED
      BY <1>3, <1>4, <2>1
  <2>4. QED
    BY <2>2, <2>3
<1>6. n \div 1 = n /\ n % 1 = 0
  BY <1>1
<1>7. QED
  BY <1>1, <1>5, <1>6 DEF AsDouble

\* Texts, with what the code adds to one.
Words == STRING \cup {"ERR", " "}

LEMMA TextInWords ==
    ASSUME NEW s \in Seq(STRING)
    PROVE  s \in Seq(Words)
BY SeqMonotonic DEF Words

WithoutNul(s) == s \in Seq(Words) /\ \A i \in DOMAIN s : s[i] # Nul

LEMMA CStringIs ==
    ASSUME NEW s \in Seq(Words)
    PROVE  /\ WithoutNul(CString(s))
           /\ Len(CString(s)) <= Len(s) /\ \A i \in 1 .. Len(CString(s)) : CString(s)[i] = s[i]
           /\ WithoutNul(s) => CString(s) = s
<1> DEFINE nuls == {i \in DOMAIN s : s[i] = Nul}
<1>1. Len(s) \in Nat /\ DOMAIN s = 1 .. Len(s)
  OBVIOUS
<1>2. CASE nuls = {}
  BY <1>1, <1>2 DEF CString, WithoutNul
<1>3. CASE nuls # {}
  <2>1. PICK m : m = Least(nuls)
    OBVIOUS
  <2>2. m \in nuls /\ \A j \in nuls : m <= j
    <3>1. nuls \subseteq Nat
      BY <1>1
    <3> HIDE DEF nuls
    <3>2. QED
      BY <1>3, <2>1, <3>1, LeastIs
  <2>3. CString(s) = SubSeq(s, 1, m - 1)
    BY <1>3, <2>1 DEF CString
  <2>4. m \in 1 .. Len(s) /\ s[m] = Nul
    BY <1>1, <2>2
  <2>5. /\ SubSeq(s, 1, m - 1) \in Seq(Words) /\ Len(SubSeq(s, 1, m - 1)) = m - 1
        /\ \A i \in 1 .. m - 1 : SubSeq(s, 1, m - 1)[i] = s[i]
    BY <1>1, <2>4
  <2>6. \A i \in 1 .. m - 1 : s[i] # Nul
    <3>1. \A i \in 1 .. m - 1 : i \in DOMAIN s /\ ~(m <= i)
      BY <1>1, <2>4
    <3>2. QED
      BY <2>2, <3>1
  <2>7. WithoutNul(CString(s))
    BY <2>3, <2>5, <2>6 DEF WithoutNul
  <2>8. ~WithoutNul(s)
    BY <1>1, <2>4 DEF WithoutNul
  <2>9. QED
    BY <2>3, <2>4, <2>5, <2>7, <2>8
<1>4. QED
  BY <1>2, <1>3

\* A part of a text without a Nul has none.
LEMMA PartWithoutNul ==
    ASSUME NEW s, WithoutNul(s), NEW a \in Int, NEW b \in Int, 1 <= a, b <= Len(s)
    PROVE  WithoutNul(SubSeq(s, a, b))
<1>1. Len(s) \in Nat /\ DOMAIN s = 1 .. Len(s) /\ \A i \in 1 .. Len(s) : s[i] \in Words /\ s[i] # Nul
  BY DEF WithoutNul
<1>2. CASE a <= b
  <2>1. /\ SubSeq(s, a, b) \in Seq(Words)
        /\ DOMAIN SubSeq(s, a, b) = 1 .. b - a + 1
        /\ \A i \in 1 .. b - a + 1 : SubSeq(s, a, b)[i] = s[a + i - 1]
    BY <1>1, <1>2 DEF WithoutNul
  <2>2. \A i \in 1 .. b - a + 1 : a + i - 1 \in 1 .. Len(s)
    BY <1>1, <1>2
  <2>3. QED
    BY <1>1, <2>1, <2>2 DEF WithoutNul
<1>3. CASE ~(a <= b)
  <2>1. SubSeq(s, a, b) = <<>>
    BY <1>1, <1>3 DEF WithoutNul
  <2>2. QED
    BY <2>1 DEF WithoutNul
<1>4. QED
  BY <1>2, <1>3

LEMMA ConcatWithoutNul ==
    ASSUME NEW s, NEW t, WithoutNul(s), WithoutNul(t)
    PROVE  WithoutNul(s \o t)
<1>1. /\ s \in Seq(Words) /\ t \in Seq(Words)
      /\ \A i \in 1 .. Len(s) : s[i] # Nul
      /\ \A i \in 1 .. Len(t) : t[i] # Nul
  BY DEF WithoutNul
<1>2. s \o t \in Seq(Words) /\ DOMAIN (s \o t) = 1 .. Len(s) + Len(t)
  BY <1>1
<1>3. \A i \in 1 .. Len(s) + Len(t) :
          \/ i \in 1 .. Len(s) /\ (s \o t)[i] = s[i]
          \/ i - Len(s) \in 1 .. Len(t) /\ (s \o t)[i] = t[i - Len(s)]
  BY <1>1
<1>4. QED
  BY <1>1, <1>2, <1>3 DEF WithoutNul

LEMMA GreatestIs ==
    ASSUME NEW l \in Nat, NEW T, T \subseteq 1 .. l, T # {}
    PROVE  Greatest(T) \in T /\ \A m \in T : m <= Greatest(T)
<1> DEFINE U == {l - m : m \in T}
<1>1. U \subseteq Nat /\ U # {}
  <2>1. \A m \in T : l - m \in Nat
    OBVIOUS
  <2>2. PICK m \in T : TRUE
    OBVIOUS
  <2>3. l - m \in U
    OBVIOUS
  <2>4. QED
    BY <2>1, <2>3
<1>2. PICK n \in U : \A m \in U : n <= m
  <2> HIDE DEF U
  <2>1. QED
    BY <1>1, Smallest
<1>3. PICK g \in T : n = l - g
  BY <1>2
<1>4. \A m \in T : m <= g
  BY <1>2, <1>3
<1>5. QED
  BY <1>4 DEF Greatest

LEMMA TrimIs ==
    ASSUME NEW s, WithoutNul(s)
    PROVE  /\ WithoutNul(Trim(s))
           /\ (s # <<>> => s[1] \notin Breaks /\ s[Len(s)] \notin Breaks) => Trim(s) = s
<1> DEFINE kept == {i \in DOMAIN s : s[i] \notin Breaks}
<1>1. s \in Seq(Words) /\ Len(s) \in Nat /\ DOMAIN s = 1 .. Len(s)
  BY DEF WithoutNul
<1>2. CASE kept = {}
  <2>1. Trim(s) = <<>>
    BY <1>2 DEF Trim
  <2>2. WithoutNul(<<>>)
    BY DEF WithoutNul
  <2>3. s # <<>> => 1 \in DOMAIN s
    BY <1>1
  <2>4. QED
    BY <1>2, <2>1, <2>2, <2>3
<1>3. CASE kept # {}
  <2>1. PICK a, b : a = Least(kept) /\ b = Greatest(kept)
    OBVIOUS
  <2>2. /\ a \in kept /\ \A j \in kept : a <= j
        /\ b \in kept /\ \A j \in kept : j <= b
    <3>1. kept \subseteq 1 .. Len(s) /\ kept \subseteq Nat
      BY <1>1
    <3> HIDE DEF kept
    <3>2. QED
      BY <1>1, <1>3, <2>1, <3>1, LeastIs, GreatestIs
  <2>3. Trim(s) = SubSeq(s, a, b)
    BY <1>3, <2>1 DEF Trim
  <2>4. a \in 1 .. Len(s) /\ b \in 1 .. Len(s)
    BY <1>1, <2>2
  <2>5. WithoutNul(Trim(s))
    BY <1>1, <2>3, <2>4, PartWithoutNul
  <2>6. ASSUME s[1] \notin Breaks, s[Len(s)] \notin Breaks
        PROVE  Trim(s) = s
    <3>1. 1 \in kept /\ Len(s) \in kept
      BY <1>1, <2>4, <2>6
    <3>2. a = 1 /\ b = Len(s)
      BY <1>1, <2>2, <2>4, <3>1
    <3>3. QED
      BY <1>1, <2>3, <3>2
  <2>7. s # <<>>
    BY <1>1, <2>4
  <2>8. QED
    BY <2>5, <2>6, <2>7
<1>4. QED
  BY <1>2, <1>3

LEMMA GenericCode == WithoutNul(<<"ERR", Space>>)
<1>1. \A x, y : /\ <<x, y>> \in Seq({x, y}) /\ DOMAIN <<x, y>> = 1 .. 2
               /\ <<x, y>>[1] = x /\ <<x, y>>[2] = y
  OBVIOUS
<1>2. PICK x, y : x = "ERR" /\ y = Space
  OBVIOUS
<1>3. x \in Words /\ y \in Words /\ x # Nul /\ y # Nul
  BY <1>2 DEF Words, Space, Nul
<1>4. {x, y} \subseteq Words
  BY <1>3
<1>5. <<x, y>> \in Seq(Words)
  BY <1>1, <1>4, SeqMonotonic
<1>6. WithoutNul(<<x, y>>)
  BY <1>1, <1>3, <1>5 DEF WithoutNul
<1>7. QED
  BY <1>2, <1>6

LEMMA ErrorTextIs ==
    ASSUME NEW s \in Seq(Words)
    PROVE  /\ CString(ErrorText(s)) = ErrorText(s)
           /\ Plain(s) => ErrorText(s) = s
<1> DEFINE c == CString(s)
           spaces == {i \in DOMAIN c : c[i] = Space}
<1>1. WithoutNul(c) /\ (WithoutNul(s) => c = s)
  BY CStringIs
<1> HIDE DEF c
<1>2. c \in Seq(Words) /\ Len(c) \in Nat /\ DOMAIN c = 1 .. Len(c)
  BY <1>1 DEF WithoutNul
<1>3. CASE c = <<>> \/ c[1] # Dash
  <2>1. ErrorText(s) = Trim(c)
    BY <1>3 DEF ErrorText, c
  <2>2. WithoutNul(Trim(c))
    BY <1>1, TrimIs
  <2>3. Plain(s) => Trim(c) = s
    <3>1. Plain(s) => c = s /\ (s # <<>> => s[1] \notin Breaks /\ s[Len(s)] \notin Breaks)
      BY <1>1 DEF Plain, WithoutNul
    <3>2. QED
      BY <1>1, <3>1, TrimIs
  <2>4. QED
    BY <2>1, <2>2, <2>3, CStringIs DEF WithoutNul
<1>4. CASE c # <<>> /\ c[1] = Dash
  <2>1. Len(c) >= 1
    BY <1>2, <1>4
  <2>2. ~Plain(s)
    BY <1>1, <1>4 DEF Plain, WithoutNul
  <2>3. CASE spaces = {}
    <3>1. ErrorText(s) = <<"ERR", Space>> \o Tail(c)
      BY <1>4, <2>3 DEF ErrorText, c
    <3>2. WithoutNul(<<"ERR", Space>>)
      BY GenericCode
    <3>3. Tail(c) = SubSeq(c, 2, Len(c))
      BY <1>2, <2>1
    <3>4. WithoutNul(Tail(c))
      <4>1. PICK b : b = Len(c)
        OBVIOUS
      <4>2. WithoutNul(SubSeq(c, 2, b))
        <5>1. \A i, j \in Int : 1 <= i /\ j <= Len(c) => WithoutNul(SubSeq(c, i, j))
          BY <1>1, PartWithoutNul
        <5>2. b \in Int /\ b <= Len(c)
          BY <1>2, <4>1
        <5>3. QED
          BY <5>1, <5>2
      <4>3. QED
        BY <3>3, <4>1, <4>2
    <3>5. WithoutNul(ErrorText(s))
      BY <3>1, <3>2, <3>4, ConcatWithoutNul
    <3>6. QED
      BY <2>2, <3>5, CStringIs DEF WithoutNul
  <2>4. CASE spaces # {}
    <3>1. PICK a : a = Least(spaces)
      OBVIOUS
    <3>2. a \in 1 .. Len(c)
      <4>1. spaces \subseteq 1 .. Len(c) /\ spaces \subseteq Nat
        BY <1>2
      <4> HIDE DEF spaces
      <4>2. QED
        BY <2>4, <3>1, <4>1, LeastIs
    <3>3. ErrorText(s) = SubSeq(c, 2, a) \o Trim(SubSeq(c, a + 1, Len(c)))
      BY <1>4, <2>4, <3>1 DEF ErrorText, c
    <3>4. WithoutNul(SubSeq(c, 2, a)) /\ WithoutNul(SubSeq(c, a + 1, Len(c)))
      BY <1>1, <1>2, <3>2, PartWithoutNul
    <3>5. WithoutNul(ErrorText(s))
      BY <3>3, <3>4, TrimIs, ConcatWithoutNul
    <3>6. QED
      BY <2>2, <3>5, CStringIs DEF WithoutNul
  <2>5. QED
    BY <2>3, <2>4
<1>5. QED
  BY <1>3, <1>4

LEMMA OneLineIs ==
    ASSUME NEW s \in Seq(Words), Unbroken(s)
    PROVE  OneLine(s) = CString(s)
<1> DEFINE c == CString(s)
<1>1. /\ c \in Seq(Words) /\ Len(c) <= Len(s)
      /\ \A i \in 1 .. Len(c) : c[i] = s[i]
  BY CStringIs DEF WithoutNul
<1> HIDE DEF c
<1>2. DOMAIN c = 1 .. Len(c) /\ c = [i \in 1 .. Len(c) |-> c[i]]
  BY <1>1
<1>3. \A i \in 1 .. Len(c) : s[i] \notin Breaks
  BY <1>1 DEF Unbroken
<1>4. OneLine(s) = [i \in 1 .. Len(c) |-> c[i]]
  BY <1>1, <1>2, <1>3 DEF OneLine, c
<1>5. QED
  BY <1>2, <1>4 DEF c

-----------------------------------------------------------------------------
(* What a value hands on.                                                   *)

\* u is the Lua value of a reply in R of which x is left.
HandsIn(R, w, u, x) == \E r \in R : ToLua(w)[r] = u /\ HandedOn(w)[r] = x

IsContainer(u) == u.t = "table" /\ Shape(u) \in Containers

\* The token that is written for a value that is no container.
TokenOf(w, u) ==
    IF u.t = "string" THEN Text("string", u.s)
    ELSE IF u.t = "boolean"
         THEN (IF w = 2 THEN (IF u.b THEN Integer(1) ELSE Null) ELSE Truth(u.b))
    ELSE IF u.t = "number" THEN Integer(LongLong(u))
    ELSE IF u.t # "table" THEN Null
    ELSE IF Shape(u) = "err" THEN Text("error", CString(Field(u, "err").s))
    ELSE IF Shape(u) = "ok" THEN Text("simple", OneLine(Field(u, "ok").s))
    ELSE IF Shape(u) = "double" THEN Double(Field(u, "double"))
    ELSE IF Shape(u) = "big_number" THEN Text("big_number", OneLine(Field(u, "big_number").s))
    ELSE Verbatim(Field(Field(u, "verbatim_string"), "string").s,
                  CString(Field(Field(u, "verbatim_string"), "format").s))

LEMMA LeafValue ==
    ASSUME NEW w \in {2, 3}, NEW r \in Replies[w], r.k \notin Containers
    PROVE  /\ ~IsContainer(ToLua(w)[r])
           /\ TokenOf(w, ToLua(w)[r]) = HandedOn(w)[r] /\ HandedOn(w)[r].k \notin Containers
           /\ ToLua(w)[r] = Nil <=> w = 3 /\ r = Null
<1>1. PICK u, x : u = ToLua(w)[r] /\ x = HandedOn(w)[r]
  OBVIOUS
<1>2. x = LeftOfScalar(r) /\ u = ScalarToLua(r, w)
  <2>1. ToLua(w)[r] = ValueOf(r, w, ToLua(w)) /\ HandedOn(w)[r] = LeftOf(r, w, HandedOn(w))
    BY Conversions
  <2>2. ValueOf(r, w, ToLua(w)) = ScalarToLua(r, w) /\ LeftOf(r, w, HandedOn(w)) = LeftOfScalar(r)
    BY DEF ValueOf, LeftOf, Containers
  <2>3. QED
    BY <1>1, <2>1, <2>2
<1>3. IsReply(r, w) /\ r.k \notin {"array", "map", "set"}
  BY RepliesAssumption DEF Containers
<1>4. CASE r.k = "string" /\ r = Text("string", r.s)
  <2>1. u = Str(r.s) /\ x = r
    BY <1>2, <1>4 DEF ScalarToLua, LeftOfScalar
  <2>2. TokenOf(w, u) = Text("string", r.s) /\ ~IsContainer(u) /\ u # Nil
    BY <2>1 DEF TokenOf, IsContainer, Str, Nil
  <2>3. r # Null /\ x.k \notin Containers
    BY <1>4, <2>1 DEF Null, Containers
  <2>4. QED
    BY <1>1, <1>4, <2>1, <2>2, <2>3
<1>5. CASE r.k = "integer" /\ r.n \in -Longest - 1 .. Longest
  <2>1. u = Num(AsDouble(r.n))
    BY <1>2, <1>5 DEF ScalarToLua
  <2>2. TokenOf(w, u) = Integer(LongLong(u)) /\ ~IsContainer(u) /\ u # Nil
    BY <2>1 DEF TokenOf, IsContainer, Num, Nil
  <2>3. x = Integer(LongLong(u))
    <3>1. CASE r.n \in -Exact .. Exact
      <4>1. AsDouble(r.n) = r.n
        BY <3>1, ExactDouble
      <4>2. LongLong(u) = r.n
        BY <1>5, <2>1, <4>1 DEF LongLong, Num
      <4>3. QED
        BY <1>2, <1>5, <3>1, <4>2 DEF LeftOfScalar
    <3>2. CASE r.n \notin -Exact .. Exact
      BY <1>2, <1>5, <2>1, <3>2 DEF LeftOfScalar
    <3>3. QED
      BY <3>1, <3>2
  <2>4. r # Null /\ x.k \notin Containers
    BY <1>5, <2>3 DEF Null, Containers, Integer
  <2>5. QED
    BY <1>1, <2>2, <2>3, <2>4
<1>6. CASE r.k = "bool" /\ w = 3 /\ r = Truth(r.b)
  <2>1. u = Bool(r.b) /\ x = r
    BY <1>2, <1>6 DEF ScalarToLua, LeftOfScalar
  <2>2. TokenOf(w, u) = Truth(r.b) /\ ~IsContainer(u) /\ u # Nil
    BY <1>6, <2>1 DEF TokenOf, IsContainer, Bool, Nil
  <2>3. r # Null /\ x.k \notin Containers
    BY <1>6, <2>1 DEF Null, Containers
  <2>4. QED
    BY <1>1, <1>6, <2>1, <2>2, <2>3
<1>7. CASE r = Null
  <2>1. r.k = "null"
    BY <1>7 DEF Null
  <2>2. u = NullToLua(w) /\ x = Null
    BY <1>2, <1>7, <2>1 DEF ScalarToLua, LeftOfScalar
  <2>3. TokenOf(w, u) = Null /\ ~IsContainer(u) /\ (u = Nil <=> w = 3)
    BY <2>2 DEF NullToLua, TokenOf, IsContainer, Bool, Nil
  <2>4. x.k \notin Containers
    BY <2>2 DEF Null, Containers
  <2>5. QED
    BY <1>1, <1>7, <2>2, <2>3, <2>4
<1>8. CASE r.k = "simple" /\ r.s \in Seq(STRING) /\ Unbroken(r.s)
  <2>1. u = Single("ok", Str(r.s)) /\ x = Text("simple", CString(r.s))
    BY <1>2, <1>8 DEF ScalarToLua, LeftOfScalar
  <2>2. Shape(u) = "ok" /\ Field(u, "ok") = Str(r.s) /\ u.t = "table"
    <3>1. Str(r.s).t = Tried[2][2] /\ Tried[2][1] = "ok"
      BY TriedIs DEF Str
    <3>2. QED
      BY <2>1, <3>1, ShapeOfSingle, FieldOfSingle
  <2>3. u # Nil /\ r # Null /\ Str(r.s).s = r.s
    BY <1>8, <2>2 DEF Nil, Null, Str
  <2>4. TokenOf(w, u) = Text("simple", OneLine(r.s))
    BY <2>2, <2>3 DEF TokenOf
  <2>5. OneLine(r.s) = CString(r.s)
    BY <1>8, TextInWords, OneLineIs
  <2>6. ~IsContainer(u) /\ x.k \notin Containers
    BY <2>1, <2>2 DEF IsContainer, Containers, Text
  <2>7. QED
    BY <1>1, <2>1, <2>3, <2>4, <2>5, <2>6
<1>9. CASE r.k = "big_number" /\ r.s \in Seq(STRING) /\ Unbroken(r.s)
  <2>1. u = Single("big_number", Str(r.s)) /\ x = Text("big_number", CString(r.s))
    BY <1>2, <1>9 DEF ScalarToLua, LeftOfScalar
  <2>2. Shape(u) = "big_number" /\ Field(u, "big_number") = Str(r.s) /\ u.t = "table"
    <3>1. Str(r.s).t = Tried[4][2] /\ Tried[4][1] = "big_number"
      BY TriedIs DEF Str
    <3>2. QED
      BY <2>1, <3>1, ShapeOfSingle, FieldOfSingle
  <2>3. u # Nil /\ r # Null /\ Str(r.s).s = r.s
    BY <1>9, <2>2 DEF Nil, Null, Str
  <2>4. TokenOf(w, u) = Text("big_number", OneLine(r.s))
    BY <2>2, <2>3 DEF TokenOf
  <2>5. OneLine(r.s) = CString(r.s)
    BY <1>9, TextInWords, OneLineIs
  <2>6. ~IsContainer(u) /\ x.k \notin Containers
    BY <2>1, <2>2 DEF IsContainer, Containers, Text
  <2>7. QED
    BY <1>1, <2>1, <2>3, <2>4, <2>5, <2>6
<1>10. CASE r.k = "double" /\ r = Double(r.d) /\ r.d.t = "number"
  <2>1. u = Single("double", r.d) /\ x = r
    BY <1>2, <1>10 DEF ScalarToLua, LeftOfScalar
  <2>2. Shape(u) = "double" /\ Field(u, "double") = r.d /\ u.t = "table"
    <3>1. r.d.t = Tried[3][2] /\ Tried[3][1] = "double"
      BY <1>10, TriedIs
    <3>2. QED
      BY <2>1, <3>1, ShapeOfSingle, FieldOfSingle
  <2>3. u # Nil /\ r # Null /\ x.k \notin Containers
    BY <1>10, <2>1, <2>2 DEF Nil, Null, Containers
  <2>4. TokenOf(w, u) = Double(r.d)
    BY <2>2 DEF TokenOf
  <2>5. ~IsContainer(u)
    BY <2>2 DEF IsContainer, Containers
  <2>6. QED
    BY <1>1, <1>10, <2>1, <2>3, <2>4, <2>5
<1>11. CASE r.k = "verbatim" /\ r = Verbatim(r.s, r.format) /\ CString(r.format) = r.format
  <2>1. PICK v : v = Table({Pair(Str(<<"string">>), Str(r.s)), Pair(Str(<<"format">>), Str(r.format))})
    OBVIOUS
  <2>2. Field(v, "string") = Str(r.s) /\ Field(v, "format") = Str(r.format) /\ v.t = "table"
    <3>1. Str(<<"string">>) # Str(<<"format">>)
      BY DEF Str
    <3>2. QED
      BY <2>1, <3>1, GetTwo DEF Field, Table
  <2>3. u = Single("verbatim_string", v) /\ x = r
    BY <1>2, <1>11, <2>1 DEF ScalarToLua, LeftOfScalar
  <2>4. Shape(u) = "verbatim_string" /\ Field(u, "verbatim_string") = v /\ u.t = "table"
    <3>1. v.t = Tried[5][2] /\ Tried[5][1] = "verbatim_string"
      BY <2>2, TriedIs
    <3>2. \A name \in {"format", "string"} : Field(v, name).t = "string"
      BY <2>2 DEF Str
    <3>3. QED
      BY <2>3, <3>1, <3>2, ShapeOfSingle, FieldOfSingle
  <2>5. /\ u # Nil /\ r # Null /\ x.k \notin Containers
        /\ Field(v, "string").s = r.s /\ Field(v, "format").s = r.format
    BY <1>11, <2>2, <2>3, <2>4 DEF Nil, Null, Str, Containers
  <2>6. TokenOf(w, u) = Verbatim(r.s, CString(r.format))
    BY <2>4, <2>5 DEF TokenOf
  <2>7. ~IsContainer(u)
    BY <2>4 DEF IsContainer, Containers
  <2>8. QED
    BY <1>1, <1>11, <2>3, <2>5, <2>6, <2>7
<1>12. CASE r.k = "error" /\ r = Text("error", r.s) /\ r.s \in Seq(STRING)
  <2>1. PICK m : m = ErrorText(r.s)
    OBVIOUS
  <2>2. u = Table({Pair(Str(<<"err">>), Str(m)),
                   Pair(Str(<<"ignore_error_stats_update">>), Bool(TRUE))})
    BY <1>2, <1>12, <2>1 DEF ScalarToLua
  <2>3. CString(m) = m /\ x = Text("error", m)
    BY <1>2, <1>12, <2>1, TextInWords, ErrorTextIs DEF LeftOfScalar
  <2>4. Field(u, "err") = Str(m) /\ u.t = "table"
    <3>1. PICK k, l, y : k = Str(<<"err">>) /\ l = Str(<<"ignore_error_stats_update">>) /\ y = Bool(TRUE)
      OBVIOUS
    <3>2. k # l
      BY <3>1 DEF Str
    <3>3. u = Table({Pair(k, Str(m)), Pair(l, y)})
      BY <2>2, <3>1
    <3>4. Get(Table({Pair(k, Str(m)), Pair(l, y)}), k) = Str(m)
      BY <3>2, GetTwo
    <3>5. QED
      BY <3>1, <3>3, <3>4 DEF Field, Table
  <2>5. Shape(u) = "err"
    <3>1. Counts(u, 1)
      BY <2>4, TriedIs DEF Counts, Str
    <3>2. 1 .. 1 - 1 = {} /\ Tried[1][1] = "err"
      BY TriedIs
    <3>3. QED
      BY <3>1, <3>2, ShapeIs
  <2>6. u # Nil /\ r # Null /\ x.k \notin Containers /\ Field(u, "err").s = m
    BY <1>12, <2>3, <2>4 DEF Nil, Null, Str, Text, Containers
  <2>7. TokenOf(w, u) = Text("error", CString(m))
    BY <2>4, <2>5, <2>6 DEF TokenOf
  <2>8. ~IsContainer(u)
    BY <2>5 DEF IsContainer, Containers
  <2>9. QED
    BY <1>1, <2>3, <2>6, <2>7, <2>8
<1>13. QED
  <2>1. \/ r.k \in {"string", "error"} /\ r = Text(r.k, r.s) /\ r.s \in Seq(STRING)
        \/ r.k \in {"simple", "big_number"} /\ r.s \in Seq(STRING) /\ Unbroken(r.s)
        \/ r.k = "verbatim" /\ r = Verbatim(r.s, r.format) /\ CString(r.format) = r.format
        \/ r.k = "integer" /\ r.n \in -Longest - 1 .. Longest
        \/ r.k = "double" /\ r = Double(r.d) /\ r.d.t = "number"
        \/ r.k = "bool" /\ w = 3 /\ r = Truth(r.b)
        \/ r = Null
    BY <1>3 DEF IsReply
  <2>2. CASE r.k \in {"string", "error"} /\ r = Text(r.k, r.s) /\ r.s \in Seq(STRING)
    <3>1. \/ r.k = "string" /\ r = Text("string", r.s)
          \/ r.k = "error" /\ r = Text("error", r.s) /\ r.s \in Seq(STRING)
      BY <2>2
    <3>2. QED
      BY <1>4, <1>12, <3>1
  <2>3. CASE r.k \in {"simple", "big_number"} /\ r.s \in Seq(STRING) /\ Unbroken(r.s)
    BY <1>8, <1>9, <2>3
  <2>4. QED
    BY <1>5, <1>6, <1>7, <1>10, <1>11, <2>1, <2>2, <2>3

LEMMA PartsAreReplies ==
    ASSUME NEW w \in {2, 3}, NEW r \in Replies[w], NEW part \in Parts(r)
    PROVE  part \in Replies[w]
<1>1. PICK n \in Nat : n = Depth[r]
  BY DepthAssumption
<1>2. r \in Shallow(w, n + 1)
  BY <1>1 DEF Shallow
<1>3. QED
  BY <1>2, PartsAreShallow DEF Shallow

\* A container's value is a table of its shape.
LEMMA ContainerValue ==
    ASSUME NEW w \in {2, 3}, NEW r \in Replies[w], r.k \in Containers
    PROVE  /\ ToLua(w)[r].t = "table" /\ Shape(ToLua(w)[r]) = r.k
           /\ r.k = "array" =>
                 ToLua(w)[r] = Stored({Pair(Num(i), ToLua(w)[r.items[i]]) : i \in DOMAIN r.items})
           /\ r.k = "map" =>
                 Field(ToLua(w)[r], "map")
                 = Stored({Pair(ToLua(w)[p[1]], ToLua(w)[p[2]]) : p \in Winning(r, ToLua(w))})
           /\ r.k = "set" =>
                 Field(ToLua(w)[r], "set") = Stored({Pair(ToLua(w)[e], Bool(TRUE)) : e \in r.elems})
<1>1. PICK u : u = ToLua(w)[r]
  OBVIOUS
<1>2. u = ValueOf(r, w, ToLua(w))
  BY <1>1, Conversions
<1>3. \A S : Stored(S).t = "table"
  BY DEF Stored, Table
<1>4. CASE r.k = "array"
  <2>1. PICK S : S = {Pair(Num(i), ToLua(w)[r.items[i]]) : i \in DOMAIN r.items}
    OBVIOUS
  <2>2. u = Stored(S)
    BY <1>2, <1>4, <2>1 DEF ValueOf
  <2>3. \A name : Field(u, name) = Nil
    <3> TAKE name
    <3>1. u.f = {p \in S : p.val # Nil}
      BY <2>2 DEF Stored, Table
    <3>2. \A p \in S : p.key # Str(<<name>>)
      BY <2>1 DEF Pair, Num, Str
    <3>3. {p \in u.f : p.key = Str(<<name>>)} = {}
      BY <3>1, <3>2
    <3>4. QED
      BY <3>3 DEF Field, Get
  <2>4. Shape(u) = "array"
    BY <2>3, ShapeArray
  <2>5. QED
    BY <1>1, <1>3, <1>4, <2>1, <2>2, <2>4
<1>5. CASE r.k = "map"
  <2>1. PICK x : x = Stored({Pair(ToLua(w)[p[1]], ToLua(w)[p[2]]) : p \in Winning(r, ToLua(w))})
    OBVIOUS
  <2>2. u = Single("map", x)
    BY <1>2, <1>5, <2>1 DEF ValueOf
  <2>3. x.t = Tried[6][2] /\ Tried[6][1] = "map"
    BY <1>3, <2>1, TriedIs
  <2>4. Shape(u) = "map" /\ Field(u, "map") = x /\ u.t = "table"
    BY <2>2, <2>3, ShapeOfSingle, FieldOfSingle
  <2>5. QED
    BY <1>1, <1>5, <2>1, <2>4
<1>6. CASE r.k = "set"
  <2>1. PICK x : x = Stored({Pair(ToLua(w)[e], Bool(TRUE)) : e \in r.elems})
    OBVIOUS
  <2>2. u = Single("set", x)
    BY <1>2, <1>6, <2>1 DEF ValueOf
  <2>3. x.t = Tried[7][2] /\ Tried[7][1] = "set"
    BY <1>3, <2>1, TriedIs
  <2>4. Shape(u) = "set" /\ Field(u, "set") = x /\ u.t = "table"
    BY <2>2, <2>3, ShapeOfSingle, FieldOfSingle
  <2>5. QED
    BY <1>1, <1>6, <2>1, <2>4
<1>7. QED
  BY <1>4, <1>5, <1>6 DEF Containers

\* Only a null of RESP3 is nil.
LEMMA NilIsNull ==
    ASSUME NEW w \in {2, 3}, NEW r \in Replies[w]
    PROVE  ToLua(w)[r] = Nil <=> w = 3 /\ r = Null
<1>1. CASE r.k \in Containers
  <2>1. ToLua(w)[r].t = "table" /\ Nil.t # "table" /\ r # Null
    BY <1>1, ContainerValue DEF Nil, Null, Containers
  <2>2. QED
    BY <2>1
<1>2. QED
  BY <1>1, LeafValue

\* How value and rest of a container are made up.
ArrayOf(R, w, u, x, n) ==
    /\ x = Array([i \in 1 .. n |-> x.items[i]])
    /\ \A j \in 1 .. n : Get(u, Num(j)) # Nil /\ HandsIn(R, w, Get(u, Num(j)), x.items[j])
    /\ Get(u, Num(n + 1)) = Nil

MapOf(R, w, u, x) ==
    /\ x = Map(x.pairs)
    /\ \A q \in Field(u, "map").f :
           \E z \in x.pairs : HandsIn(R, w, q.key, z[1]) /\ HandsIn(R, w, q.val, z[2])
    /\ \A z \in x.pairs :
           /\ z = <<z[1], z[2]>>
           /\ \E q \in Field(u, "map").f : HandsIn(R, w, q.key, z[1]) /\ HandsIn(R, w, q.val, z[2])

ElementsFrom(R, w, u, x) ==
    /\ x = SetOf(x.elems)
    /\ \A q \in Field(u, "set").f : \E z \in x.elems : HandsIn(R, w, q.key, z)
    /\ \A z \in x.elems : \E q \in Field(u, "set").f : HandsIn(R, w, q.key, z)

Describes(R, w, u, x) ==
    /\ ~IsContainer(u) => x = TokenOf(w, u) /\ x.k \notin Containers
    /\ IsContainer(u) /\ Shape(u) = "array" => \E n \in Nat : ArrayOf(R, w, u, x, n)
    /\ IsContainer(u) /\ Shape(u) = "map" => MapOf(R, w, u, x)
    /\ IsContainer(u) /\ Shape(u) = "set" => ElementsFrom(R, w, u, x)

LEMMA ArrayDescribed ==
    ASSUME NEW w \in {2, 3}, NEW r \in Replies[w], NEW R, Parts(r) \subseteq R, r.k = "array"
    PROVE  \E n \in Nat : ArrayOf(R, w, ToLua(w)[r], HandedOn(w)[r], n)
<1>1. PICK u, x : u = ToLua(w)[r] /\ x = HandedOn(w)[r]
  OBVIOUS
<1>2. PICK s : s = r.items
  OBVIOUS
<1>3. PICK l \in Nat : l = Len(s) /\ DOMAIN s = 1 .. l /\ \A i \in 1 .. l : s[i] \in Replies[w] /\ s[i] \in R
  BY <1>2, ItemsOf
<1>4. PICK n : n = Kept(w, s)
  OBVIOUS
<1>5. /\ n \in 0 .. l
      /\ \A i \in 1 .. n : w = 3 => s[i] # Null
      /\ n < l => w = 3 /\ s[n + 1] = Null
  BY <1>3, <1>4, KeptUpToNull
<1>6. x = Array([i \in 1 .. n |-> HandedOn(w)[s[i]]])
  BY <1>1, <1>2, <1>4, Conversions, LeftOfArray
<1>7. u.f = {p \in {Pair(Num(i), ToLua(w)[s[i]]) : i \in 1 .. l} : p.val # Nil}
  <2>1. PICK S : S = {Pair(Num(i), ToLua(w)[r.items[i]]) : i \in DOMAIN r.items}
    OBVIOUS
  <2>2. u = Stored(S)
    BY <1>1, <2>1, ContainerValue DEF Containers
  <2>3. u.f = {p \in S : p.val # Nil}
    BY <2>2 DEF Stored, Table
  <2>4. S = {Pair(Num(i), ToLua(w)[s[i]]) : i \in 1 .. l}
    BY <1>2, <1>3, <2>1
  <2>5. QED
    BY <2>3, <2>4
<1>8. ASSUME NEW j \in 1 .. l, ToLua(w)[s[j]] # Nil
      PROVE  Get(u, Num(j)) = ToLua(w)[s[j]]
  <2>1. \A i \in 1 .. l : Num(i) = Num(j) => i = j
    BY DEF Num
  <2>2. {p \in u.f : p.key = Num(j)} = {Pair(Num(j), ToLua(w)[s[j]])}
    BY <1>7, <1>8, <2>1 DEF Pair
  <2>3. (CHOOSE p \in {Pair(Num(j), ToLua(w)[s[j]])} : TRUE) = Pair(Num(j), ToLua(w)[s[j]])
    OBVIOUS
  <2>4. QED
    BY <2>2, <2>3 DEF Get, Pair
<1>9. ASSUME NEW j \in Nat, j \in 1 .. l => ToLua(w)[s[j]] = Nil
      PROVE  Get(u, Num(j)) = Nil
  <2>1. \A i \in 1 .. l : Num(i) = Num(j) => i = j
    BY DEF Num
  <2>2. {p \in u.f : p.key = Num(j)} = {}
    BY <1>7, <1>9, <2>1 DEF Pair
  <2>3. QED
    BY <2>2 DEF Get
<1>10. \A j \in 1 .. n : Get(u, Num(j)) # Nil /\ HandsIn(R, w, Get(u, Num(j)), HandedOn(w)[s[j]])
  <2> TAKE j \in 1 .. n
  <2>1. j \in 1 .. l
    BY <1>5
  <2>2. ToLua(w)[s[j]] # Nil
    BY <1>3, <1>5, <2>1, NilIsNull
  <2>3. QED
    BY <1>3, <1>8, <2>1, <2>2 DEF HandsIn
<1>11. Get(u, Num(n + 1)) = Nil
  <2>1. n + 1 \in Nat /\ (n + 1 \in 1 .. l => n < l)
    BY <1>5
  <2>2. n + 1 \in 1 .. l => ToLua(w)[s[n + 1]] = Nil
    BY <1>3, <1>5, <2>1, NilIsNull
  <2>3. QED
    BY <1>9, <2>1, <2>2
<1>12. x.items = [i \in 1 .. n |-> HandedOn(w)[s[i]]]
  BY <1>6 DEF Array
<1>13. ArrayOf(R, w, u, x, n)
  <2>1. \A j \in 1 .. n : x.items[j] = HandedOn(w)[s[j]]
    BY <1>12
  <2>2. [i \in 1 .. n |-> x.items[i]] = [i \in 1 .. n |-> HandedOn(w)[s[i]]]
    BY <2>1
  <2>3. QED
    BY <1>6, <1>10, <1>11, <2>1, <2>2 DEF ArrayOf
<1>14. n \in Nat
  BY <1>5
<1>15. QED
  BY <1>1, <1>13, <1>14

LEMMA MapDescribed ==
    ASSUME NEW w \in {2, 3}, NEW r \in Replies[w], NEW R, Parts(r) \subseteq R, r.k = "map"
    PROVE  MapOf(R, w, ToLua(w)[r], HandedOn(w)[r])
<1>1. PICK u, x : u = ToLua(w)[r] /\ x = HandedOn(w)[r]
  OBVIOUS
<1>2. PICK m : m = Field(u, "map")
  OBVIOUS
<1>3. PICK S, W : /\ W = Winning(r, ToLua(w))
                  /\ S = {Pair(ToLua(w)[p[1]], ToLua(w)[p[2]]) : p \in W}
  OBVIOUS
<1>4. m.f = {q \in S : q.val # Nil}
  <2>1. m = Stored(S)
    BY <1>1, <1>2, <1>3, ContainerValue DEF Containers
  <2>2. QED
    BY <2>1 DEF Stored, Table
<1>5. PICK P : P = {p \in W : w = 3 => p[2] # Null}
  OBVIOUS
<1>6. x = Map({<<HandedOn(w)[p[1]], HandedOn(w)[p[2]]>> : p \in P})
  <2>1. x = LeftOf(r, w, HandedOn(w))
    BY <1>1, Conversions
  <2>2. LeftOf(r, w, HandedOn(w))
        = Map({<<HandedOn(w)[p[1]], HandedOn(w)[p[2]]>> : p \in {q \in Winning(r, ToLua(w)) : w = 3 => q[2] # Null}})
    BY DEF LeftOf
  <2>3. QED
    BY <1>3, <1>5, <2>1, <2>2
<1>7. x.pairs = {<<HandedOn(w)[p[1]], HandedOn(w)[p[2]]>> : p \in P} /\ x = Map(x.pairs)
  BY <1>6 DEF Map
<1>8. ASSUME NEW p \in W
      PROVE  /\ p[1] \in R /\ p[2] \in R
             /\ ToLua(w)[p[2]] = Nil <=> w = 3 /\ p[2] = Null
  <2>1. p \in Entries(r)
    BY <1>3, WinningOf
  <2>2. QED
    BY <2>1, PairsOf, NilIsNull
<1>9. ASSUME NEW p \in P
      PROVE  \E q \in m.f : HandsIn(R, w, q.key, HandedOn(w)[p[1]]) /\ HandsIn(R, w, q.val, HandedOn(w)[p[2]])
  <2>1. PICK q : q = Pair(ToLua(w)[p[1]], ToLua(w)[p[2]])
    OBVIOUS
  <2>2. p \in W /\ q.key = ToLua(w)[p[1]] /\ q.val = ToLua(w)[p[2]]
    BY <1>5, <2>1 DEF Pair
  <2>3. q \in m.f
    BY <1>3, <1>4, <1>5, <1>8, <2>1, <2>2
  <2>4. QED
    BY <1>8, <2>2, <2>3 DEF HandsIn
<1>10. ASSUME NEW q \in m.f
       PROVE  \E p \in P : HandsIn(R, w, q.key, HandedOn(w)[p[1]]) /\ HandsIn(R, w, q.val, HandedOn(w)[p[2]])
  <2>1. q \in S /\ q.val # Nil
    BY <1>4
  <2>2. PICK p \in W : q = Pair(ToLua(w)[p[1]], ToLua(w)[p[2]])
    BY <1>3, <2>1
  <2>3. q.key = ToLua(w)[p[1]] /\ q.val = ToLua(w)[p[2]]
    BY <2>2 DEF Pair
  <2>4. p \in P
    BY <1>5, <1>8, <2>1, <2>3
  <2>5. QED
    BY <1>8, <2>3, <2>4 DEF HandsIn
<1>11. \A q \in m.f : \E z \in x.pairs : HandsIn(R, w, q.key, z[1]) /\ HandsIn(R, w, q.val, z[2])
  <2> TAKE q \in m.f
  <2>1. PICK p \in P : HandsIn(R, w, q.key, HandedOn(w)[p[1]]) /\ HandsIn(R, w, q.val, HandedOn(w)[p[2]])
    BY <1>10
  <2>2. <<HandedOn(w)[p[1]], HandedOn(w)[p[2]]>> \in x.pairs
    BY <1>7
  <2>3. QED
    BY <2>1, <2>2
<1>12. \A z \in x.pairs :
           /\ z = <<z[1], z[2]>>
           /\ \E q \in m.f : HandsIn(R, w, q.key, z[1]) /\ HandsIn(R, w, q.val, z[2])
  <2> TAKE z \in x.pairs
  <2>1. PICK p \in P : z = <<HandedOn(w)[p[1]], HandedOn(w)[p[2]]>>
    BY <1>7
  <2>2. z[1] = HandedOn(w)[p[1]] /\ z[2] = HandedOn(w)[p[2]] /\ z = <<z[1], z[2]>>
    BY <2>1
  <2>3. QED
    BY <1>9, <2>2
<1>13. MapOf(R, w, u, x)
  BY <1>2, <1>7, <1>11, <1>12 DEF MapOf
<1>14. QED
  BY <1>1, <1>13

LEMMA SetDescribed ==
    ASSUME NEW w \in {2, 3}, NEW r \in Replies[w], NEW R, Parts(r) \subseteq R, r.k = "set"
    PROVE  ElementsFrom(R, w, ToLua(w)[r], HandedOn(w)[r])
<1>1. PICK u, x : u = ToLua(w)[r] /\ x = HandedOn(w)[r]
  OBVIOUS
<1>2. PICK m : m = Field(u, "set")
  OBVIOUS
<1>3. PICK S : S = {Pair(ToLua(w)[e], Bool(TRUE)) : e \in r.elems}
  OBVIOUS
<1>4. m.f = {q \in S : q.val # Nil}
  <2>1. m = Stored(S)
    BY <1>1, <1>2, <1>3, ContainerValue DEF Containers
  <2>2. QED
    BY <2>1 DEF Stored, Table
<1>5. x = SetOf({HandedOn(w)[e] : e \in r.elems})
  <2>1. x = LeftOf(r, w, HandedOn(w))
    BY <1>1, Conversions
  <2>2. LeftOf(r, w, HandedOn(w)) = SetOf({HandedOn(w)[e] : e \in r.elems})
    BY DEF LeftOf
  <2>3. QED
    BY <2>1, <2>2
<1>6. x.elems = {HandedOn(w)[e] : e \in r.elems} /\ x = SetOf(x.elems)
  BY <1>5 DEF SetOf
<1>7. \A e \in r.elems : e \in R
  BY ElementsOf
<1>8. \A q \in m.f : \E z \in x.elems : HandsIn(R, w, q.key, z)
  <2> TAKE q \in m.f
  <2>1. PICK e \in r.elems : q = Pair(ToLua(w)[e], Bool(TRUE))
    BY <1>3, <1>4
  <2>2. q.key = ToLua(w)[e]
    BY <2>1 DEF Pair
  <2>3. QED
    BY <1>6, <1>7, <2>2 DEF HandsIn
<1>9. \A z \in x.elems : \E q \in m.f : HandsIn(R, w, q.key, z)
  <2> TAKE z \in x.elems
  <2>1. PICK e \in r.elems : z = HandedOn(w)[e]
    BY <1>6
  <2>2. PICK q : q = Pair(ToLua(w)[e], Bool(TRUE))
    OBVIOUS
  <2>3. q.key = ToLua(w)[e] /\ q.val # Nil /\ q \in S
    BY <1>3, <2>2 DEF Pair, Bool, Nil
  <2>4. QED
    BY <1>4, <1>7, <2>1, <2>3 DEF HandsIn
<1>10. ElementsFrom(R, w, u, x)
  BY <1>2, <1>6, <1>8, <1>9 DEF ElementsFrom
<1>11. QED
  BY <1>1, <1>10

LEMMA Described ==
    ASSUME NEW w \in {2, 3}, NEW r \in Replies[w], NEW R, Parts(r) \subseteq R
    PROVE  Describes(R, w, ToLua(w)[r], HandedOn(w)[r])
<1>1. CASE r.k \notin Containers
  <2>1. /\ ~IsContainer(ToLua(w)[r]) /\ TokenOf(w, ToLua(w)[r]) = HandedOn(w)[r]
        /\ HandedOn(w)[r].k \notin Containers
    BY <1>1, LeafValue
  <2>2. QED
    BY <1>1, <2>1 DEF Describes
<1>2. CASE r.k \in Containers
  <2>1. Shape(ToLua(w)[r]) = r.k /\ IsContainer(ToLua(w)[r])
    BY <1>2, ContainerValue DEF IsContainer
  <2>2. CASE r.k = "array"
    BY <2>1, <2>2, ArrayDescribed DEF Describes
  <2>3. CASE r.k = "map"
    BY <2>1, <2>3, MapDescribed DEF Describes
  <2>4. CASE r.k = "set"
    BY <2>1, <2>4, SetDescribed DEF Describes
  <2>5. QED
    BY <1>2, <2>2, <2>3, <2>4 DEF Containers
<1>3. QED
  BY <1>1, <1>2

-----------------------------------------------------------------------------
(* What is left of a reply depends on its value alone.                      *)

Functional(R, w) == \A u, x, y : HandsIn(R, w, u, x) /\ HandsIn(R, w, u, y) => x = y

LEMMA SameLeft ==
    ASSUME NEW R, NEW w, Functional(R, w), NEW u, NEW x, NEW y,
           Describes(R, w, u, x), Describes(R, w, u, y)
    PROVE  x = y
<1>1. CASE ~IsContainer(u)
  BY <1>1 DEF Describes
<1>2. CASE IsContainer(u) /\ Shape(u) = "array"
  <2>1. PICK n \in Nat : ArrayOf(R, w, u, x, n)
    BY <1>2 DEF Describes
  <2>2. PICK m \in Nat : ArrayOf(R, w, u, y, m)
    BY <1>2 DEF Describes
  <2>3. ~(n < m) /\ ~(m < n)
    <3>1. n < m => n + 1 \in 1 .. m
      OBVIOUS
    <3>2. m < n => m + 1 \in 1 .. n
      OBVIOUS
    <3>3. QED
      BY <2>1, <2>2, <3>1, <3>2 DEF ArrayOf
  <2>4. n = m
    BY <2>3
  <2>5. \A j \in 1 .. n : x.items[j] = y.items[j]
    BY <2>1, <2>2, <2>4 DEF ArrayOf, Functional
  <2>6. [i \in 1 .. n |-> x.items[i]] = [i \in 1 .. n |-> y.items[i]]
    BY <2>5
  <2>7. QED
    BY <2>1, <2>2, <2>4, <2>6 DEF ArrayOf
<1>3. CASE IsContainer(u) /\ Shape(u) = "map"
  <2>1. MapOf(R, w, u, x) /\ MapOf(R, w, u, y)
    BY <1>3 DEF Describes
  <2>2. \A a, b : MapOf(R, w, u, a) /\ MapOf(R, w, u, b) => a.pairs \subseteq b.pairs
    <3> TAKE a, b
    <3> SUFFICES ASSUME MapOf(R, w, u, a), MapOf(R, w, u, b), NEW z \in a.pairs
                 PROVE  z \in b.pairs
      OBVIOUS
    <3>1. PICK q \in Field(u, "map").f : HandsIn(R, w, q.key, z[1]) /\ HandsIn(R, w, q.val, z[2])
      BY DEF MapOf
    <3>2. PICK z2 \in b.pairs : HandsIn(R, w, q.key, z2[1]) /\ HandsIn(R, w, q.val, z2[2])
      BY DEF MapOf
    <3>3. z[1] = z2[1] /\ z[2] = z2[2]
      BY <3>1, <3>2 DEF Functional
    <3>4. z = <<z[1], z[2]>> /\ z2 = <<z2[1], z2[2]>>
      BY DEF MapOf
    <3>5. z = z2
      BY <3>3, <3>4
    <3>6. QED
      BY <3>5
  <2>3. x.pairs = y.pairs
    BY <2>1, <2>2
  <2>4. QED
    BY <2>1, <2>3 DEF MapOf
<1>4. CASE IsContainer(u) /\ Shape(u) = "set"
  <2>1. ElementsFrom(R, w, u, x) /\ ElementsFrom(R, w, u, y)
    BY <1>4 DEF Describes
  <2>2. \A a, b : ElementsFrom(R, w, u, a) /\ ElementsFrom(R, w, u, b) => a.elems \subseteq b.elems
    BY DEF ElementsFrom, Functional
  <2>3. x.elems = y.elems
    BY <2>1, <2>2
  <2>4. QED
    BY <2>1, <2>3 DEF ElementsFrom
<1>5. QED
  BY <1>1, <1>2, <1>3, <1>4 DEF IsContainer, Containers

LEMMA LeftByValue ==
    ASSUME NEW w \in {2, 3}
    PROVE  Functional(Replies[w], w)
<1> DEFINE S == {n \in Nat : Functional(Shallow(w, n), w)}
<1>1. Functional(Shallow(w, 0), w)
  <2>1. Shallow(w, 0) = {}
    BY DepthAssumption DEF Shallow
  <2>2. QED
    BY <2>1 DEF Functional, HandsIn
<1>2. ASSUME NEW n \in Nat, Functional(Shallow(w, n), w)
      PROVE  Functional(Shallow(w, n + 1), w)
  <2>1. \A r \in Shallow(w, n + 1) : Describes(Shallow(w, n), w, ToLua(w)[r], HandedOn(w)[r])
    <3> TAKE r \in Shallow(w, n + 1)
    <3>1. r \in Replies[w] /\ Parts(r) \subseteq Shallow(w, n)
      BY PartsAreShallow DEF Shallow
    <3>2. QED
      BY <3>1, Described
  <2>2. QED
    BY <1>2, <2>1, SameLeft DEF Functional, HandsIn
<1>3. \A n \in Nat : Functional(Shallow(w, n), w)
  <2>1. 0 \in S /\ \A n \in Nat : n \in S => n + 1 \in S
    BY <1>1, <1>2
  <2>2. \A n \in Nat : n \in S
    <3> HIDE DEF S
    <3>1. QED
      BY <2>1, Induction
  <2>3. QED
    BY <2>2
<1>4. ASSUME NEW u, NEW x, NEW y, HandsIn(Replies[w], w, u, x), HandsIn(Replies[w], w, u, y)
      PROVE  x = y
  <2>1. PICK r \in Replies[w] : ToLua(w)[r] = u /\ HandedOn(w)[r] = x
    BY <1>4 DEF HandsIn
  <2>2. PICK r2 \in Replies[w] : ToLua(w)[r2] = u /\ HandedOn(w)[r2] = y
    BY <1>4 DEF HandsIn
  <2>3. Depth[r] \in Nat /\ Depth[r2] \in Nat
    BY DepthAssumption
  <2>4. PICK n \in Nat : Depth[r] < n /\ Depth[r2] < n
    <3>1. Depth[r] + Depth[r2] + 1 \in Nat /\ Depth[r] < Depth[r] + Depth[r2] + 1
          /\ Depth[r2] < Depth[r] + Depth[r2] + 1
      BY <2>3
    <3>2. QED
      BY <3>1
  <2>5. HandsIn(Shallow(w, n), w, u, x) /\ HandsIn(Shallow(w, n), w, u, y)
    BY <2>1, <2>2, <2>4 DEF HandsIn, Shallow
  <2>6. QED
    BY <1>3, <2>5 DEF Functional
<1>5. QED
  BY <1>4 DEF Functional

-----------------------------------------------------------------------------
(* Reading a stream.                                                        *)

LEMMA EqualSeqs ==
    ASSUME NEW s, NEW t, IsSeq(s), IsSeq(t), Len(s) = Len(t), \A i \in 1 .. Len(s) : s[i] = t[i]
    PROVE  s = t
<1>1. PICK S, T : s \in Seq(S) /\ t \in Seq(T)
  BY DEF IsSeq
<1>2. s \in Seq(S \cup T) /\ t \in Seq(S \cup T)
  BY <1>1, SeqMonotonic
<1>3. QED
  BY <1>2, SeqEqual

\* What is read from e and the replies ys behind it, of which it takes n.
IsTaken(e, ys, l, n, r) ==
    /\ IsSeq(r) /\ Len(r) = l - n + 1 /\ r[1] = Composed(e, SubSeq(ys, 1, n))
    /\ \A i \in 1 .. l - n : r[i + 1] = ys[n + i]

LEMMA TakingIs ==
    ASSUME NEW e, NEW ys, IsSeq(ys), NEW l \in Nat, l = Len(ys),
           NEW n, n = Arity(e), n \in 0 .. l
    PROVE  IsTaken(e, ys, l, n, Taking(e, ys))
<1>1. PICK S : ys \in Seq(S)
  BY DEF IsSeq
<1>2. Len(ys) \in Nat /\ \A i \in 1 .. Len(ys) : ys[i] \in S
  BY <1>1, LenProperties, ElementOfSeq
<1>3. l = Len(ys) /\ n \in 0 .. l
  OBVIOUS
<1>4. n + 1 \in Int /\ l \in Int /\ \A i \in n + 1 .. l : ys[i] \in S
  BY <1>2, <1>3
<1>5. PICK t : t = SubSeq(ys, n + 1, l)
  OBVIOUS
<1>6. /\ t \in Seq(S)
      /\ Len(t) = IF n + 1 <= l THEN l - (n + 1) + 1 ELSE 0
      /\ \A i \in 1 .. l - (n + 1) + 1 : t[i] = ys[n + 1 + i - 1]
  BY <1>4, <1>5, SubSeqProperties
<1>7. Len(t) = l - n /\ \A i \in 1 .. l - n : t[i] = ys[n + i]
  <2>1. n \in Nat /\ n <= l
    BY <1>3
  <2>2. /\ l - (n + 1) + 1 = l - n
        /\ (IF n + 1 <= l THEN l - (n + 1) + 1 ELSE 0) = l - n
        /\ \A i \in 1 .. l - n : n + 1 + i - 1 = n + i
    BY <2>1
  <2>3. QED
    BY <1>6, <2>2
<1>8. PICK c : c = Composed(e, SubSeq(ys, 1, n))
  OBVIOUS
<1>9. <<c>> \in Seq(S \cup {c}) /\ t \in Seq(S \cup {c}) /\ Len(<<c>>) = 1
  BY <1>6, SeqMonotonic
<1>10. PICK r : r = <<c>> \o t
  OBVIOUS
<1>11. /\ r \in Seq(S \cup {c}) /\ Len(r) = 1 + (l - n)
       /\ \A i \in 1 .. 1 + (l - n) : r[i] = IF i <= 1 THEN (<<c>>)[i] ELSE t[i - 1]
  BY <1>7, <1>9, <1>10, ConcatProperties
<1>12. Taking(e, ys) = r
  BY <1>3, <1>5, <1>8, <1>10 DEF Taking
<1>13. r[1] = c
  BY <1>3, <1>11
<1>14. \A i \in 1 .. l - n : r[i + 1] = t[i]
  BY <1>3, <1>11
<1>15. QED
  <2>1. IsSeq(r) /\ Len(r) = l - n + 1
    BY <1>3, <1>11 DEF IsSeq
  <2>2. IsTaken(e, ys, l, n, r)
    BY <1>7, <1>8, <1>13, <1>14, <2>1 DEF IsTaken
  <2>3. QED
    BY <1>12, <2>2

\* A reply more behind is a reply more.
LEMMA AppendTaking ==
    ASSUME NEW e, NEW ys, IsSeq(ys), Enough(e, ys), NEW x
    PROVE  Enough(e, Append(ys, x)) /\ Taking(e, Append(ys, x)) = Append(Taking(e, ys), x)
<1>1. PICK n : n = Arity(e)
  OBVIOUS
<1>2. PICK l, m \in Nat : l = Len(ys) /\ m = l + 1
  <2>1. Len(ys) \in Nat /\ Len(ys) + 1 \in Nat
    BY AnySeq
  <2>2. QED
    BY <2>1
<1>3. n \in 0 .. l
  BY <1>1, <1>2 DEF Enough
<1>4. PICK zs : zs = Append(ys, x)
  OBVIOUS
<1>5. IsSeq(zs) /\ Len(zs) = l + 1 /\ (\A i \in 1 .. l : zs[i] = ys[i]) /\ zs[l + 1] = x
  BY <1>2, <1>4, AppendAny
<1>6. n \in 0 .. Len(zs) /\ n \in 0 .. Len(ys)
  BY <1>2, <1>3, <1>5
<1>7. SubSeq(zs, 1, n) = SubSeq(ys, 1, n)
  <2>1. /\ IsSeq(SubSeq(ys, 1, n)) /\ Len(SubSeq(ys, 1, n)) = n
        /\ \A i \in 1 .. n : SubSeq(ys, 1, n)[i] = ys[i]
    BY <1>6, CutAny
  <2>2. /\ IsSeq(SubSeq(zs, 1, n)) /\ Len(SubSeq(zs, 1, n)) = n
        /\ \A i \in 1 .. n : SubSeq(zs, 1, n)[i] = zs[i]
    BY <1>5, <1>6, CutAny
  <2>3. \A i \in 1 .. n : zs[i] = ys[i]
    BY <1>3, <1>5
  <2>4. QED
    BY <2>1, <2>2, <2>3, EqualSeqs
<1>8. PICK a : a = Taking(e, ys)
  OBVIOUS
<1>9. PICK b : b = Taking(e, zs)
  OBVIOUS
<1>10. /\ IsSeq(a) /\ Len(a) = l - n + 1 /\ a[1] = Composed(e, SubSeq(ys, 1, n))
       /\ \A i \in 1 .. l - n : a[i + 1] = ys[n + i]
  <2>1. IsTaken(e, ys, l, n, a)
    BY <1>1, <1>2, <1>3, <1>8, TakingIs
  <2>2. QED
    BY <2>1 DEF IsTaken
<1>11. /\ IsSeq(b) /\ Len(b) = m - n + 1 /\ b[1] = Composed(e, SubSeq(zs, 1, n))
       /\ \A i \in 1 .. m - n : b[i + 1] = zs[n + i]
  <2>1. m = Len(zs) /\ n \in 0 .. m
    BY <1>2, <1>3, <1>5
  <2>2. IsTaken(e, zs, m, n, b)
    BY <1>1, <1>5, <1>9, <2>1, TakingIs
  <2>3. QED
    BY <2>2 DEF IsTaken
<1>12. PICK d : d = Append(a, x)
  OBVIOUS
<1>13. IsSeq(d) /\ Len(d) = l - n + 1 + 1 /\ (\A i \in 1 .. l - n + 1 : d[i] = a[i]) /\ d[l - n + 1 + 1] = x
  BY <1>10, <1>12, AppendAny
<1>14. \A i \in 1 .. l - n + 2 : b[i] = d[i]
  <2> TAKE i \in 1 .. l - n + 2
  <2>1. CASE i = 1
    <3>1. 1 \in 1 .. l - n + 1
      BY <1>3
    <3>2. QED
      BY <1>7, <1>10, <1>11, <1>13, <2>1, <3>1
  <2>2. CASE i # 1 /\ i # l - n + 2
    <3>1. PICK k \in 1 .. l - n : i = k + 1
      <4>1. i - 1 \in 1 .. l - n /\ i = i - 1 + 1
        BY <1>3, <2>2
      <4>2. QED
        BY <4>1
    <3>2. k \in 1 .. m - n /\ n + k \in 1 .. l /\ i \in 1 .. l - n + 1
      BY <1>2, <1>3, <3>1
    <3>3. QED
      BY <1>5, <1>10, <1>11, <1>13, <3>1, <3>2
  <2>3. CASE i = l - n + 2
    <3>1. l - n + 1 \in 1 .. m - n /\ l - n + 1 + 1 = i /\ n + (l - n + 1) = l + 1
      BY <1>2, <1>3, <2>3
    <3>2. QED
      BY <1>5, <1>11, <1>13, <3>1
  <2>4. QED
    BY <2>1, <2>2, <2>3
<1>15. b = d
  <2>1. Len(b) = Len(d) /\ Len(b) = l - n + 2
    BY <1>2, <1>3, <1>11, <1>13
  <2>2. \A i \in 1 .. Len(b) : b[i] = d[i]
    BY <1>14, <2>1
  <2>3. QED
    BY <1>11, <1>13, <2>1, <2>2, EqualSeqs
<1>16. QED
  BY <1>1, <1>4, <1>6, <1>8, <1>9, <1>12, <1>15 DEF Enough

\* A token that takes every reply behind it makes them one.
LEMMA TakingAll ==
    ASSUME NEW e, NEW ys, IsSeq(ys), Arity(e) = Len(ys)
    PROVE  Enough(e, ys) /\ Taking(e, ys) = <<Composed(e, ys)>>
<1>1. PICK l \in Nat : l = Len(ys)
  BY AnySeq
<1>2. l \in 0 .. Len(ys) /\ l = Arity(e)
  BY <1>1
<1>3. SubSeq(ys, 1, l) = ys
  BY <1>1, SubSeqFull DEF IsSeq
<1>4. PICK a : a = Taking(e, ys)
  OBVIOUS
<1>5. IsSeq(a) /\ Len(a) = l - l + 1 /\ a[1] = Composed(e, ys)
  <2>1. l \in 0 .. l /\ l = Arity(e)
    BY <1>1
  <2>2. IsTaken(e, ys, l, l, a)
    BY <1>1, <1>4, <2>1, TakingIs
  <2>3. QED
    BY <1>3, <2>2 DEF IsTaken
<1>6. PICK c : c = Composed(e, ys)
  OBVIOUS
<1>7. IsSeq(<<c>>) /\ Len(<<c>>) = 1 /\ (<<c>>)[1] = c /\ l - l + 1 = 1
  BY Tuples
<1>8. \A i \in 1 .. 1 : i = 1
  OBVIOUS
<1>9. a = <<c>>
  BY <1>5, <1>6, <1>7, <1>8, EqualSeqs
<1>10. QED
  BY <1>2, <1>4, <1>6, <1>9 DEF Enough

LEMMA ReadingIs ==
    ASSUME NEW s, NEW l \in Nat, Len(s) = l, NEW f,
           \A i \in 1 .. l + 1 : IsSeq(f[i]), f[l + 1] = <<>>,
           \A i \in 1 .. l : Enough(s[i], f[i + 1]) /\ f[i] = Taking(s[i], f[i + 1])
    PROVE  Reading(s)[1] = f[1]
<1> DEFINE Step(g, i) ==
      IF i < l + 1 /\ Enough(s[i], g[i + 1]) /\ (i + 1 = l + 1 \/ g[i + 1] # <<>>)
      THEN Taking(s[i], g[i + 1])
      ELSE <<>>
    h == [i \in 1 .. l + 1 |-> f[i]]
<1>1. \A i \in 1 .. l : f[i] # <<>>
  <2> TAKE i \in 1 .. l
  <2>1. i + 1 \in 1 .. l + 1
    OBVIOUS
  <2>2. IsSeq(f[i + 1]) /\ Enough(s[i], f[i + 1]) /\ f[i] = Taking(s[i], f[i + 1])
    BY <2>1
  <2>3. PICK n : n = Arity(s[i])
    OBVIOUS
  <2>4. PICK k \in Nat : k = Len(f[i + 1])
    BY <2>2, AnySeq
  <2>5. n \in 0 .. k
    BY <2>2, <2>3, <2>4 DEF Enough
  <2>6. IsTaken(s[i], f[i + 1], k, n, f[i])
    BY <2>2, <2>3, <2>4, <2>5, TakingIs
  <2>7. QED
    <3>1. IsSeq(f[i]) /\ Len(f[i]) = k - n + 1 /\ k - n + 1 # 0
      BY <2>5, <2>6 DEF IsTaken
    <3>2. QED
      BY <3>1, AnySeq
<1>2. \A i \in 1 .. l + 1 : Step(f, i) = f[i]
  <2> TAKE i \in 1 .. l + 1
  <2>1. CASE i = l + 1
    BY <2>1
  <2>2. CASE i \in 1 .. l
    <3>1. i < l + 1 /\ (i + 1 = l + 1 \/ i + 1 \in 1 .. l)
      BY <2>2
    <3>2. QED
      BY <1>1, <2>2, <3>1
  <2>3. QED
    BY <2>1, <2>2
<1>3. \A g : \A i \in 1 .. l + 1 : (i < l + 1 => g[i + 1] = f[i + 1]) => Step(g, i) = f[i]
  BY <1>2
<1>4. h = [i \in 1 .. l + 1 |-> Step(h, i)]
  <2>1. \A i \in 1 .. l + 1 : i < l + 1 => i + 1 \in 1 .. l + 1
    OBVIOUS
  <2>2. \A i \in 1 .. l + 1 : i < l + 1 => h[i + 1] = f[i + 1]
    BY <2>1
  <2> HIDE DEF Step
  <2>3. \A i \in 1 .. l + 1 : Step(h, i) = f[i]
    BY <1>3, <2>2
  <2>4. QED
    BY <2>3
<1>5. ASSUME NEW g, g = [i \in 1 .. l + 1 |-> Step(g, i)]
      PROVE  g[1] = f[1]
  <2> HIDE DEF Step, h
  <2>1. \A i \in 1 .. l + 1 : g[i] = Step(g, i)
    <3> TAKE i \in 1 .. l + 1
    <3>1. [j \in 1 .. l + 1 |-> Step(g, j)][i] = Step(g, i)
      OBVIOUS
    <3>2. QED
      BY <1>5, <3>1
  <2>2. PICK S : S = {n \in Nat : n <= l => g[l + 1 - n] = f[l + 1 - n]}
    OBVIOUS
  <2>3. 0 \in S
    <3>1. l + 1 \in 1 .. l + 1 /\ l + 1 - 0 = l + 1 /\ ~(l + 1 < l + 1)
      OBVIOUS
    <3>2. g[l + 1] = f[l + 1]
      BY <1>3, <2>1, <3>1
    <3>3. QED
      BY <2>2, <3>1, <3>2
  <2>4. ASSUME NEW n \in Nat, n \in S
        PROVE  n + 1 \in S
    <3>1. CASE n + 1 <= l
      <4>1. PICK i : i = l + 1 - (n + 1)
        OBVIOUS
      <4>2. i \in 1 .. l + 1 /\ i + 1 = l + 1 - n /\ n <= l
        BY <3>1, <4>1
      <4>3. g[i + 1] = f[i + 1]
        BY <2>2, <2>4, <4>2
      <4>4. g[i] = f[i]
        BY <1>3, <2>1, <4>2, <4>3
      <4>5. QED
        BY <2>2, <4>1, <4>4
    <3>2. CASE ~(n + 1 <= l)
      BY <2>2, <3>2
    <3>3. QED
      BY <3>1, <3>2
  <2>5. \A n \in Nat : n \in S
    BY <2>3, <2>4, Induction
  <2>6. l \in S /\ l + 1 - l = 1 /\ l <= l
    BY <2>5
  <2>7. QED
    BY <2>2, <2>6
<1>6. Reading(s) = CHOOSE g : g = [i \in 1 .. l + 1 |-> Step(g, i)]
  BY DEF Reading
<1>7. Reading(s) = [i \in 1 .. l + 1 |-> Step(Reading(s), i)]
  <2> HIDE DEF Step, h
  <2>1. QED
    BY <1>4, <1>6
<1>8. QED
  BY <1>5, <1>7

-----------------------------------------------------------------------------
(* A container under way.  The parts y of what is left of it, x, are those  *)
(* its frame has begun; the last of a pair's may be its key.                *)

HandsOver(w, u, x) == HandsIn(Replies[w], w, u, x)

Paired(w, q, y, m) == HandsOver(w, q.key, y[2 * m - 1]) /\ HandsOver(w, q.val, y[2 * m])

ArrayFrame(w, u, c, x, y) ==
    /\ Shape(u) = "array"
    /\ \A m \in 1 .. c.n : Get(u, Num(m)) # Nil /\ y[m] = x.items[m]

SetFrame(w, u, c, x, y) ==
    /\ Shape(u) = "set"
    /\ c.rest \subseteq Field(u, "set").f
    /\ \A q \in Field(u, "set").f \ c.rest : \E m \in 1 .. c.n : HandsOver(w, q.key, y[m])
    /\ \A m \in 1 .. c.n : \E q \in Field(u, "set").f : HandsOver(w, q.key, y[m])

MapFrame(w, u, c, x, y) ==
    /\ Shape(u) = "map"
    /\ c.rest \subseteq Field(u, "map").f
    /\ \A q \in Field(u, "map").f \ c.rest : \E m \in 1 .. c.n : Paired(w, q, y, m)
    /\ \A m \in 1 .. c.n : \E q \in Field(u, "map").f : Paired(w, q, y, m)

\* The key of q was taken, its value is next.
ValueFrame(w, u, c, x, y, q) ==
    /\ Shape(u) = "map"
    /\ c.rest \subseteq Field(u, "map").f
    /\ q \in Field(u, "map").f /\ HandsOver(w, q.key, y[2 * c.n - 1])
    /\ \A p \in Field(u, "map").f \ c.rest : p = q \/ \E m \in 1 .. c.n - 1 : Paired(w, p, y, m)
    /\ \A m \in 1 .. c.n - 1 : \E p \in Field(u, "map").f : Paired(w, p, y, m)

\* top is what the frame keeps on top of the stack.
FrameOf(w, c, x, y, top) ==
    /\ IsSeq(y) /\ Len(y) = Begun(c)
    /\ \E u :
           /\ HandsOver(w, u, x) /\ IsContainer(u)
           /\ c.k = "array" => top = u /\ ArrayFrame(w, u, c, x, y)
           /\ c.k = "set" => SetFrame(w, u, c, x, y)
           /\ c.k = "map" => MapFrame(w, u, c, x, y)
           /\ c.k = "value" => \E q : top = q.val /\ ValueFrame(w, u, c, x, y, q)

LEMMA Left ==
    ASSUME NEW w \in {2, 3}, NEW u, NEW x, HandsOver(w, u, x)
    PROVE  /\ Describes(Replies[w], w, u, x)
           /\ \A y : HandsOver(w, u, y) => x = y
<1>1. PICK r \in Replies[w] : ToLua(w)[r] = u /\ HandedOn(w)[r] = x
  BY DEF HandsOver, HandsIn
<1>2. Parts(r) \subseteq Replies[w]
  BY PartsAreReplies
<1>3. Describes(Replies[w], w, u, x)
  BY <1>1, <1>2, Described
<1>4. QED
  BY <1>3, LeftByValue DEF HandsOver, Functional

\* A container is begun: no part is taken.
LEMMA FrameBegun ==
    ASSUME NEW w \in {2, 3}, NEW u, NEW x, HandsOver(w, u, x), IsContainer(u),
           NEW c, c.k = Shape(u), c.n = 0,
           c.k = "set" => c.rest = Field(u, "set").f,
           c.k = "map" => c.rest = Field(u, "map").f,
           NEW top, c.k = "array" => top = u
    PROVE  FrameOf(w, c, x, <<>>, top)
<1>1. c.k \in {"array", "map", "set"} /\ 1 .. c.n = {}
  BY DEF IsContainer, Containers
<1>2. Begun(c) = 0
  BY <1>1 DEF Begun
<1>3. /\ c.k = "array" => ArrayFrame(w, u, c, x, <<>>)
      /\ c.k = "set" => SetFrame(w, u, c, x, <<>>)
      /\ c.k = "map" => MapFrame(w, u, c, x, <<>>)
  BY <1>1 DEF ArrayFrame, SetFrame, MapFrame
<1>4. IsSeq(<<>>) /\ Len(<<>>) = 0
  BY Tuples
<1>5. QED
  BY <1>1, <1>2, <1>3, <1>4 DEF FrameOf

LEMMA ArrayItem ==
    ASSUME NEW w \in {2, 3}, NEW u, NEW x, NEW c, NEW y,
           FrameOf(w, c, x, y, u), c.k = "array", c.n \in Nat
    PROVE  /\ HandsOver(w, u, x) /\ IsContainer(u) /\ ArrayFrame(w, u, c, x, y)
           /\ IsSeq(y) /\ Len(y) = c.n
           /\ \E n \in Nat : ArrayOf(Replies[w], w, u, x, n) /\ c.n <= n
<1>1. HandsOver(w, u, x) /\ IsContainer(u) /\ ArrayFrame(w, u, c, x, y)
  BY DEF FrameOf
<1>2. IsSeq(y) /\ Len(y) = c.n
  BY DEF FrameOf, Begun
<1>3. PICK n \in Nat : ArrayOf(Replies[w], w, u, x, n)
  <2>1. Describes(Replies[w], w, u, x) /\ Shape(u) = "array"
    BY <1>1, Left DEF ArrayFrame
  <2>2. QED
    BY <1>1, <2>1 DEF Describes
<1>4. c.n <= n
  <2>1. ~(c.n <= n) => n + 1 \in 1 .. c.n
    OBVIOUS
  <2>2. Get(u, Num(n + 1)) = Nil
    BY <1>3 DEF ArrayOf
  <2>3. QED
    BY <1>1, <2>1, <2>2 DEF ArrayFrame
<1>5. QED
  BY <1>1, <1>2, <1>3, <1>4

\* The next item is taken.
LEMMA ArrayGoesOn ==
    ASSUME NEW w \in {2, 3}, NEW u, NEW x, NEW c, NEW y,
           FrameOf(w, c, x, y, u), c.k = "array", c.n \in Nat,
           Get(u, Num(c.n + 1)) # Nil,
           NEW d, d.k = "array", d.n = c.n + 1
    PROVE  \E z : HandsOver(w, Get(u, Num(c.n + 1)), z) /\ FrameOf(w, d, x, Append(y, z), u)
<1>1. /\ HandsOver(w, u, x) /\ IsContainer(u) /\ ArrayFrame(w, u, c, x, y)
      /\ IsSeq(y) /\ Len(y) = c.n
  BY ArrayItem
<1>2. PICK n \in Nat : ArrayOf(Replies[w], w, u, x, n) /\ c.n <= n
  BY ArrayItem
<1>3. c.n + 1 \in 1 .. n
  <2>1. c.n # n
    BY <1>2 DEF ArrayOf
  <2>2. QED
    BY <1>2, <2>1
<1>4. PICK z : z = x.items[c.n + 1]
  OBVIOUS
<1>5. HandsOver(w, Get(u, Num(c.n + 1)), z)
  BY <1>2, <1>3, <1>4 DEF ArrayOf, HandsOver
<1>6. PICK y2 : y2 = Append(y, z)
  OBVIOUS
<1>7. /\ IsSeq(y2) /\ Len(y2) = c.n + 1
      /\ (\A i \in 1 .. c.n : y2[i] = y[i]) /\ y2[c.n + 1] = z
  BY <1>1, <1>6, AppendAny
<1>8. ArrayFrame(w, u, d, x, y2)
  <2>1. \A m \in 1 .. d.n : m \in 1 .. c.n \/ m = c.n + 1
    OBVIOUS
  <2>2. QED
    BY <1>1, <1>4, <1>7, <2>1 DEF ArrayFrame
<1>9. Begun(d) = c.n + 1
  BY DEF Begun
<1>10. FrameOf(w, d, x, y2, u)
  BY <1>1, <1>7, <1>8, <1>9 DEF FrameOf
<1>11. QED
  BY <1>5, <1>6, <1>10

\* All items are written: they make up what is left of the array.
LEMMA ArrayComposed ==
    ASSUME NEW w \in {2, 3}, NEW u, NEW x, NEW c, NEW y,
           FrameOf(w, c, x, y, u), c.k = "array", c.n \in Nat, Get(u, Num(c.n + 1)) = Nil,
           NEW e, e.k = "array"
    PROVE  Composed(e, y) = x
<1>1. ArrayFrame(w, u, c, x, y) /\ IsSeq(y) /\ Len(y) = c.n
  BY ArrayItem
<1>2. PICK n \in Nat : ArrayOf(Replies[w], w, u, x, n) /\ c.n <= n
  BY ArrayItem
<1>3. c.n = n
  <2>1. \A j \in 1 .. n : Get(u, Num(j)) # Nil
    BY <1>2 DEF ArrayOf
  <2>2. c.n + 1 \notin 1 .. n
    BY <2>1
  <2>3. QED
    BY <1>2, <2>2
<1>4. y = [i \in 1 .. n |-> x.items[i]]
  <2>1. y = [i \in 1 .. n |-> y[i]]
    <3>1. PICK S : y \in Seq(S)
      BY <1>1 DEF IsSeq
    <3>2. y \in [1 .. Len(y) -> S]
      BY <3>1, LenProperties
    <3>3. QED
      BY <1>1, <1>3, <3>2
  <2>2. \A i \in 1 .. n : y[i] = x.items[i]
    BY <1>1, <1>3 DEF ArrayFrame
  <2>3. QED
    BY <2>1, <2>2
<1>5. x = Array(y)
  BY <1>2, <1>4 DEF ArrayOf
<1>6. QED
  BY <1>5 DEF Composed

\* The next element of a set is taken.
LEMMA SetGoesOn ==
    ASSUME NEW w \in {2, 3}, NEW x, NEW c, NEW y, NEW top,
           FrameOf(w, c, x, y, top), c.k = "set", c.n \in Nat, NEW p \in c.rest,
           NEW d, d.k = "set", d.n = c.n + 1, d.rest = c.rest \ {p}, NEW top2
    PROVE  \E z : HandsOver(w, p.key, z) /\ FrameOf(w, d, x, Append(y, z), top2)
<1>1. IsSeq(y) /\ Len(y) = c.n
  BY DEF FrameOf, Begun
<1>2. PICK u : HandsOver(w, u, x) /\ IsContainer(u) /\ SetFrame(w, u, c, x, y)
  BY DEF FrameOf
<1>3. PICK E : E = Field(u, "set").f
  OBVIOUS
<1>4. /\ Shape(u) = "set" /\ c.rest \subseteq E
      /\ \A q \in E \ c.rest : \E m \in 1 .. c.n : HandsOver(w, q.key, y[m])
      /\ \A m \in 1 .. c.n : \E q \in E : HandsOver(w, q.key, y[m])
  BY <1>2, <1>3 DEF SetFrame
<1>5. PICK z : HandsOver(w, p.key, z)
  <2>1. ElementsFrom(Replies[w], w, u, x)
    BY <1>2, <1>4, Left DEF Describes
  <2>2. p \in E
    BY <1>4
  <2>3. QED
    BY <1>3, <2>1, <2>2 DEF ElementsFrom, HandsOver
<1>6. PICK y2 : y2 = Append(y, z)
  OBVIOUS
<1>7. /\ IsSeq(y2) /\ Len(y2) = c.n + 1
      /\ (\A i \in 1 .. c.n : y2[i] = y[i]) /\ y2[c.n + 1] = z
  BY <1>1, <1>6, AppendAny
<1>8. /\ \A m \in 1 .. c.n + 1 : m \in 1 .. c.n \/ m = c.n + 1
      /\ 1 .. c.n \subseteq 1 .. c.n + 1 /\ c.n + 1 \in 1 .. c.n + 1
  OBVIOUS
<1>9. \A q \in E \ d.rest : \E m \in 1 .. c.n + 1 : HandsOver(w, q.key, y2[m])
  <2> TAKE q \in E \ d.rest
  <2>1. CASE q = p
    BY <1>5, <1>7, <1>8, <2>1
  <2>2. CASE q # p
    <3>1. q \in E \ c.rest
      BY <2>2
    <3>2. PICK m \in 1 .. c.n : HandsOver(w, q.key, y[m])
      BY <1>4, <3>1
    <3>3. QED
      BY <1>7, <1>8, <3>2
  <2>3. QED
    BY <2>1, <2>2
<1>10. \A m \in 1 .. c.n + 1 : \E q \in E : HandsOver(w, q.key, y2[m])
  BY <1>4, <1>5, <1>7, <1>8
<1>11. SetFrame(w, u, d, x, y2)
  <2>1. d.rest \subseteq E
    BY <1>4
  <2>2. QED
    BY <1>3, <1>4, <1>9, <1>10, <2>1 DEF SetFrame
<1>12. Begun(d) = c.n + 1
  BY DEF Begun
<1>13. FrameOf(w, d, x, y2, top2)
  BY <1>2, <1>7, <1>11, <1>12 DEF FrameOf
<1>14. QED
  BY <1>5, <1>6, <1>13

LEMMA SetComposed ==
    ASSUME NEW w \in {2, 3}, NEW x, NEW c, NEW y, NEW top,
           FrameOf(w, c, x, y, top), c.k = "set", c.n \in Nat, c.rest = {}, NEW e, e.k = "set"
    PROVE  Composed(e, y) = x
<1>1. IsSeq(y) /\ Len(y) = c.n
  BY DEF FrameOf, Begun
<1>2. PICK u : HandsOver(w, u, x) /\ IsContainer(u) /\ SetFrame(w, u, c, x, y)
  BY DEF FrameOf
<1>3. PICK E : E = Field(u, "set").f
  OBVIOUS
<1>4. /\ Shape(u) = "set"
      /\ \A q \in E : \E m \in 1 .. c.n : HandsOver(w, q.key, y[m])
      /\ \A m \in 1 .. c.n : \E q \in E : HandsOver(w, q.key, y[m])
  BY <1>2, <1>3 DEF SetFrame
<1>5. /\ x = SetOf(x.elems)
      /\ \A q \in E : \E z \in x.elems : HandsOver(w, q.key, z)
      /\ \A z \in x.elems : \E q \in E : HandsOver(w, q.key, z)
  <2>1. ElementsFrom(Replies[w], w, u, x)
    BY <1>2, <1>4, Left DEF Describes
  <2>2. QED
    BY <1>3, <2>1 DEF ElementsFrom, HandsOver
<1>6. PICK P : P = {y[m] : m \in DOMAIN y}
  OBVIOUS
<1>7. DOMAIN y = 1 .. c.n
  BY <1>1, AnySeq
<1>8. \A z \in x.elems : z \in P
  <2> TAKE z \in x.elems
  <2>1. PICK q \in E : HandsOver(w, q.key, z)
    BY <1>5
  <2>2. PICK m \in 1 .. c.n : HandsOver(w, q.key, y[m])
    BY <1>4
  <2>3. z = y[m]
    BY <2>1, <2>2, Left
  <2>4. QED
    BY <1>6, <1>7, <2>3
<1>9. \A m \in 1 .. c.n : y[m] \in x.elems
  <2> TAKE m \in 1 .. c.n
  <2>1. PICK q \in E : HandsOver(w, q.key, y[m])
    BY <1>4
  <2>2. PICK z \in x.elems : HandsOver(w, q.key, z)
    BY <1>5
  <2>3. z = y[m]
    BY <2>1, <2>2, Left
  <2>4. QED
    BY <2>3
<1>10. P = x.elems
  BY <1>6, <1>7, <1>8, <1>9
<1>11. Composed(e, y) = SetOf(P)
  BY <1>6 DEF Composed
<1>12. QED
  BY <1>5, <1>10, <1>11

\* The next key of a map is taken; its value stays on top.
LEMMA MapGoesOn ==
    ASSUME NEW w \in {2, 3}, NEW x, NEW c, NEW y, NEW top,
           FrameOf(w, c, x, y, top), c.k = "map", c.n \in Nat, NEW p \in c.rest,
           NEW d, d.k = "value", d.n = c.n + 1, d.rest = c.rest \ {p}
    PROVE  \E z : HandsOver(w, p.key, z) /\ FrameOf(w, d, x, Append(y, z), p.val)
<1>1. IsSeq(y) /\ Len(y) = 2 * c.n
  BY DEF FrameOf, Begun
<1>2. PICK u : HandsOver(w, u, x) /\ IsContainer(u) /\ MapFrame(w, u, c, x, y)
  BY DEF FrameOf
<1>3. PICK E : E = Field(u, "map").f
  OBVIOUS
<1>4. /\ Shape(u) = "map" /\ c.rest \subseteq E
      /\ \A q \in E \ c.rest : \E m \in 1 .. c.n : Paired(w, q, y, m)
      /\ \A m \in 1 .. c.n : \E q \in E : Paired(w, q, y, m)
  BY <1>2, <1>3 DEF MapFrame
<1>5. PICK z : HandsOver(w, p.key, z)
  <2>1. MapOf(Replies[w], w, u, x)
    BY <1>2, <1>4, Left DEF Describes
  <2>2. p \in E
    BY <1>4
  <2>3. QED
    BY <1>3, <2>1, <2>2 DEF MapOf, HandsOver
<1>6. PICK y2 : y2 = Append(y, z)
  OBVIOUS
<1>7. /\ IsSeq(y2) /\ Len(y2) = 2 * c.n + 1
      /\ (\A i \in 1 .. 2 * c.n : y2[i] = y[i]) /\ y2[2 * c.n + 1] = z
  BY <1>1, <1>6, AppendAny
<1>8. \A m \in 1 .. c.n : \A q : Paired(w, q, y2, m) <=> Paired(w, q, y, m)
  <2>1. \A m \in 1 .. c.n : 2 * m - 1 \in 1 .. 2 * c.n /\ 2 * m \in 1 .. 2 * c.n
    OBVIOUS
  <2>2. QED
    BY <1>7, <2>1 DEF Paired
<1>9. d.n - 1 = c.n /\ 2 * d.n - 1 = 2 * c.n + 1
  OBVIOUS
<1>10. ValueFrame(w, u, d, x, y2, p)
  <2>1. d.rest \subseteq E /\ p \in E /\ HandsOver(w, p.key, y2[2 * d.n - 1])
    BY <1>4, <1>5, <1>7, <1>9
  <2>2. \A q \in E \ d.rest : q = p \/ \E m \in 1 .. d.n - 1 : Paired(w, q, y2, m)
    <3> TAKE q \in E \ d.rest
    <3>1. CASE q # p
      <4>1. q \in E \ c.rest
        BY <3>1
      <4>2. QED
        BY <1>4, <1>8, <1>9, <4>1
    <3>2. QED
      BY <3>1
  <2>3. \A m \in 1 .. d.n - 1 : \E q \in E : Paired(w, q, y2, m)
    BY <1>4, <1>8, <1>9
  <2>4. QED
    BY <1>3, <1>4, <2>1, <2>2, <2>3 DEF ValueFrame
<1>11. Begun(d) = 2 * c.n + 1
  BY <1>9 DEF Begun
<1>12. FrameOf(w, d, x, y2, p.val)
  BY <1>2, <1>7, <1>10, <1>11 DEF FrameOf
<1>13. QED
  BY <1>5, <1>6, <1>12

\* The value is taken.
LEMMA ValueGoesOn ==
    ASSUME NEW w \in {2, 3}, NEW x, NEW c, NEW y, NEW top,
           FrameOf(w, c, x, y, top), c.k = "value", c.n \in Nat, c.n > 0,
           NEW d, d.k = "map", d.n = c.n, d.rest = c.rest, NEW top2
    PROVE  \E z : HandsOver(w, top, z) /\ FrameOf(w, d, x, Append(y, z), top2)
<1>1. IsSeq(y) /\ Len(y) = 2 * c.n - 1
  BY DEF FrameOf, Begun
<1>2. PICK u : /\ HandsOver(w, u, x) /\ IsContainer(u)
               /\ \E q : top = q.val /\ ValueFrame(w, u, c, x, y, q)
  BY DEF FrameOf
<1>3. PICK q0 : top = q0.val /\ ValueFrame(w, u, c, x, y, q0)
  BY <1>2
<1>4. PICK E : E = Field(u, "map").f
  OBVIOUS
<1>5. /\ Shape(u) = "map" /\ c.rest \subseteq E
      /\ q0 \in E /\ HandsOver(w, q0.key, y[2 * c.n - 1])
      /\ \A p \in E \ c.rest : p = q0 \/ \E m \in 1 .. c.n - 1 : Paired(w, p, y, m)
      /\ \A m \in 1 .. c.n - 1 : \E p \in E : Paired(w, p, y, m)
  BY <1>3, <1>4 DEF ValueFrame
<1>6. PICK z : HandsOver(w, q0.val, z)
  <2>1. MapOf(Replies[w], w, u, x)
    BY <1>2, <1>5, Left DEF Describes
  <2>2. QED
    BY <1>4, <1>5, <2>1 DEF MapOf, HandsOver
<1>7. PICK y2 : y2 = Append(y, z)
  OBVIOUS
<1>8. /\ IsSeq(y2) /\ Len(y2) = 2 * c.n
      /\ (\A i \in 1 .. 2 * c.n - 1 : y2[i] = y[i]) /\ y2[2 * c.n] = z
  <2>1. 2 * c.n - 1 + 1 = 2 * c.n
    OBVIOUS
  <2>2. QED
    BY <1>1, <1>7, <2>1, AppendAny
<1>9. \A m \in 1 .. c.n - 1 : \A q : Paired(w, q, y2, m) <=> Paired(w, q, y, m)
  <2>1. \A m \in 1 .. c.n - 1 : 2 * m - 1 \in 1 .. 2 * c.n - 1 /\ 2 * m \in 1 .. 2 * c.n - 1
    OBVIOUS
  <2>2. QED
    BY <1>8, <2>1 DEF Paired
<1>10. Paired(w, q0, y2, c.n)
  <2>1. 2 * c.n - 1 \in 1 .. 2 * c.n - 1
    OBVIOUS
  <2>2. QED
    BY <1>5, <1>6, <1>8, <2>1 DEF Paired
<1>11. /\ \A m \in 1 .. c.n : m \in 1 .. c.n - 1 \/ m = c.n
       /\ 1 .. c.n - 1 \subseteq 1 .. c.n /\ c.n \in 1 .. c.n
  OBVIOUS
<1>12. MapFrame(w, u, d, x, y2)
  <2>1. \A p \in E \ c.rest : \E m \in 1 .. c.n : Paired(w, p, y2, m)
    BY <1>5, <1>9, <1>10, <1>11
  <2>2. \A m \in 1 .. c.n : \E p \in E : Paired(w, p, y2, m)
    BY <1>5, <1>9, <1>10, <1>11
  <2>3. QED
    BY <1>4, <1>5, <2>1, <2>2 DEF MapFrame
<1>13. Begun(d) = 2 * c.n
  BY DEF Begun
<1>14. FrameOf(w, d, x, y2, top2)
  BY <1>2, <1>8, <1>12, <1>13 DEF FrameOf
<1>15. QED
  BY <1>3, <1>6, <1>7, <1>14

LEMMA MapComposed ==
    ASSUME NEW w \in {2, 3}, NEW x, NEW c, NEW y, NEW top,
           FrameOf(w, c, x, y, top), c.k = "map", c.n \in Nat, c.rest = {}, NEW e, e.k = "map"
    PROVE  Composed(e, y) = x
<1>1. IsSeq(y) /\ Len(y) = 2 * c.n
  BY DEF FrameOf, Begun
<1>2. PICK u : HandsOver(w, u, x) /\ IsContainer(u) /\ MapFrame(w, u, c, x, y)
  BY DEF FrameOf
<1>3. PICK E : E = Field(u, "map").f
  OBVIOUS
<1>4. /\ Shape(u) = "map"
      /\ \A q \in E : \E m \in 1 .. c.n : Paired(w, q, y, m)
      /\ \A m \in 1 .. c.n : \E q \in E : Paired(w, q, y, m)
  BY <1>2, <1>3 DEF MapFrame
<1>5. /\ x = Map(x.pairs)
      /\ \A q \in E : \E z \in x.pairs : HandsOver(w, q.key, z[1]) /\ HandsOver(w, q.val, z[2])
      /\ \A z \in x.pairs :
             /\ z = <<z[1], z[2]>>
             /\ \E q \in E : HandsOver(w, q.key, z[1]) /\ HandsOver(w, q.val, z[2])
  <2>1. MapOf(Replies[w], w, u, x)
    BY <1>2, <1>4, Left DEF Describes
  <2>2. QED
    BY <1>3, <2>1 DEF MapOf, HandsOver
<1>6. PICK P : P = {<<y[2 * m - 1], y[2 * m]>> : m \in 1 .. c.n}
  OBVIOUS
<1>7. \A z \in x.pairs : z \in P
  <2> TAKE z \in x.pairs
  <2>1. PICK q \in E : HandsOver(w, q.key, z[1]) /\ HandsOver(w, q.val, z[2])
    BY <1>5
  <2>2. PICK m \in 1 .. c.n : Paired(w, q, y, m)
    BY <1>4
  <2>3. z[1] = y[2 * m - 1] /\ z[2] = y[2 * m]
    BY <2>1, <2>2, Left DEF Paired
  <2>4. z = <<y[2 * m - 1], y[2 * m]>>
    BY <1>5, <2>3
  <2>5. QED
    BY <1>6, <2>4
<1>8. \A m \in 1 .. c.n : <<y[2 * m - 1], y[2 * m]>> \in x.pairs
  <2> TAKE m \in 1 .. c.n
  <2>1. PICK q \in E : Paired(w, q, y, m)
    BY <1>4
  <2>2. PICK z \in x.pairs : HandsOver(w, q.key, z[1]) /\ HandsOver(w, q.val, z[2])
    BY <1>5
  <2>3. z[1] = y[2 * m - 1] /\ z[2] = y[2 * m]
    BY <2>1, <2>2, Left DEF Paired
  <2>4. z = <<y[2 * m - 1], y[2 * m]>>
    BY <1>5, <2>3
  <2>5. QED
    BY <2>4
<1>9. P = x.pairs
  BY <1>6, <1>7, <1>8
<1>10. Composed(e, y) = Map(P)
  <2>1. Len(y) \div 2 = c.n
    BY <1>1
  <2>2. QED
    BY <1>6, <2>1 DEF Composed
<1>11. QED
  BY <1>5, <1>9, <1>10

-----------------------------------------------------------------------------
(* Reading a stream with containers under way, at the places A.             *)

\* f[i] is read from place i up to the next container under way.
Reads(A, o, n, f) ==
    /\ \A i \in 1 .. n + 1 : IsSeq(f[i])
    /\ f[n + 1] = <<>>
    /\ \A i \in 1 .. n :
           IF i \in A THEN f[i] = <<>>
           ELSE Enough(o[i], f[i + 1]) /\ f[i] = Taking(o[i], f[i + 1])

\* g goes on from f: with nothing yet, or with a reply more for the container
\* at place p, or for all when p is 0.
Extended(f, g, n) == (\A i \in 1 .. n + 1 : g[i] = f[i]) /\ g[n + 2] = <<>>
OneMore(f, g, p, x) == (\A i \in 1 .. p : g[i] = f[i]) /\ g[p + 1] = Append(f[p + 1], x)

\* p is the last place of A, or the last before a.
LastPlace(A, p) == (p = 0 \/ p \in A) /\ \A i \in A : i <= p
LastBefore(A, p, a) == (p = 0 \/ p \in A) /\ \A i \in A : i = a \/ i <= p

\* A token is written whose parts are still to come.
LEMMA BeginReads ==
    ASSUME NEW A, NEW o, NEW n \in Nat, NEW f, Reads(A, o, n, f),
           NEW o2, \A i \in 1 .. n : o2[i] = o[i]
    PROVE  \E g : Reads(A \cup {n + 1}, o2, n + 1, g) /\ Extended(f, g, n)
<1>1. PICK g : g = [i \in 1 .. n + 2 |-> IF i = n + 2 THEN <<>> ELSE f[i]]
  OBVIOUS
<1>2. (\A i \in 1 .. n + 1 : g[i] = f[i]) /\ g[n + 2] = <<>>
  BY <1>1
<1>3. /\ \A i \in 1 .. n + 1 + 1 : i \in 1 .. n + 1 \/ i = n + 2
      /\ \A i \in 1 .. n + 1 : i \in 1 .. n \/ i = n + 1
      /\ \A i \in 1 .. n : i \in 1 .. n + 1 /\ i + 1 \in 1 .. n + 1 /\ i # n + 1
      /\ n + 1 \in 1 .. n + 1 /\ n + 1 + 1 = n + 2
  OBVIOUS
<1>4. \A i \in 1 .. n + 1 + 1 : IsSeq(g[i])
  <2>1. \A i \in 1 .. n + 1 : IsSeq(f[i])
    BY DEF Reads
  <2>2. QED
    BY <1>2, <1>3, <2>1, Tuples
<1>5. ASSUME NEW i \in 1 .. n + 1
      PROVE  IF i \in A \cup {n + 1} THEN g[i] = <<>>
             ELSE Enough(o2[i], g[i + 1]) /\ g[i] = Taking(o2[i], g[i + 1])
  <2>1. CASE i = n + 1
    BY <1>2, <1>3, <2>1 DEF Reads
  <2>2. CASE i \in 1 .. n
    <3>1. /\ g[i] = f[i] /\ g[i + 1] = f[i + 1] /\ o2[i] = o[i]
          /\ i \in A \cup {n + 1} <=> i \in A
      BY <1>2, <1>3, <2>2
    <3>2. IF i \in A THEN f[i] = <<>>
          ELSE Enough(o[i], f[i + 1]) /\ f[i] = Taking(o[i], f[i + 1])
      BY <2>2 DEF Reads
    <3>3. QED
      BY <3>1, <3>2
  <2>3. QED
    BY <1>3, <2>1, <2>2
<1>6. Reads(A \cup {n + 1}, o2, n + 1, g)
  BY <1>2, <1>3, <1>4, <1>5 DEF Reads
<1>7. Extended(f, g, n)
  BY <1>2 DEF Extended
<1>8. QED
  BY <1>6, <1>7

\* The last container under way is complete: it is one reply more for the one
\* before it.
LEMMA FinishReads ==
    ASSUME NEW A, NEW o, NEW n \in Nat, NEW f, Reads(A, o, n, f),
           NEW a \in 1 .. n, a \in A, NEW p \in 0 .. a - 1, LastBefore(A, p, a),
           NEW o2, \A i \in 1 .. n : i # a => o2[i] = o[i],
           NEW x, Arity(o2[a]) = Len(f[a + 1]), Composed(o2[a], f[a + 1]) = x
    PROVE  \E g : Reads(A \ {a}, o2, n, g) /\ OneMore(f, g, p, x)
<1>0. (p = 0 \/ p \in A) /\ \A i \in A : i = a \/ i <= p
  BY DEF LastBefore
<1> DEFINE more(s) == Append(s, x)
<1>1. PICK g : g = [i \in 1 .. n + 1 |-> IF i \in p + 1 .. a THEN more(f[i]) ELSE f[i]]
  OBVIOUS
<1>2. /\ \A i \in p + 1 .. a : i \in 1 .. n + 1
      /\ \A i \in 1 .. p : i \in 1 .. n + 1 /\ i \notin p + 1 .. a
      /\ \A i \in a + 1 .. n + 1 : i \in 1 .. n + 1 /\ i \notin p + 1 .. a
      /\ \A i \in 1 .. n + 1 : i \in 1 .. p \/ i \in p + 1 .. a \/ i \in a + 1 .. n + 1
      /\ p + 1 \in p + 1 .. a /\ n + 1 \in a + 1 .. n + 1 /\ a + 1 \in a + 1 .. n + 1
      /\ a \in p + 1 .. a /\ a + 1 \in 1 .. n + 1 /\ a \in 1 .. n + 1
  OBVIOUS
<1> HIDE DEF more
<1>3. /\ \A i \in p + 1 .. a : g[i] = more(f[i])
      /\ \A i \in 1 .. p : g[i] = f[i]
      /\ \A i \in a + 1 .. n + 1 : g[i] = f[i]
  BY <1>1, <1>2
<1>4. /\ \A i \in 1 .. n + 1 : IsSeq(f[i])
      /\ f[n + 1] = <<>> /\ f[a] = <<>>
      /\ \A i \in 1 .. n : i \notin A =>
             Enough(o[i], f[i + 1]) /\ f[i] = Taking(o[i], f[i + 1])
      /\ \A i \in 1 .. n : i \in A => f[i] = <<>>
  BY DEF Reads
<1>5. \A i \in 1 .. n + 1 : IsSeq(g[i])
  <2>1. \A i \in 1 .. n + 1 : IsSeq(more(f[i]))
    BY <1>4, AppendAny DEF more
  <2>2. QED
    BY <1>1, <1>4, <2>1
<1>6. g[n + 1] = <<>>
  BY <1>2, <1>3, <1>4
<1>7. ASSUME NEW i \in 1 .. n
      PROVE  IF i \in A \ {a} THEN g[i] = <<>>
             ELSE Enough(o2[i], g[i + 1]) /\ g[i] = Taking(o2[i], g[i + 1])
  <2>1. CASE i \in 1 .. p
    <3>1. g[i] = f[i] /\ o2[i] = o[i] /\ i # a
      BY <1>3, <2>1
    <3>2. CASE i \in A
      BY <1>4, <3>1, <3>2
    <3>3. CASE i \notin A
      <4>1. i + 1 \in 1 .. p
        BY <1>0, <2>1, <3>3
      <4>2. QED
        BY <1>3, <1>4, <3>1, <3>3, <4>1
    <3>4. QED
      BY <3>2, <3>3
  <2>2. CASE i \in p + 1 .. a - 1
    <3>1. i \notin A /\ i # a /\ i \in p + 1 .. a /\ i + 1 \in p + 1 .. a /\ i + 1 \in 1 .. n + 1
      BY <1>0, <2>2
    <3>2. g[i] = more(f[i]) /\ g[i + 1] = more(f[i + 1]) /\ o2[i] = o[i]
      BY <1>3, <3>1
    <3>3. Enough(o[i], f[i + 1]) /\ f[i] = Taking(o[i], f[i + 1]) /\ IsSeq(f[i + 1])
      BY <1>4, <3>1
    <3>4. Enough(o[i], more(f[i + 1])) /\ Taking(o[i], more(f[i + 1])) = more(f[i])
      BY <3>3, AppendTaking DEF more
    <3>5. QED
      BY <3>1, <3>2, <3>4
  <2>3. CASE i = a
    <3>1. g[i] = more(<<>>) /\ g[i + 1] = f[a + 1]
      BY <1>2, <1>3, <1>4, <2>3
    <3>2. IsSeq(f[a + 1])
      BY <1>2, <1>4
    <3>3. Enough(o2[a], f[a + 1]) /\ Taking(o2[a], f[a + 1]) = <<x>>
      BY <3>2, TakingAll
    <3>4. more(<<>>) = <<x>>
      BY DEF more
    <3>5. QED
      BY <2>3, <3>1, <3>3, <3>4
  <2>4. CASE i \in a + 1 .. n
    <3>1. i \notin A /\ i # a /\ i \in a + 1 .. n + 1 /\ i + 1 \in a + 1 .. n + 1
      BY <1>0, <2>4
    <3>2. QED
      BY <1>3, <1>4, <3>1
  <2>5. QED
    BY <2>1, <2>2, <2>3, <2>4
<1>8. Reads(A \ {a}, o2, n, g)
  BY <1>5, <1>6, <1>7 DEF Reads
<1>9. g[p + 1] = Append(f[p + 1], x)
  BY <1>2, <1>3 DEF more
<1>10. OneMore(f, g, p, x)
  BY <1>3, <1>9 DEF OneMore
<1>11. QED
  BY <1>8, <1>10

\* A token without parts is written.
LEMMA WriteReads ==
    ASSUME NEW A, NEW o, NEW n \in Nat, NEW f, Reads(A, o, n, f), A \subseteq 1 .. n,
           NEW p \in 0 .. n, LastPlace(A, p),
           NEW o2, \A i \in 1 .. n : o2[i] = o[i],
           NEW x, x = o2[n + 1], x.k \notin Containers
    PROVE  \E g : Reads(A, o2, n + 1, g) /\ OneMore(f, g, p, x)
<1>1. PICK h : Reads(A \cup {n + 1}, o2, n + 1, h) /\ Extended(f, h, n)
  BY BeginReads
<1>2. PICK a, m \in Nat : a = n + 1 /\ m = n + 1
  OBVIOUS
<1>3. PICK B : B = A \cup {a}
  OBVIOUS
<1>4. a \in 1 .. m /\ a \in B /\ p \in 0 .. a - 1 /\ LastBefore(B, p, a)
  BY <1>2, <1>3 DEF LastPlace, LastBefore
<1>5. Arity(o2[a]) = Len(h[a + 1]) /\ Composed(o2[a], h[a + 1]) = x
  <2>1. a + 1 = n + 2
    BY <1>2
  <2>2. h[a + 1] = <<>> /\ o2[a] = x /\ x.k \notin {"array", "map", "set"}
    BY <1>1, <1>2, <2>1 DEF Containers, Extended
  <2>3. QED
    BY <2>2, Tuples DEF Arity, Composed
<1>6. Reads(B, o2, m, h)
  BY <1>1, <1>2, <1>3
<1>7. PICK g : Reads(B \ {a}, o2, m, g) /\ OneMore(h, g, p, x)
  BY <1>4, <1>5, <1>6, FinishReads
<1>8. B \ {a} = A
  BY <1>2, <1>3
<1>9. OneMore(f, g, p, x)
  <2>1. p + 1 \in 1 .. n + 1 /\ \A i \in 1 .. p : i \in 1 .. n + 1
    OBVIOUS
  <2>2. QED
    BY <1>1, <1>7, <2>1 DEF OneMore, Extended
<1>10. QED
  BY <1>2, <1>7, <1>8, <1>9

-----------------------------------------------------------------------------
(* The containers under way, the reply and the stack together.              *)

Places(c) == {c[j].at : j \in 1 .. Len(c)}
Place(c, j) == IF j = 0 THEN 0 ELSE c[j].at

\* The replies for container j, those of the script for 0: the ones written
\* and, up to m, the one that is under way, t[j + 1].
Sent(c, f, t, j, m) ==
    IF j < m THEN Append(f[Place(c, j) + 1], t[j + 1]) ELSE f[Place(c, j) + 1]

\* h[j] is the height of the stack up to what frame j keeps.
Nested(c, h) ==
    /\ h[0] = 0
    /\ \A j \in 1 .. Len(c) : h[j - 1] \in Nat /\ h[j] = h[j - 1] + Height(c[j])
    /\ \A i, j \in 1 .. Len(c) : i < j => c[i].at < c[j].at /\ h[i] < h[j]

\* t[j] is what is left of the reply that the container j is the value of;
\* with m beyond the containers, t[m] is that of the value on top.
Under(w, x, c, o, l, m, f, t, h) ==
    /\ Reads(Places(c), o, Len(o), f)
    /\ Nested(c, h)
    /\ Len(l) = h[Len(c)] + (m - Len(c))
    /\ Sent(c, f, t, 0, m) = <<x>>
    /\ \A j \in 1 .. Len(c) : FrameOf(w, c[j], t[j], Sent(c, f, t, j, m), l[h[j]])
    /\ m > Len(c) => HandsOver(w, l[Len(l)], t[m])

Follows(w, x, c, o, l, m) == \E f, t, h : Under(w, x, c, o, l, m, f, t, h)

LEMMA NestedFacts ==
    ASSUME NEW c, NEW o, FramesOK(c, o), NEW h, Nested(c, h), NEW M, M = Len(c)
    PROVE  /\ M \in Nat /\ Len(o) \in Nat
           /\ \A j \in 0 .. M : h[j] \in Nat /\ h[j] <= h[M] /\ Place(c, j) \in 0 .. Len(o)
           /\ \A j \in 1 .. M : h[j] > 0 /\ IsFrame(c[j]) /\ Place(c, j) = c[j].at
           /\ \A i, j \in 0 .. M : i < j => Place(c, i) < Place(c, j) /\ h[i] < h[j]
           /\ Places(c) \subseteq 1 .. Len(o)
           /\ LastPlace(Places(c), Place(c, M))
           /\ M > 0 => Place(c, M) \in Places(c) /\ LastBefore(Places(c), Place(c, M - 1), Place(c, M))
<1>1. M \in Nat /\ Len(o) \in Nat
  BY AnySeq DEF FramesOK
<1>2. ASSUME NEW j \in 1 .. M
      PROVE  /\ IsFrame(c[j]) /\ Height(c[j]) \in 1 .. 4 /\ Place(c, j) = c[j].at
             /\ c[j].at \in 1 .. Len(o) /\ j # 0 /\ j \in 0 .. M
             /\ h[j] \in Nat /\ h[j] > 0
  <2>1. IsFrame(c[j]) /\ c[j].at \in 1 .. Len(o)
    BY DEF FramesOK
  <2>2. Height(c[j]) \in 1 .. 4
    BY <2>1, BegunFrame
  <2>3. j # 0 /\ j \in 0 .. M
    OBVIOUS
  <2>4. h[j - 1] \in Nat /\ h[j] = h[j - 1] + Height(c[j])
    BY DEF Nested
  <2>5. h[j] \in Nat /\ h[j] > 0
    BY <2>2, <2>4
  <2>6. QED
    BY <2>1, <2>2, <2>3, <2>5 DEF Place
<1>3. Place(c, 0) = 0 /\ h[0] = 0 /\ \A j \in 0 .. M : j = 0 \/ j \in 1 .. M
  BY <1>1 DEF Place, Nested
<1>4. \A i, j \in 0 .. M : i < j => Place(c, i) < Place(c, j) /\ h[i] < h[j]
  <2> SUFFICES ASSUME NEW i \in 0 .. M, NEW j \in 0 .. M, i < j
               PROVE  Place(c, i) < Place(c, j) /\ h[i] < h[j]
    OBVIOUS
  <2>1. j \in 1 .. M
    BY <1>1
  <2>2. CASE i = 0
    <3>1. c[j].at > 0
      BY <1>2, <2>1
    <3>2. QED
      BY <1>2, <1>3, <2>1, <2>2, <3>1
  <2>3. CASE i \in 1 .. M
    BY <1>2, <2>1, <2>3 DEF Nested
  <2>4. QED
    BY <1>3, <2>2, <2>3
<1>5. \A j \in 0 .. M : h[j] \in Nat /\ h[j] <= h[M] /\ Place(c, j) \in 0 .. Len(o)
  <2> TAKE j \in 0 .. M
  <2>1. h[j] \in Nat /\ h[M] \in Nat /\ M \in 0 .. M
    BY <1>1, <1>2, <1>3
  <2>2. h[j] <= h[M]
    <3>1. j < M \/ j = M
      BY <1>1
    <3>2. QED
      BY <1>4, <2>1, <3>1
  <2>3. Place(c, j) \in 0 .. Len(o)
    <3>1. CASE j = 0
      BY <1>1, <1>3, <3>1
    <3>2. CASE j \in 1 .. M
      <4>1. Place(c, j) = c[j].at /\ c[j].at \in 1 .. Len(o)
        BY <1>2, <3>2
      <4>2. QED
        BY <1>1, <4>1
    <3>3. QED
      BY <1>3, <3>1, <3>2
  <2>4. QED
    BY <2>1, <2>2, <2>3
<1>6. \A i \in Places(c) : \E j \in 1 .. M : i = Place(c, j) /\ i \in 1 .. Len(o)
  BY <1>2 DEF Places
<1>7. \A j \in 1 .. M : Place(c, j) \in Places(c)
  BY <1>2 DEF Places
<1>8. LastPlace(Places(c), Place(c, M))
  <2>1. Place(c, M) = 0 \/ Place(c, M) \in Places(c)
    <3>1. M = 0 \/ M \in 1 .. M
      BY <1>1
    <3>2. QED
      BY <1>3, <1>7, <3>1
  <2>2. ASSUME NEW i \in Places(c)
        PROVE  i <= Place(c, M)
    <3>1. PICK j \in 1 .. M : i = Place(c, j) /\ i \in 1 .. Len(o)
      BY <1>6
    <3>2. j \in 0 .. M /\ M \in 0 .. M /\ (j = M \/ j < M)
      BY <1>1
    <3>3. i = Place(c, M) \/ i < Place(c, M)
      BY <1>4, <3>1, <3>2
    <3>4. i \in Int /\ Place(c, M) \in Int
      BY <1>5, <3>1, <3>2
    <3>5. QED
      BY <3>3, <3>4
  <2>3. QED
    BY <2>1, <2>2 DEF LastPlace
<1>9. ASSUME M > 0
      PROVE  Place(c, M) \in Places(c) /\ LastBefore(Places(c), Place(c, M - 1), Place(c, M))
  <2>1. M \in 1 .. M /\ M - 1 \in 0 .. M /\ (M - 1 = 0 \/ M - 1 \in 1 .. M)
    BY <1>1, <1>9
  <2>2. Place(c, M - 1) = 0 \/ Place(c, M - 1) \in Places(c)
    BY <1>3, <1>7, <2>1
  <2>3. ASSUME NEW i \in Places(c)
        PROVE  i = Place(c, M) \/ i <= Place(c, M - 1)
    <3>1. PICK j \in 1 .. M : i = Place(c, j) /\ i \in 1 .. Len(o)
      BY <1>6
    <3>2. j \in 0 .. M /\ (j = M \/ j = M - 1 \/ j < M - 1)
      BY <1>1
    <3>3. i = Place(c, M) \/ i = Place(c, M - 1) \/ i < Place(c, M - 1)
      BY <1>4, <2>1, <3>1, <3>2
    <3>4. i \in Int /\ Place(c, M - 1) \in Int
      BY <1>5, <2>1, <3>1
    <3>5. QED
      BY <3>3, <3>4
  <2>4. QED
    BY <1>7, <2>1, <2>2, <2>3 DEF LastBefore
<1>10. Places(c) \subseteq 1 .. Len(o)
  BY <1>6
<1>11. QED
  BY <1>1, <1>2, <1>4, <1>5, <1>8, <1>9, <1>10

\* When the reply t[m + 1] for the last container is complete, or all of the
\* script's, nothing changes in what is sent.
LEMMA SentKept ==
    ASSUME NEW c, NEW d, NEW f, NEW g, NEW t, NEW m \in Nat, NEW z, z = t[m + 1],
           \A j \in 0 .. m : Place(d, j) = Place(c, j) /\ Place(c, j) \in Nat,
           \A j \in 0 .. m : j < m => Place(c, j) < Place(c, m),
           OneMore(f, g, Place(c, m), z)
    PROVE  \A j \in 0 .. m : Sent(d, g, t, j, m) = Sent(c, f, t, j, m + 1)
<1> TAKE j \in 0 .. m
<1>1. j < m + 1 /\ ~(m < m)
  OBVIOUS
<1>2. Sent(c, f, t, j, m + 1) = Append(f[Place(c, j) + 1], t[j + 1])
  BY <1>1 DEF Sent
<1>3. CASE j < m
  <2>1. Place(c, j) + 1 \in 1 .. Place(c, m)
    BY <1>3
  <2>2. g[Place(c, j) + 1] = f[Place(c, j) + 1]
    BY <2>1 DEF OneMore
  <2>3. QED
    BY <1>2, <1>3, <2>2 DEF Sent
<1>4. CASE j = m
  <2>1. g[Place(c, m) + 1] = Append(f[Place(c, m) + 1], z)
    BY DEF OneMore
  <2>2. Sent(d, g, t, j, m) = g[Place(c, m) + 1]
    BY <1>1, <1>4 DEF Sent
  <2>3. QED
    BY <1>2, <1>4, <2>1, <2>2
<1>5. QED
  BY <1>3, <1>4

\* A value that is no container is written.
LEMMA WriteFollows ==
    ASSUME NEW w, NEW x, NEW c, NEW o, FramesOK(c, o), NEW l, IsSeq(l), NEW M, M = Len(c),
           Follows(w, x, c, o, l, M + 1),
           NEW e, e.k \notin Containers, \A z : HandsOver(w, l[Len(l)], z) => e = z
    PROVE  Follows(w, x, c, Append(o, e), SubSeq(l, 1, Len(l) - 1), M)
<1>1. PICK f, t, h : Under(w, x, c, o, l, M + 1, f, t, h)
  BY DEF Follows
<1>2. /\ Reads(Places(c), o, Len(o), f) /\ Nested(c, h)
      /\ Len(l) = h[M] + (M + 1 - M)
      /\ Sent(c, f, t, 0, M + 1) = <<x>>
      /\ \A j \in 1 .. M : FrameOf(w, c[j], t[j], Sent(c, f, t, j, M + 1), l[h[j]])
      /\ M + 1 > M => HandsOver(w, l[Len(l)], t[M + 1])
  BY <1>1 DEF Under
<1>3. /\ M \in Nat /\ Len(o) \in Nat
      /\ \A j \in 0 .. M : h[j] \in Nat /\ h[j] <= h[M] /\ Place(c, j) \in 0 .. Len(o)
      /\ \A j \in 1 .. M : h[j] > 0
      /\ \A i, j \in 0 .. M : i < j => Place(c, i) < Place(c, j)
      /\ Places(c) \subseteq 1 .. Len(o) /\ LastPlace(Places(c), Place(c, M))
  BY <1>2, NestedFacts
<1>4. PICK n \in Nat : n = Len(o)
  BY <1>3
<1>5. PICK o2 : o2 = Append(o, e)
  OBVIOUS
<1>6. Len(o2) = n + 1 /\ (\A i \in 1 .. n : o2[i] = o[i]) /\ o2[n + 1] = e
  BY <1>4, <1>5, AppendAny DEF FramesOK
<1>7. M \in 0 .. M /\ M + 1 > M /\ e = t[M + 1]
  BY <1>2, <1>3
<1>8. PICK g : Reads(Places(c), o2, n + 1, g) /\ OneMore(f, g, Place(c, M), e)
  <2>1. Reads(Places(c), o, n, f) /\ Places(c) \subseteq 1 .. n /\ Place(c, M) \in 0 .. n
    BY <1>2, <1>3, <1>4, <1>7
  <2>2. QED
    BY <1>3, <1>6, <2>1, WriteReads
<1>9. \A j \in 0 .. M : Sent(c, g, t, j, M) = Sent(c, f, t, j, M + 1)
  <2>1. \A j \in 0 .. M : Place(c, j) \in Nat /\ (j < M => Place(c, j) < Place(c, M))
    BY <1>3, <1>7
  <2>2. QED
    <3>1. PICK m \in Nat : m = M
      BY <1>3
    <3>2. OneMore(f, g, Place(c, m), e) /\ e = t[m + 1]
      BY <1>7, <1>8, <3>1
    <3>3. \A j \in 0 .. m : Place(c, j) = Place(c, j) /\ Place(c, j) \in Nat
      BY <2>1, <3>1
    <3>4. \A j \in 0 .. m : j < m => Place(c, j) < Place(c, m)
      BY <2>1, <3>1
    <3>5. \A j \in 0 .. m : Sent(c, g, t, j, m) = Sent(c, f, t, j, m + 1)
      BY <3>2, <3>3, <3>4, SentKept
    <3>6. QED
      BY <3>1, <3>5
<1>10. PICK l2 : l2 = SubSeq(l, 1, Len(l) - 1)
  OBVIOUS
<1>11. Len(l2) = h[M] /\ \A i \in 1 .. h[M] : l2[i] = l[i]
  <2>1. h[M] \in Nat /\ Len(l) = h[M] + 1
    BY <1>2, <1>3, <1>7
  <2>2. PICK k \in Nat : k = h[M]
    BY <2>1
  <2>3. k \in 0 .. Len(l) /\ Len(l) - 1 = k
    BY <2>1, <2>2
  <2>4. QED
    BY <1>10, <2>2, <2>3, CutAny
<1>12. \A j \in 1 .. M : FrameOf(w, c[j], t[j], Sent(c, g, t, j, M), l2[h[j]])
  <2> TAKE j \in 1 .. M
  <2>1. j \in 0 .. M /\ h[j] \in 1 .. h[M]
    <3>1. j \in 0 .. M
      OBVIOUS
    <3>2. h[j] \in Nat /\ h[j] > 0 /\ h[j] <= h[M] /\ h[M] \in Nat
      BY <1>3, <1>7, <3>1
    <3>3. QED
      BY <3>1, <3>2
  <2>2. l2[h[j]] = l[h[j]] /\ Sent(c, g, t, j, M) = Sent(c, f, t, j, M + 1)
    BY <1>9, <1>11, <2>1
  <2>3. QED
    BY <1>2, <2>2
<1>13. Sent(c, g, t, 0, M) = <<x>>
  <2>1. 0 \in 0 .. M
    BY <1>3
  <2>2. QED
    BY <1>2, <1>9, <2>1
<1>14. Len(l2) = h[M] + (M - M) /\ ~(M > M)
  <2>1. h[M] \in Nat
    BY <1>3, <1>7
  <2>2. QED
    BY <1>3, <1>11, <2>1
<1>15. Under(w, x, c, o2, l2, M, g, t, h)
  BY <1>2, <1>6, <1>8, <1>12, <1>13, <1>14 DEF Under
<1>16. QED
  BY <1>5, <1>10, <1>15 DEF Follows

\* A container is begun.
LEMMA BeginFollows ==
    ASSUME NEW w, NEW x, NEW c, NEW o, FramesOK(c, o), NEW l, IsSeq(l), NEW M, M = Len(c),
           Follows(w, x, c, o, l, M + 1),
           NEW r, r.at = Len(o) + 1, Height(r) \in 1 .. 4, NEW e,
           NEW l2, Len(l2) = Len(l) - 1 + Height(r), \A i \in 1 .. Len(l) - 1 : l2[i] = l[i],
           \A z : HandsOver(w, l[Len(l)], z) => FrameOf(w, r, z, <<>>, l2[Len(l2)])
    PROVE  Follows(w, x, Append(c, r), Append(o, e), l2, M + 1)
<1>1. PICK f, t, h : Under(w, x, c, o, l, M + 1, f, t, h)
  BY DEF Follows
<1>2. /\ Reads(Places(c), o, Len(o), f) /\ Nested(c, h)
      /\ Len(l) = h[M] + (M + 1 - M)
      /\ Sent(c, f, t, 0, M + 1) = <<x>>
      /\ \A j \in 1 .. M : FrameOf(w, c[j], t[j], Sent(c, f, t, j, M + 1), l[h[j]])
      /\ M + 1 > M => HandsOver(w, l[Len(l)], t[M + 1])
  BY <1>1 DEF Under
<1>3. /\ M \in Nat /\ Len(o) \in Nat
      /\ \A j \in 0 .. M : h[j] \in Nat /\ h[j] <= h[M] /\ Place(c, j) \in 0 .. Len(o)
      /\ \A j \in 1 .. M : h[j] > 0 /\ Place(c, j) = c[j].at
      /\ \A i, j \in 0 .. M : i < j => Place(c, i) < Place(c, j) /\ h[i] < h[j]
      /\ Places(c) \subseteq 1 .. Len(o)
  BY <1>2, NestedFacts
<1>4. PICK n \in Nat : n = Len(o)
  BY <1>3
<1>5. PICK o2 : o2 = Append(o, e)
  OBVIOUS
<1>6. Len(o2) = n + 1 /\ (\A i \in 1 .. n : o2[i] = o[i])
  BY <1>4, <1>5, AppendAny DEF FramesOK
<1>7. M \in 0 .. M /\ M + 1 > M /\ HandsOver(w, l[Len(l)], t[M + 1])
  BY <1>2, <1>3
<1>8. PICK d : d = Append(c, r)
  OBVIOUS
<1>9. /\ Len(d) = M + 1 /\ d[M + 1] = r
      /\ \A j \in 1 .. M : d[j] = c[j]
  BY <1>8, AppendAny DEF FramesOK
<1>10. /\ \A j \in 1 .. M + 1 : j \in 1 .. M \/ j = M + 1
       /\ 1 .. M \subseteq 1 .. M + 1 /\ M + 1 \in 1 .. M + 1 /\ M + 1 # 0
       /\ \A j \in 0 .. M : j = 0 \/ j \in 1 .. M
       /\ \A j \in 1 .. M : j # 0 /\ j # M + 1 /\ j \in 0 .. M /\ j - 1 \in 0 .. M
  <2>1. M \in Nat
    BY <1>3
  <2>2. QED
    BY <2>1
<1>11. Places(d) = Places(c) \cup {n + 1}
  <2>1. Places(d) = {d[j].at : j \in 1 .. M + 1} /\ Places(c) = {c[j].at : j \in 1 .. M}
    BY <1>9 DEF Places
  <2>2. d[M + 1].at = n + 1 /\ \A j \in 1 .. M : d[j].at = c[j].at
    BY <1>4, <1>9
  <2>3. ASSUME NEW p \in Places(d)
        PROVE  p \in Places(c) \cup {n + 1}
    <3>1. PICK j \in 1 .. M + 1 : p = d[j].at
      BY <2>1
    <3>2. CASE j \in 1 .. M
      BY <2>1, <2>2, <3>1, <3>2
    <3>3. CASE j = M + 1
      BY <2>2, <3>1, <3>3
    <3>4. QED
      BY <1>10, <3>2, <3>3
  <2>4. ASSUME NEW p \in Places(c)
        PROVE  p \in Places(d)
    <3>1. PICK j \in 1 .. M : p = c[j].at
      BY <2>1
    <3>2. j \in 1 .. M + 1 /\ p = d[j].at
      BY <1>10, <2>2, <3>1
    <3>3. QED
      BY <2>1, <3>2
  <2>5. n + 1 \in Places(d)
    BY <1>10, <2>1, <2>2
  <2>6. QED
    BY <2>3, <2>4, <2>5
<1>12. PICK g : Reads(Places(d), o2, n + 1, g) /\ Extended(f, g, n)
  <2>1. Reads(Places(c), o, n, f)
    BY <1>2, <1>4
  <2>2. PICK A : A = Places(c)
    OBVIOUS
  <2>3. Reads(A, o, n, f) /\ \A i \in 1 .. n : o2[i] = o[i]
    BY <1>6, <2>1, <2>2
  <2>4. \E g : Reads(A \cup {n + 1}, o2, n + 1, g) /\ Extended(f, g, n)
    BY <2>3, BeginReads
  <2>5. QED
    BY <1>11, <2>2, <2>4
<1>13. Place(d, M + 1) = n + 1 /\ \A j \in 0 .. M : Place(d, j) = Place(c, j) /\ Place(c, j) \in 0 .. n
  BY <1>3, <1>4, <1>9, <1>10 DEF Place
<1>14. \A j \in 0 .. M : Sent(d, g, t, j, M + 1) = Sent(c, f, t, j, M + 1)
  <2> TAKE j \in 0 .. M
  <2>1. j < M + 1
    BY <1>3
  <2>2. Place(c, j) + 1 \in 1 .. n + 1 /\ Place(d, j) = Place(c, j)
    <3>1. \A p \in 0 .. n : p + 1 \in 1 .. n + 1
      OBVIOUS
    <3>2. QED
      BY <1>13, <3>1
  <2>3. g[Place(c, j) + 1] = f[Place(c, j) + 1]
    BY <1>12, <2>2 DEF Extended
  <2>4. QED
    BY <2>1, <2>2, <2>3 DEF Sent
<1>15. Sent(d, g, t, M + 1, M + 1) = <<>>
  <2>1. ~(M + 1 < M + 1) /\ n + 1 + 1 = n + 2
    BY <1>3
  <2>2. QED
    BY <1>12, <1>13, <2>1 DEF Sent, Extended
<1>16. h[M] \in Nat /\ Len(l) = h[M] + 1
  BY <1>2, <1>3, <1>7
<1>17. PICK k \in Nat : k = h[M] + Height(r)
  <2>1. Height(r) \in Nat
    OBVIOUS
  <2>2. h[M] + Height(r) \in Nat
    BY <1>16, <2>1
  <2>3. QED
    BY <2>2
<1>18. Len(l2) = k /\ k > h[M]
  BY <1>16, <1>17
<1>19. PICK h2 : h2 = [j \in 0 .. M + 1 |-> IF j = M + 1 THEN k ELSE h[j]]
  OBVIOUS
<1>20. h2[M + 1] = k /\ \A j \in 0 .. M : h2[j] = h[j]
  BY <1>3, <1>19
<1>21. Nested(d, h2)
  <2>1. h2[0] = 0
    <3>1. h[0] = 0 /\ 0 \in 0 .. M
      BY <1>2, <1>3 DEF Nested
    <3>2. QED
      BY <1>20, <3>1
  <2>2. \A j \in 1 .. M + 1 : h2[j - 1] \in Nat /\ h2[j] = h2[j - 1] + Height(d[j])
    <3> TAKE j \in 1 .. M + 1
    <3>1. CASE j \in 1 .. M
      <4>1. h[j - 1] \in Nat /\ h[j] = h[j - 1] + Height(c[j])
        BY <1>2, <3>1 DEF Nested
      <4>2. h2[j] = h[j] /\ h2[j - 1] = h[j - 1]
        BY <1>10, <1>20, <3>1
      <4>3. QED
        BY <1>9, <3>1, <4>1, <4>2
    <3>2. CASE j = M + 1
      <4>1. j - 1 = M /\ h2[M] = h[M]
        BY <1>3, <1>7, <1>20, <3>2
      <4>2. QED
        BY <1>9, <1>16, <1>17, <1>20, <3>2, <4>1
    <3>3. QED
      BY <1>10, <3>1, <3>2
  <2>3. \A i, j \in 1 .. M + 1 : i < j => d[i].at < d[j].at /\ h2[i] < h2[j]
    <3> SUFFICES ASSUME NEW i \in 1 .. M + 1, NEW j \in 1 .. M + 1, i < j
                 PROVE  d[i].at < d[j].at /\ h2[i] < h2[j]
      OBVIOUS
    <3>1. i \in 1 .. M
      BY <1>3
    <3>2. d[i].at = c[i].at /\ h2[i] = h[i] /\ i \in 0 .. M
      BY <1>9, <1>10, <1>20, <3>1
    <3>3. CASE j \in 1 .. M
      <4>1. c[i].at < c[j].at /\ h[i] < h[j]
        BY <1>2, <3>1, <3>3 DEF Nested
      <4>2. d[j].at = c[j].at /\ h2[j] = h[j]
        BY <1>9, <1>10, <1>20, <3>3
      <4>3. QED
        BY <3>2, <4>1, <4>2
    <3>4. CASE j = M + 1
      <4>1. d[j].at = n + 1 /\ h2[j] = k
        BY <1>4, <1>9, <1>20, <3>4
      <4>2. c[i].at \in 0 .. n /\ h[i] \in Nat /\ h[i] <= h[M]
        BY <1>3, <1>4, <3>1, <3>2
      <4>3. QED
        <5>1. c[i].at < n + 1
          BY <4>2
        <5>2. h[i] < k
          BY <1>16, <1>18, <4>2
        <5>3. QED
          BY <3>2, <4>1, <5>1, <5>2
    <3>5. QED
      BY <1>10, <3>3, <3>4
  <2>4. QED
    BY <1>9, <2>1, <2>2, <2>3 DEF Nested
<1>22. \A j \in 1 .. M + 1 : FrameOf(w, d[j], t[j], Sent(d, g, t, j, M + 1), l2[h2[j]])
  <2> TAKE j \in 1 .. M + 1
  <2>1. CASE j \in 1 .. M
    <3>1. j \in 0 .. M
      BY <1>10, <2>1
    <3>2. h[j] \in Nat /\ h[j] > 0 /\ h[j] <= h[M]
      BY <1>3, <2>1, <3>1
    <3>3. h[j] \in 1 .. Len(l) - 1
      BY <1>16, <3>2
    <3>4. l2[h2[j]] = l[h[j]] /\ Sent(d, g, t, j, M + 1) = Sent(c, f, t, j, M + 1) /\ d[j] = c[j]
      BY <1>9, <1>14, <1>20, <2>1, <3>1, <3>3
    <3>5. FrameOf(w, c[j], t[j], Sent(c, f, t, j, M + 1), l[h[j]])
      BY <1>2, <2>1
    <3>6. QED
      BY <3>4, <3>5
  <2>2. CASE j = M + 1
    <3>1. FrameOf(w, r, t[M + 1], <<>>, l2[Len(l2)])
      BY <1>7
    <3>2. QED
      BY <1>9, <1>15, <1>18, <1>20, <2>2, <3>1
  <2>3. QED
    BY <1>10, <2>1, <2>2
<1>23. Sent(d, g, t, 0, M + 1) = <<x>>
  <2>1. 0 \in 0 .. M
    BY <1>3
  <2>2. QED
    BY <1>2, <1>14, <2>1
<1>24. Len(l2) = h2[M + 1] + (M + 1 - (M + 1)) /\ ~(M + 1 > M + 1)
  BY <1>3, <1>18, <1>20
<1>25. Under(w, x, d, o2, l2, M + 1, g, t, h2)
  BY <1>6, <1>9, <1>12, <1>21, <1>22, <1>23, <1>24 DEF Under
<1>26. QED
  BY <1>5, <1>8, <1>25 DEF Follows

\* The next part is put on the stack.
LEMMA TakeFollows ==
    ASSUME NEW w, NEW x, NEW c, NEW o, FramesOK(c, o), NEW l, IsSeq(l), NEW M, M = Len(c), M > 0,
           Follows(w, x, c, o, l, M),
           NEW r, r.at = c[M].at, Height(r) \in 1 .. 4,
           NEW l2, Len(l2) = Len(l) - Height(c[M]) + Height(r) + 1,
           \A i \in 1 .. Len(l) - Height(c[M]) : l2[i] = l[i],
           \A z, y : FrameOf(w, c[M], z, y, l[Len(l)]) =>
               \E z2 : /\ HandsOver(w, l2[Len(l2)], z2)
                       /\ FrameOf(w, r, z, Append(y, z2), l2[Len(l2) - 1])
    PROVE  Follows(w, x, [c EXCEPT ![M] = r], o, l2, M + 1)
<1>1. PICK f, t, h : Under(w, x, c, o, l, M, f, t, h)
  BY DEF Follows
<1>2. /\ Reads(Places(c), o, Len(o), f) /\ Nested(c, h)
      /\ Len(l) = h[M] + (M - M)
      /\ Sent(c, f, t, 0, M) = <<x>>
      /\ \A j \in 1 .. M : FrameOf(w, c[j], t[j], Sent(c, f, t, j, M), l[h[j]])
  BY <1>1 DEF Under
<1>3. /\ M \in Nat /\ Len(o) \in Nat
      /\ \A j \in 0 .. M : h[j] \in Nat /\ h[j] <= h[M] /\ Place(c, j) \in 0 .. Len(o)
      /\ \A j \in 1 .. M : h[j] > 0 /\ IsFrame(c[j]) /\ Place(c, j) = c[j].at
      /\ \A i, j \in 0 .. M : i < j => Place(c, i) < Place(c, j) /\ h[i] < h[j]
  BY <1>2, NestedFacts
<1>4. /\ M \in 1 .. M /\ M \in 0 .. M /\ M - 1 \in 0 .. M /\ ~(M < M) /\ M - M = 0 /\ M + 1 > M
      /\ \A j \in 1 .. M : j # 0 /\ j # M + 1 /\ j \in 0 .. M /\ j - 1 \in 0 .. M /\ j - 1 # M
      /\ \A j \in 0 .. M : j = 0 \/ j \in 1 .. M
      /\ \A j \in 0 .. M : j = M \/ j < M
  <2>1. M \in Nat
    BY <1>3
  <2>2. QED
    BY <2>1
<1>5. PICK d : d = [c EXCEPT ![M] = r]
  OBVIOUS
<1>6. Len(d) = M /\ \A j \in 1 .. M : d[j] = IF j = M THEN r ELSE c[j]
  BY <1>4, <1>5, ExceptAny DEF FramesOK
<1>7. \A j \in 1 .. M : d[j].at = c[j].at
  BY <1>6
<1>8. Places(d) = Places(c) /\ \A j \in 0 .. M : Place(d, j) = Place(c, j)
  <2>1. Places(d) = {d[j].at : j \in 1 .. M} /\ Places(c) = {c[j].at : j \in 1 .. M}
    BY <1>6 DEF Places
  <2>2. {d[j].at : j \in 1 .. M} = {c[j].at : j \in 1 .. M}
    BY <1>7
  <2>3. \A j \in 0 .. M : Place(d, j) = Place(c, j)
    BY <1>4, <1>7 DEF Place
  <2>4. QED
    BY <2>1, <2>2, <2>3
<1>9. /\ h[M - 1] \in Nat /\ h[M] \in Nat /\ h[M] = h[M - 1] + Height(c[M])
      /\ Height(c[M]) \in 1 .. 4 /\ Len(l) = h[M]
  <2>1. h[M - 1] \in Nat /\ h[M] = h[M - 1] + Height(c[M])
    BY <1>2, <1>4 DEF Nested
  <2>2. Height(c[M]) \in 1 .. 4
    BY <1>3, <1>4, BegunFrame
  <2>3. h[M] \in Nat
    BY <1>3, <1>4
  <2>4. Len(l) = h[M]
    BY <1>2, <1>4, <2>3
  <2>5. QED
    BY <2>1, <2>2, <2>3, <2>4
<1>10. PICK k \in Nat : k = h[M - 1] + Height(r)
  <2>1. Height(r) \in Nat
    OBVIOUS
  <2>2. h[M - 1] + Height(r) \in Nat
    BY <1>9, <2>1
  <2>3. QED
    BY <2>2
<1>11. /\ Len(l2) = k + 1 /\ k > h[M - 1] /\ k + 1 - 1 = k
       /\ \A i \in 1 .. h[M - 1] : l2[i] = l[i]
  <2>1. Len(l) - Height(c[M]) = h[M - 1]
    BY <1>9
  <2>2. QED
    <3>1. PICK p \in Nat, q \in 1 .. 4 : p = h[M - 1] /\ q = Height(r)
      BY <1>9
    <3>2. Len(l2) = p + q + 1 /\ k = p + q
      BY <1>10, <2>1, <3>1
    <3>3. Len(l2) = k + 1 /\ k > p /\ k + 1 - 1 = k
      BY <3>2
    <3>4. \A i \in 1 .. h[M - 1] : l2[i] = l[i]
      BY <2>1
    <3>5. QED
      BY <3>1, <3>3, <3>4
<1>12. FrameOf(w, c[M], t[M], f[Place(c, M) + 1], l[Len(l)])
  <2>1. Sent(c, f, t, M, M) = f[Place(c, M) + 1]
    BY <1>4 DEF Sent
  <2>2. QED
    BY <1>2, <1>4, <1>9, <2>1
<1>13. PICK z2 : /\ HandsOver(w, l2[k + 1], z2)
                 /\ FrameOf(w, r, t[M], Append(f[Place(c, M) + 1], z2), l2[k])
  BY <1>11, <1>12
<1>14. PICK t2 : t2 = [j \in 1 .. M + 1 |-> IF j = M + 1 THEN z2 ELSE t[j]]
  OBVIOUS
<1>15. t2[M + 1] = z2 /\ \A j \in 1 .. M : t2[j] = t[j]
  BY <1>4, <1>14
<1>16. \A j \in 0 .. M : j < M => Sent(d, f, t2, j, M + 1) = Sent(c, f, t, j, M)
  <2> SUFFICES ASSUME NEW j \in 0 .. M, j < M
               PROVE  Sent(d, f, t2, j, M + 1) = Sent(c, f, t, j, M)
    OBVIOUS
  <2>1. j < M + 1 /\ j + 1 \in 1 .. M
    BY <1>3
  <2>2. t2[j + 1] = t[j + 1] /\ Place(d, j) = Place(c, j)
    BY <1>8, <1>15, <2>1
  <2>3. QED
    BY <2>1, <2>2 DEF Sent
<1>17. Sent(d, f, t2, M, M + 1) = Append(f[Place(c, M) + 1], z2)
  <2>1. M < M + 1
    BY <1>3
  <2>2. Place(d, M) = Place(c, M)
    BY <1>4, <1>8
  <2>3. QED
    BY <1>15, <2>1, <2>2 DEF Sent
<1>18. PICK h2 : h2 = [j \in 0 .. M |-> IF j = M THEN k ELSE h[j]]
  OBVIOUS
<1>19. h2[M] = k /\ \A j \in 0 .. M : j # M => h2[j] = h[j]
  BY <1>4, <1>18
<1>20. Nested(d, h2)
  <2>1. h2[0] = 0
    <3>1. h[0] = 0 /\ 0 \in 0 .. M /\ 0 # M
      BY <1>2, <1>3 DEF Nested
    <3>2. QED
      BY <1>19, <3>1
  <2>2. \A j \in 1 .. M : h2[j - 1] \in Nat /\ h2[j] = h2[j - 1] + Height(d[j])
    <3> TAKE j \in 1 .. M
    <3>1. h[j - 1] \in Nat /\ h[j] = h[j - 1] + Height(c[j]) /\ h2[j - 1] = h[j - 1]
      BY <1>2, <1>4, <1>19 DEF Nested
    <3>2. CASE j = M
      BY <1>6, <1>10, <1>19, <3>1, <3>2
    <3>3. CASE j # M
      <4>1. h2[j] = h[j] /\ d[j] = c[j]
        BY <1>4, <1>6, <1>19, <3>3
      <4>2. QED
        BY <3>1, <4>1
    <3>4. QED
      BY <3>2, <3>3
  <2>3. \A i, j \in 1 .. M : i < j => d[i].at < d[j].at /\ h2[i] < h2[j]
    <3> SUFFICES ASSUME NEW i \in 1 .. M, NEW j \in 1 .. M, i < j
                 PROVE  d[i].at < d[j].at /\ h2[i] < h2[j]
      OBVIOUS
    <3>1. c[i].at < c[j].at /\ h[i] < h[j] /\ i # M
      BY <1>2, <1>3 DEF Nested
    <3>2. h2[i] = h[i] /\ i \in 0 .. M /\ j \in 0 .. M
      BY <1>4, <1>19, <3>1
    <3>3. CASE j = M
      <4>1. i = M - 1 \/ i < M - 1
        BY <1>3, <3>1
      <4>2. h[i] \in Nat /\ (i = M - 1 \/ h[i] < h[M - 1])
        BY <1>3, <1>4, <3>2, <4>1
      <4>3. h[i] < k
        BY <1>9, <1>11, <4>2
      <4>4. QED
        BY <1>7, <1>19, <3>1, <3>2, <3>3, <4>3
    <3>4. CASE j # M
      <4>1. h2[j] = h[j]
        BY <1>19, <3>2, <3>4
      <4>2. QED
        BY <1>7, <3>1, <3>2, <4>1
    <3>5. QED
      BY <3>3, <3>4
  <2>4. QED
    BY <1>6, <2>1, <2>2, <2>3 DEF Nested
<1>21. \A j \in 1 .. M : FrameOf(w, d[j], t2[j], Sent(d, f, t2, j, M + 1), l2[h2[j]])
  <2> TAKE j \in 1 .. M
  <2>1. CASE j = M
    <3>1. d[j] = r /\ t2[j] = t[M] /\ h2[j] = k
      BY <1>4, <1>6, <1>15, <1>19, <2>1
    <3>2. QED
      BY <1>13, <1>17, <2>1, <3>1
  <2>2. CASE j # M
    <3>1. j \in 0 .. M /\ j < M /\ (j = M - 1 \/ j < M - 1)
      BY <1>3, <2>2
    <3>2. d[j] = c[j] /\ t2[j] = t[j] /\ h2[j] = h[j]
      BY <1>6, <1>15, <1>19, <2>2, <3>1
    <3>3. h[j] \in Nat /\ h[j] > 0 /\ (j = M - 1 \/ h[j] < h[M - 1])
      BY <1>3, <1>4, <3>1
    <3>4. h[j] \in 1 .. h[M - 1]
      BY <1>9, <3>3
    <3>5. l2[h[j]] = l[h[j]] /\ Sent(d, f, t2, j, M + 1) = Sent(c, f, t, j, M)
      BY <1>11, <1>16, <3>1, <3>4
    <3>6. FrameOf(w, c[j], t[j], Sent(c, f, t, j, M), l[h[j]])
      BY <1>2
    <3>7. QED
      BY <3>2, <3>5, <3>6
  <2>3. QED
    BY <2>1, <2>2
<1>22. Sent(d, f, t2, 0, M + 1) = <<x>>
  <2>1. 0 \in 0 .. M /\ 0 < M
    BY <1>3
  <2>2. QED
    BY <1>2, <1>16, <2>1
<1>23. Len(l2) = h2[M] + (M + 1 - M)
  <2>1. M + 1 - M = 1
    BY <1>3
  <2>2. QED
    BY <1>11, <1>19, <2>1
<1>24. HandsOver(w, l2[Len(l2)], t2[M + 1])
  BY <1>11, <1>13, <1>15
<1>25. Reads(Places(d), o, Len(o), f)
  BY <1>2, <1>8
<1>26. Under(w, x, d, o, l2, M + 1, f, t2, h2)
  BY <1>6, <1>20, <1>21, <1>22, <1>23, <1>24, <1>25 DEF Under
<1>27. QED
  BY <1>5, <1>26 DEF Follows

\* The innermost container is finished: it is one reply.
LEMMA FinishFollows ==
    ASSUME NEW w, NEW x, NEW c, NEW o, FramesOK(c, o), NEW l, IsSeq(l), NEW M, M = Len(c), M > 0,
           Follows(w, x, c, o, l, M),
           NEW e,
           \A z, y : FrameOf(w, c[M], z, y, l[Len(l)]) => Arity(e) = Len(y) /\ Composed(e, y) = z
    PROVE  Follows(w, x, SubSeq(c, 1, M - 1), [o EXCEPT ![c[M].at] = e],
                   SubSeq(l, 1, Len(l) - Height(c[M])), M - 1)
<1>1. PICK f, t, h : Under(w, x, c, o, l, M, f, t, h)
  BY DEF Follows
<1>2. /\ Reads(Places(c), o, Len(o), f) /\ Nested(c, h)
      /\ Len(l) = h[M] + (M - M)
      /\ Sent(c, f, t, 0, M) = <<x>>
      /\ \A j \in 1 .. M : FrameOf(w, c[j], t[j], Sent(c, f, t, j, M), l[h[j]])
  BY <1>1 DEF Under
<1>3. /\ M \in Nat /\ Len(o) \in Nat
      /\ \A j \in 0 .. M : h[j] \in Nat /\ h[j] <= h[M] /\ Place(c, j) \in 0 .. Len(o)
      /\ \A j \in 1 .. M : h[j] > 0 /\ IsFrame(c[j]) /\ Place(c, j) = c[j].at
      /\ \A i, j \in 0 .. M : i < j => Place(c, i) < Place(c, j) /\ h[i] < h[j]
      /\ Places(c) \subseteq 1 .. Len(o)
      /\ Place(c, M) \in Places(c) /\ LastBefore(Places(c), Place(c, M - 1), Place(c, M))
  BY <1>2, NestedFacts
<1>4. PICK N \in Nat : N = M - 1 /\ M = N + 1
  BY <1>3
<1>5. /\ M \in 1 .. M /\ M \in 0 .. M /\ N \in 0 .. M /\ ~(M < M) /\ M - M = 0 /\ N < M
      /\ \A j \in 1 .. N : j # 0 /\ j # M /\ j \in 0 .. M /\ j \in 1 .. M /\ j \in 0 .. N
      /\ \A j \in 0 .. N : j \in 0 .. M /\ (j = 0 \/ j \in 1 .. N)
      /\ \A j \in 1 .. M : j \in 1 .. N \/ j = M
  BY <1>4
<1>6. PICK a : a = c[M].at
  OBVIOUS
<1>7. PICK d : d = SubSeq(c, 1, N)
  OBVIOUS
<1>8. Len(d) = N /\ \A j \in 1 .. N : d[j] = c[j]
  <2>1. N \in 0 .. Len(c)
    BY <1>5
  <2>2. QED
    BY <1>7, <2>1, CutAny DEF FramesOK
<1>9. PICK n \in Nat : n = Len(o)
  BY <1>3
<1>10. a \in 1 .. n /\ a = Place(c, M)
  <2>1. a = Place(c, M)
    BY <1>3, <1>5, <1>6
  <2>2. QED
    BY <1>3, <1>9, <2>1
<1>11. PICK o2 : o2 = [o EXCEPT ![a] = e]
  OBVIOUS
<1>12. Len(o2) = n /\ o2[a] = e /\ \A i \in 1 .. n : i # a => o2[i] = o[i]
  <2>1. a \in 1 .. Len(o) /\ IsSeq(o)
    BY <1>9, <1>10 DEF FramesOK
  <2>2. Len(o2) = Len(o) /\ \A i \in 1 .. Len(o) : o2[i] = IF i = a THEN e ELSE o[i]
    BY <1>11, <2>1, ExceptAny
  <2>3. QED
    BY <1>9, <2>1, <2>2
<1>13. \A j \in 0 .. N : Place(d, j) = Place(c, j)
  BY <1>5, <1>8 DEF Place
<1>14. Places(d) = Places(c) \ {a}
  <2>1. \A j \in 1 .. N : c[j].at # a
    BY <1>5, <1>6 DEF FramesOK
  <2>2. QED
    BY <1>5, <1>6, <1>8, <2>1 DEF Places
<1>15. h[M] \in Nat /\ h[N] \in Nat /\ h[M] = h[N] + Height(c[M]) /\ Len(l) = h[M]
  <2>1. h[M] \in Nat /\ h[N] \in Nat
    BY <1>3, <1>5
  <2>2. h[M] = h[N] + Height(c[M])
    BY <1>2, <1>4, <1>5 DEF Nested
  <2>3. QED
    BY <1>2, <1>5, <2>1, <2>2
<1>16. Arity(e) = Len(f[a + 1]) /\ Composed(e, f[a + 1]) = t[M]
  <2>1. Sent(c, f, t, M, M) = f[a + 1]
    BY <1>5, <1>10 DEF Sent
  <2>2. FrameOf(w, c[M], t[M], f[a + 1], l[Len(l)])
    BY <1>2, <1>5, <1>15, <2>1
  <2>3. QED
    BY <2>2
<1>17. PICK p : p = Place(c, N)
  OBVIOUS
<1>18. p \in 0 .. a - 1
  <2>1. p \in 0 .. n /\ p < a
    BY <1>3, <1>5, <1>9, <1>10, <1>17
  <2>2. QED
    BY <1>10, <2>1
<1>19. PICK g : Reads(Places(d), o2, n, g) /\ OneMore(f, g, p, t[M])
  <2>1. PICK A : A = Places(c)
    OBVIOUS
  <2>2. Reads(A, o, n, f) /\ a \in A /\ LastBefore(A, p, a)
    BY <1>2, <1>3, <1>4, <1>9, <1>10, <1>17, <2>1
  <2>3. PICK z : z = t[M]
    OBVIOUS
  <2>4. Arity(o2[a]) = Len(f[a + 1]) /\ Composed(o2[a], f[a + 1]) = z
    BY <1>12, <1>16, <2>3
  <2>5. \A i \in 1 .. n : i # a => o2[i] = o[i]
    BY <1>12
  <2>6. a \in 1 .. n
    BY <1>10
  <2>7. \E g : Reads(A \ {a}, o2, n, g) /\ OneMore(f, g, p, z)
    BY <1>18, <2>2, <2>4, <2>5, <2>6, FinishReads
  <2>8. QED
    BY <1>14, <2>1, <2>3, <2>7
<1>20. \A j \in 0 .. N : Sent(d, g, t, j, N) = Sent(c, f, t, j, M)
  <2>1. \A j \in 0 .. N : Place(d, j) = Place(c, j) /\ Place(c, j) \in Nat
    BY <1>3, <1>5, <1>13
  <2>2. \A j \in 0 .. N : j < N => Place(c, j) < Place(c, N)
    BY <1>3, <1>5
  <2>3. \A j \in 0 .. N : Sent(d, g, t, j, N) = Sent(c, f, t, j, N + 1)
    <3>1. PICK z : z = t[N + 1]
      OBVIOUS
    <3>2. OneMore(f, g, Place(c, N), z)
      BY <1>4, <1>17, <1>19, <3>1
    <3>3. QED
      BY <2>1, <2>2, <3>1, <3>2, SentKept
  <2>4. QED
    BY <1>4, <2>3
<1>21. PICK l2 : l2 = SubSeq(l, 1, h[N])
  OBVIOUS
<1>22. Len(l2) = h[N] /\ \A i \in 1 .. h[N] : l2[i] = l[i]
  <2>1. PICK k \in Nat : k = h[N]
    BY <1>15
  <2>2. h[N] <= h[M]
    BY <1>3, <1>5
  <2>3. k \in 0 .. Len(l)
    BY <1>15, <2>1, <2>2
  <2>4. QED
    BY <1>21, <2>1, <2>3, CutAny
<1>23. Nested(d, h)
  <2>1. h[0] = 0
    BY <1>2 DEF Nested
  <2>2. \A j \in 1 .. N : h[j - 1] \in Nat /\ h[j] = h[j - 1] + Height(d[j])
    BY <1>2, <1>5, <1>8 DEF Nested
  <2>3. \A i, j \in 1 .. N : i < j => d[i].at < d[j].at /\ h[i] < h[j]
    BY <1>2, <1>5, <1>8 DEF Nested
  <2>4. QED
    BY <1>8, <2>1, <2>2, <2>3 DEF Nested
<1>24. \A j \in 1 .. N : FrameOf(w, d[j], t[j], Sent(d, g, t, j, N), l2[h[j]])
  <2> TAKE j \in 1 .. N
  <2>1. j \in 0 .. N /\ j \in 1 .. M /\ j \in 0 .. M /\ (j = N \/ j < N)
    BY <1>5
  <2>2. h[j] \in Nat /\ h[j] > 0 /\ (j = N \/ h[j] < h[N])
    BY <1>3, <1>5, <2>1
  <2>3. h[j] \in 1 .. h[N]
    BY <1>15, <2>2
  <2>4. l2[h[j]] = l[h[j]] /\ d[j] = c[j] /\ Sent(d, g, t, j, N) = Sent(c, f, t, j, M)
    BY <1>8, <1>20, <1>22, <2>1, <2>3
  <2>5. FrameOf(w, c[j], t[j], Sent(c, f, t, j, M), l[h[j]])
    BY <1>2, <2>1
  <2>6. QED
    BY <2>4, <2>5
<1>25. Sent(d, g, t, 0, N) = <<x>>
  <2>1. 0 \in 0 .. N
    OBVIOUS
  <2>2. QED
    BY <1>2, <1>20, <2>1
<1>26. Len(l2) = h[N] + (N - N) /\ ~(N > N)
  BY <1>15, <1>22
<1>27. Under(w, x, d, o2, l2, N, g, t, h)
  BY <1>8, <1>12, <1>19, <1>23, <1>24, <1>25, <1>26 DEF Under
<1>28. Len(l) - Height(c[M]) = h[N]
  <2>1. Height(c[M]) \in 1 .. 4
    BY <1>3, <1>5, BegunFrame
  <2>2. QED
    BY <1>15, <2>1
<1>29. QED
  BY <1>4, <1>6, <1>7, <1>11, <1>21, <1>27, <1>28 DEF Follows

-----------------------------------------------------------------------------
(* The steps of the conversion.                                             *)

LEMMA Concat ==
    ASSUME NEW s, NEW t, IsSeq(s), IsSeq(t)
    PROVE  /\ \A i \in 1 .. Len(s) : (s \o t)[i] = s[i]
           /\ \A i \in 1 .. Len(t) : (s \o t)[Len(s) + i] = t[i]
<1>1. PICK S, T : s \in Seq(S) /\ t \in Seq(T)
  BY DEF IsSeq
<1>2. PICK U : U = S \cup T
  OBVIOUS
<1>3. s \in Seq(U) /\ t \in Seq(U)
  BY <1>1, <1>2, SeqMonotonic
<1>4. Len(s) \in Nat /\ Len(t) \in Nat
  BY <1>3, LenProperties
<1>5. \A i \in 1 .. Len(s) + Len(t) :
          (s \o t)[i] = IF i <= Len(s) THEN s[i] ELSE t[i - Len(s)]
  BY <1>3, ConcatProperties
<1>6. \A n, m \in Nat : /\ \A i \in 1 .. n : i \in 1 .. n + m /\ i <= n
                        /\ \A i \in 1 .. m : n + i \in 1 .. n + m /\ ~(n + i <= n) /\ n + i - n = i
  OBVIOUS
<1>7. QED
  BY <1>4, <1>5, <1>6

\* Nothing was cut at the stack limit.
NoCut == \A i \in DOMAIN out : out[i] # Text("error", <<"stack limit">>)

HandsInv ==
    /\ phase = "call" => reply = Null
    /\ phase \in {"convert", "resume", "done"} /\ reply # Null /\ NoCut =>
           Follows(resp, HandedOn(resp)[reply], cont, out, lua, Len(cont) + Waiting)

LEMMA AppendNoCut ==
    ASSUME IInv, NEW e, out' = Append(out, e), NoCut'
    PROVE  NoCut /\ e # Text("error", <<"stack limit">>)
<1>1. IsSeq(out)
  BY DEF IInv, FramesOK
<1>2. PICK n \in Nat : n = Len(out)
  BY <1>1, AnySeq
<1>3. /\ DOMAIN out = 1 .. n /\ DOMAIN out' = 1 .. n + 1
      /\ (\A i \in 1 .. n : out'[i] = out[i]) /\ out'[n + 1] = e
  <2>1. PICK o : o = Append(out, e)
    OBVIOUS
  <2>2. IsSeq(o) /\ Len(o) = n + 1 /\ (\A i \in 1 .. n : o[i] = out[i]) /\ o[n + 1] = e
    BY <1>1, <1>2, <2>1, AppendAny
  <2>3. DOMAIN o = 1 .. n + 1 /\ DOMAIN out = 1 .. n
    BY <1>1, <1>2, <2>2, AnySeq
  <2>4. QED
    BY <2>1, <2>2, <2>3
<1>4. n + 1 \in 1 .. n + 1 /\ \A i \in 1 .. n : i \in 1 .. n + 1
  OBVIOUS
<1>5. QED
  BY <1>3, <1>4 DEF NoCut

LEMMA TokenIsLeaf ==
    ASSUME NEW w, NEW u
    PROVE  TokenOf(w, u).k \notin Containers
BY DEF TokenOf, Text, Verbatim, Integer, Double, Null, Truth, Containers

\* A value that is no container is converted.
LEMMA ConsumedHands ==
    ASSUME IInv, HandsInv, phase = "convert", Consumed,
           ~IsContainer(Top), NEW e, e = TokenOf(resp, Top), out' = Append(out, e)
    PROVE  HandsInv'
<1>1. /\ lua' = SubSeq(lua, 1, Len(lua) - 1) /\ phase' = "resume"
      /\ resp' = resp /\ reply' = reply /\ cont' = cont
  BY DEF Consumed, Down
<1>2. FramesOK(cont, out) /\ IsSeq(lua) /\ resp \in {2, 3} /\ IsSeq(cont)
  BY DEF IInv, FramesOK
<1>3. PICK M \in Nat : M = Len(cont)
  BY <1>2, AnySeq
<1>4. Waiting = 1 /\ Waiting' = 0
  BY <1>1 DEF Waiting
<1>5. e.k \notin Containers
  BY TokenIsLeaf
<1>6. \A z : HandsOver(resp, lua[Len(lua)], z) => e = z
  <2> TAKE z
  <2> HAVE HandsOver(resp, lua[Len(lua)], z)
  <2>1. PICK u : u = Top
    OBVIOUS
  <2>2. Describes(Replies[resp], resp, u, z)
    BY <1>2, <2>1, Left DEF Top
  <2>3. QED
    BY <2>1, <2>2 DEF Describes
<1>7. PICK x : x = HandedOn(resp)[reply]
  OBVIOUS
<1>8. ASSUME reply # Null, NoCut'
      PROVE  Follows(resp, x, cont, out', lua', M)
  <2>1. NoCut
    BY <1>8, AppendNoCut
  <2>2. Follows(resp, x, cont, out, lua, M + 1)
    BY <1>3, <1>4, <1>7, <1>8, <2>1 DEF HandsInv
  <2>3. Follows(resp, x, cont, Append(out, e), SubSeq(lua, 1, Len(lua) - 1), M)
    BY <1>2, <1>3, <1>5, <1>6, <2>2, WriteFollows
  <2>4. QED
    BY <1>1, <2>3
<1>9. Len(cont') + Waiting' = M
  BY <1>1, <1>3, <1>4
<1>10. QED
  BY <1>1, <1>7, <1>8, <1>9 DEF HandsInv

\* A container is begun.
LEMMA BeginHands ==
    ASSUME IInv, HandsInv, phase = "convert", IsContainer(Top),
           NEW rest, NEW pushed, IsSeq(pushed),
           Len(pushed) = (IF Shape(Top) = "array" THEN 0 ELSE 2),
           Shape(Top) = "set" => rest = Field(Top, "set").f,
           Shape(Top) = "map" => rest = Field(Top, "map").f,
           Begin(Shape(Top), rest, pushed)
    PROVE  HandsInv'
<1>1. PICK u, kind : u = Top /\ kind = Shape(Top)
  OBVIOUS
<1>2. PICK r : r = [k |-> kind, at |-> Len(out) + 1, n |-> 0, rest |-> rest]
  OBVIOUS
<1>3. PICK e : e = [k |-> kind, len |-> -1]
  OBVIOUS
<1>4. /\ out' = Append(out, e) /\ cont' = Append(cont, r) /\ lua' = lua \o pushed
      /\ phase' = "resume" /\ resp' = resp /\ reply' = reply
  BY <1>1, <1>2, <1>3 DEF Begin
<1>5. FramesOK(cont, out) /\ IsSeq(lua) /\ resp \in {2, 3} /\ IsSeq(cont)
  BY DEF IInv, FramesOK
<1>6. PICK M \in Nat : M = Len(cont)
  BY <1>5, AnySeq
<1>7. Waiting = 1 /\ Waiting' = 0
  BY <1>4 DEF Waiting
<1>8. /\ kind \in {"array", "map", "set"} /\ r.k = kind /\ r.n = 0 /\ r.rest = rest
      /\ r.at = Len(out) + 1
  BY <1>1, <1>2 DEF IsContainer, Containers
<1>9. Height(r) = 1 + Len(pushed) /\ Height(r) \in 1 .. 4
  BY <1>1, <1>8 DEF Height
<1>10. PICK l \in Nat : l = Len(lua) /\ l > 0
  <2>1. Len(lua) \in Nat
    BY <1>5, AnySeq
  <2>2. Heights(cont, Len(lua) - 1)
    BY <1>7 DEF IInv, InConversion
  <2>3. Len(lua) - 1 \in Nat
    BY <1>5, <2>2, HeightBounds
  <2>4. QED
    BY <2>1, <2>3
<1>11. PICK l2 : l2 = lua \o pushed
  OBVIOUS
<1>12. Len(l2) = l + Len(pushed) /\ \A i \in 1 .. l : l2[i] = lua[i]
  BY <1>5, <1>10, <1>11, ConcatAny, Concat
<1>13. kind = "array" => l2[Len(l2)] = u
  <2>1. kind = "array" => Len(l2) = l
    BY <1>1, <1>10, <1>12
  <2>2. l2[l] = u
    BY <1>1, <1>10, <1>12 DEF Top
  <2>3. QED
    BY <2>1, <2>2
<1>14. Len(l2) = Len(lua) - 1 + Height(r) /\ \A i \in 1 .. Len(lua) - 1 : l2[i] = lua[i]
  <2>1. l + Len(pushed) = l - 1 + Height(r)
    BY <1>1, <1>8, <1>9, <1>10
  <2>2. \A i \in 1 .. l - 1 : i \in 1 .. l
    BY <1>10
  <2>3. QED
    BY <1>10, <1>12, <2>1, <2>2
<1>15. \A z : HandsOver(resp, lua[Len(lua)], z) => FrameOf(resp, r, z, <<>>, l2[Len(l2)])
  <2> TAKE z
  <2> HAVE HandsOver(resp, lua[Len(lua)], z)
  <2>1. HandsOver(resp, u, z) /\ IsContainer(u) /\ r.k = Shape(u)
    BY <1>1, <1>8 DEF Top
  <2>2. /\ r.k = "set" => r.rest = Field(u, "set").f
        /\ r.k = "map" => r.rest = Field(u, "map").f
    BY <1>1, <1>8
  <2>3. PICK top : top = l2[Len(l2)]
    OBVIOUS
  <2>4. r.k = "array" => top = u
    BY <1>8, <1>13, <2>3
  <2>5. FrameOf(resp, r, z, <<>>, top)
    BY <1>5, <1>8, <2>1, <2>2, <2>4, FrameBegun
  <2>6. QED
    BY <2>3, <2>5
<1>16. PICK x : x = HandedOn(resp)[reply]
  OBVIOUS
<1>17. ASSUME reply # Null, NoCut'
       PROVE  Follows(resp, x, cont', out', lua', M + 1)
  <2>1. NoCut
    BY <1>4, <1>17, AppendNoCut
  <2>2. Follows(resp, x, cont, out, lua, M + 1)
    BY <1>6, <1>7, <1>16, <1>17, <2>1 DEF HandsInv
  <2>3. Follows(resp, x, Append(cont, r), Append(out, e), l2, M + 1)
    BY <1>5, <1>6, <1>8, <1>9, <1>14, <1>15, <2>2, BeginFollows
  <2>4. QED
    BY <1>4, <1>11, <2>3
<1>18. Len(cont') + Waiting' = M + 1
  <2>1. Len(cont') = M + 1
    BY <1>4, <1>5, <1>6, AppendAny
  <2>2. QED
    BY <1>7, <2>1
<1>19. QED
  BY <1>4, <1>16, <1>17, <1>18 DEF HandsInv

\* What taking a part makes of the stack.
LEMMA TakenStack ==
    ASSUME IInv, cont # <<>>, phase = "resume", NEW n \in 0 .. 1, NEW pushed, IsSeq(pushed),
           lua' = Down(n) \o pushed
    PROVE  /\ Len(lua) \in Nat /\ Len(lua) >= Height(Frame)
           /\ Len(lua') = Len(lua) - n + Len(pushed)
           /\ \A i \in 1 .. Len(lua) - n : lua'[i] = lua[i]
           /\ \A i \in 1 .. Len(pushed) : lua'[Len(lua) - n + i] = pushed[i]
<1>1. IsSeq(lua) /\ FramesOK(cont, out) /\ IsFrame(Frame) /\ Heights(cont, Len(lua))
  <2>1. Waiting = 0 /\ Len(lua) \in Nat
    BY AnySeq DEF IInv, Waiting
  <2>2. Len(lua) - 0 = Len(lua)
    BY <2>1
  <2>3. QED
    BY <2>1, <2>2, InnermostFrame DEF IInv, InConversion
<1>2. Height(Frame) \in 1 .. 4 /\ Len(lua) \in Nat /\ Len(lua) >= Height(Frame)
  BY <1>1, BegunFrame, HeightBounds DEF Frame
<1>3. PICK m \in Nat : m = Len(lua) - n /\ m \in 0 .. Len(lua)
  <2>1. PICK k \in Nat : k = Len(lua) /\ k >= 1
    BY <1>2
  <2>2. k - n \in Nat /\ k - n \in 0 .. k
    BY <2>1
  <2>3. QED
    BY <2>1, <2>2
<1>4. PICK s : s = SubSeq(lua, 1, m)
  OBVIOUS
<1>5. IsSeq(s) /\ Len(s) = m /\ \A i \in 1 .. m : s[i] = lua[i]
  BY <1>1, <1>3, <1>4, CutAny
<1>6. PICK l2 : l2 = s \o pushed
  OBVIOUS
<1>7. /\ Len(l2) = m + Len(pushed)
      /\ \A i \in 1 .. m : l2[i] = s[i]
      /\ \A i \in 1 .. Len(pushed) : l2[m + i] = pushed[i]
  <2>1. IsSeq(s)
    BY <1>5
  <2>2. /\ Len(l2) = Len(s) + Len(pushed)
        /\ \A i \in 1 .. Len(s) : l2[i] = s[i]
        /\ \A i \in 1 .. Len(pushed) : l2[Len(s) + i] = pushed[i]
    BY <1>6, <2>1, ConcatAny, Concat
  <2>3. QED
    BY <1>5, <2>2
<1>8. lua' = l2
  BY <1>3, <1>4, <1>6 DEF Down
<1>9. QED
  BY <1>2, <1>3, <1>5, <1>7, <1>8

\* The next part of the innermost container is put on the stack.
LEMMA TakeHands ==
    ASSUME IInv, HandsInv, phase = "resume", cont # <<>>,
           NEW n \in 0 .. 1, NEW pushed, IsSeq(pushed),
           NEW r, r.at = Frame.at, Height(r) \in 1 .. 4,
           Len(pushed) - n = Height(r) - Height(Frame) + 1,
           Take(n, pushed, r),
           \A z, y : FrameOf(resp, Frame, z, y, Top) =>
               \E z2 : /\ HandsOver(resp, lua'[Len(lua')], z2)
                       /\ FrameOf(resp, r, z, Append(y, z2), lua'[Len(lua') - 1])
    PROVE  HandsInv'
<1>1. /\ lua' = Down(n) \o pushed /\ cont' = [cont EXCEPT ![Len(cont)] = r]
      /\ phase' = "convert" /\ out' = out /\ resp' = resp /\ reply' = reply
  BY DEF Take
<1>2. FramesOK(cont, out) /\ IsSeq(lua) /\ resp \in {2, 3} /\ IsSeq(cont)
  BY DEF IInv, FramesOK
<1>3. PICK M \in Nat : M = Len(cont) /\ M > 0
  BY <1>2, AnySeq
<1>4. Waiting = 0 /\ Waiting' = 1
  BY <1>1 DEF Waiting
<1>5. /\ Len(lua) \in Nat /\ Len(lua) >= Height(Frame)
      /\ Len(lua') = Len(lua) - n + Len(pushed)
      /\ \A i \in 1 .. Len(lua) - n : lua'[i] = lua[i]
  BY <1>1, TakenStack
<1>6. Height(Frame) \in 1 .. 4 /\ Frame = cont[M] /\ Top = lua[Len(lua)]
  BY <1>3, InnermostFrame, BegunFrame DEF Frame, Top
<1>7. PICK l2 : l2 = lua'
  OBVIOUS
<1>8. Len(l2) = Len(lua) - Height(cont[M]) + Height(r) + 1
  <2>1. Len(pushed) \in Nat
    BY AnySeq
  <2>2. PICK m \in Nat : m = Len(pushed)
    BY <2>1
  <2>3. PICK p \in Nat : p = Len(lua)
    BY <1>5
  <2>4. PICK g \in 1 .. 4 : g = Height(r)
    OBVIOUS
  <2>5. PICK h \in 1 .. 4 : h = Height(Frame)
    BY <1>6
  <2>6. m - n = g - h + 1
    BY <2>2, <2>4, <2>5
  <2>7. p - n + m = p - h + g + 1
    BY <2>6
  <2>8. Len(l2) = p - n + m /\ Height(cont[M]) = h
    BY <1>5, <1>6, <1>7, <2>2, <2>3, <2>5
  <2>9. QED
    BY <2>3, <2>4, <2>7, <2>8
<1>9. \A i \in 1 .. Len(lua) - Height(cont[M]) : l2[i] = lua[i]
  <2>1. \A i \in 1 .. Len(lua) - Height(cont[M]) : i \in 1 .. Len(lua) - n
    BY <1>5, <1>6
  <2>2. QED
    BY <1>5, <1>7, <2>1
<1>10. \A z, y : FrameOf(resp, cont[M], z, y, lua[Len(lua)]) =>
           \E z2 : /\ HandsOver(resp, l2[Len(l2)], z2)
                   /\ FrameOf(resp, r, z, Append(y, z2), l2[Len(l2) - 1])
  BY <1>6, <1>7
<1>11. r.at = cont[M].at
  BY <1>6
<1>12. PICK x : x = HandedOn(resp)[reply]
  OBVIOUS
<1>13. ASSUME reply # Null, NoCut
       PROVE  Follows(resp, x, cont', out', lua', M + 1)
  <2>1. Follows(resp, x, cont, out, lua, M)
    <3>1. M + 0 = M
      OBVIOUS
    <3>2. QED
      BY <1>3, <1>4, <1>12, <1>13, <3>1 DEF HandsInv
  <2>2. Follows(resp, x, [cont EXCEPT ![M] = r], out, l2, M + 1)
    BY <1>2, <1>3, <1>8, <1>9, <1>10, <1>11, <2>1, TakeFollows
  <2>3. QED
    BY <1>1, <1>3, <1>7, <2>2
<1>14. Len(cont') + Waiting' = M + 1
  <2>1. Len(cont') = M
    BY <1>1, <1>2, <1>3, ExceptAny
  <2>2. QED
    BY <1>4, <2>1
<1>15. NoCut' => NoCut
  BY <1>1 DEF NoCut
<1>16. QED
  BY <1>1, <1>12, <1>13, <1>14, <1>15 DEF HandsInv

\* The innermost container is finished: its token makes what is left of it of
\* the replies its parts were written as.
LEMMA FinishHands ==
    ASSUME IInv, HandsInv, phase = "resume", cont # <<>>, Frame.k \in {"map", "set", "array"},
           NEW pops, pops = Height(Frame), Finish(pops),
           \A e, z, y : e.k = Frame.k /\ FrameOf(resp, Frame, z, y, Top) => Composed(e, y) = z
    PROVE  HandsInv'
<1>1. FramesOK(cont, out) /\ IsSeq(lua) /\ resp \in {2, 3} /\ IsSeq(cont) /\ IsSeq(out)
  BY DEF IInv, FramesOK
<1>2. PICK M \in Nat : M = Len(cont) /\ M > 0 /\ M \in 1 .. M
  BY <1>1, AnySeq
<1>3. IsFrame(Frame) /\ Frame = cont[M] /\ Top = lua[Len(lua)] /\ Kind(Frame) = Frame.k
  BY <1>2, InnermostFrame, BegunFrame DEF Frame, Top
<1>4. PICK a : a = Frame.at
  OBVIOUS
<1>5. a \in 1 .. Len(out) /\ out[a] = [k |-> Kind(Frame), len |-> -1]
  BY <1>1, <1>2, <1>3, <1>4 DEF FramesOK
<1>6. PICK e : e = [k |-> Kind(Frame), len |-> Frame.n]
  OBVIOUS
<1>7. [out EXCEPT ![Frame.at].len = Frame.n] = [out EXCEPT ![a] = e]
  <2>1. [out[Frame.at] EXCEPT !.len = Frame.n] = e
    BY <1>4, <1>5, <1>6
  <2>2. QED
    BY <1>4, <2>1
<1>8. /\ out' = [out EXCEPT ![a] = e] /\ lua' = SubSeq(lua, 1, Len(lua) - Height(cont[M]))
      /\ cont' = SubSeq(cont, 1, M - 1) /\ phase' = "resume" /\ resp' = resp /\ reply' = reply
  BY <1>2, <1>3, <1>7 DEF Finish, Down
<1>9. Waiting = 0 /\ Waiting' = 0
  BY <1>8 DEF Waiting
<1>10. \A z, y : FrameOf(resp, cont[M], z, y, lua[Len(lua)])
                 => Arity(e) = Len(y) /\ Composed(e, y) = z
  <2> TAKE z, y
  <2> HAVE FrameOf(resp, cont[M], z, y, lua[Len(lua)])
  <2>1. Composed(e, y) = z
    BY <1>3, <1>6
  <2>2. Len(y) = Begun(Frame)
    BY <1>3 DEF FrameOf
  <2>3. Arity(e) = Begun(Frame)
    BY <1>3, <1>6 DEF Arity, Begun
  <2>4. QED
    BY <2>1, <2>2, <2>3
<1>11. NoCut' => NoCut
  <2>1. out[a] # Text("error", <<"stack limit">>)
    <3>1. out[a].k = Frame.k
      BY <1>3, <1>5
    <3>2. Text("error", <<"stack limit">>).k = "error"
      BY DEF Text
    <3>3. QED
      BY <3>1, <3>2
  <2>2. PICK o : o = [out EXCEPT ![a] = e]
    OBVIOUS
  <2>3. Len(o) = Len(out) /\ IsSeq(o) /\ \A i \in 1 .. Len(out) : o[i] = IF i = a THEN e ELSE out[i]
    <3>1. a \in 1 .. Len(out) /\ IsSeq(out)
      BY <1>1, <1>5
    <3>2. Len(o) = Len(out) /\ \A i \in 1 .. Len(out) : o[i] = IF i = a THEN e ELSE out[i]
      BY <2>2, <3>1, ExceptAny
    <3>3. IsSeq([out EXCEPT ![a] = e])
      BY <3>1, ExceptAny
    <3>4. QED
      BY <2>2, <3>2, <3>3
  <2>4. DOMAIN o = DOMAIN out /\ DOMAIN out = 1 .. Len(out)
    BY <1>1, <2>2, AnySeq
  <2>5. QED
    BY <1>8, <2>1, <2>2, <2>3, <2>4 DEF NoCut
<1>12. PICK x : x = HandedOn(resp)[reply]
  OBVIOUS
<1>13. ASSUME reply # Null, NoCut
       PROVE  Follows(resp, x, cont', out', lua', M - 1)
  <2>1. Follows(resp, x, cont, out, lua, M)
    <3>1. M + 0 = M
      OBVIOUS
    <3>2. QED
      BY <1>2, <1>9, <1>12, <1>13, <3>1 DEF HandsInv
  <2>2. a = cont[M].at
    BY <1>3, <1>4
  <2>3. Follows(resp, x, SubSeq(cont, 1, M - 1), [out EXCEPT ![cont[M].at] = e],
                SubSeq(lua, 1, Len(lua) - Height(cont[M])), M - 1)
    BY <1>1, <1>2, <1>10, <2>1, FinishFollows
  <2>4. QED
    BY <1>8, <2>2, <2>3
<1>14. Len(cont') + Waiting' = M - 1
  <2>1. M - 1 \in 0 .. Len(cont) /\ M - 1 + 0 = M - 1
    BY <1>2
  <2>2. Len(cont') = M - 1
    BY <1>1, <1>8, <2>1, CutAny
  <2>3. QED
    BY <1>9, <2>1, <2>2
<1>15. QED
  BY <1>8, <1>11, <1>12, <1>13, <1>14 DEF HandsInv

\* A conversion begins with the value the command's reply became.
LEMMA StartFollows ==
    ASSUME NEW w, NEW x, NEW v, HandsOver(w, v, x)
    PROVE  Follows(w, x, <<>>, <<>>, <<v>>, 1)
<1>1. PICK f : f = [i \in 1 .. 1 |-> <<>>]
  OBVIOUS
<1>2. PICK t : t = [i \in 1 .. 1 |-> x]
  OBVIOUS
<1>3. PICK h : h = [i \in 0 .. 0 |-> 0]
  OBVIOUS
<1>4. PICK e : e = <<>>
  OBVIOUS
<1>5. PICK l : l = <<v>>
  OBVIOUS
<1>6. IsSeq(e) /\ Len(e) = 0 /\ Len(l) = 1 /\ l[1] = v
  BY <1>4, <1>5, Tuples
<1>7. f[1] = e /\ t[1] = x /\ h[0] = 0
  BY <1>1, <1>2, <1>3, <1>4
<1>8. Reads(Places(e), e, 0, f)
  <2>1. \A i \in 1 .. 0 + 1 : i = 1
    OBVIOUS
  <2>2. 1 .. 0 = {} /\ 0 + 1 = 1
    OBVIOUS
  <2>3. QED
    BY <1>4, <1>6, <1>7, <2>1, <2>2 DEF Reads
<1>9. Nested(e, h)
  <2>1. 1 .. 0 = {}
    OBVIOUS
  <2>2. QED
    BY <1>6, <1>7, <2>1 DEF Nested
<1>10. Sent(e, f, t, 0, 1) = <<x>>
  <2>1. 0 < 1 /\ 0 + 1 = 1 /\ Place(e, 0) = 0
    BY DEF Place
  <2>2. Sent(e, f, t, 0, 1) = Append(e, x)
    BY <1>7, <2>1 DEF Sent
  <2>3. Append(<<>>, x) = <<x>>
    OBVIOUS
  <2>4. QED
    BY <1>4, <2>2, <2>3
<1>11. Len(l) = h[Len(e)] + (1 - Len(e)) /\ 1 .. Len(e) = {} /\ HandsOver(w, l[Len(l)], t[1])
  BY <1>6, <1>7
<1>12. Under(w, x, e, e, l, 1, f, t, h)
  BY <1>6, <1>8, <1>9, <1>10, <1>11 DEF Under
<1>13. QED
  BY <1>4, <1>5, <1>12 DEF Follows

\* With no container under way, the stream is the reply.
LEMMA ReadAll ==
    ASSUME NEW w, NEW x, NEW o, IsSeq(o), NEW l, Follows(w, x, <<>>, o, l, 0)
    PROVE  Reading(o)[1] = <<x>>
<1>1. PICK e : e = <<>>
  OBVIOUS
<1>2. PICK f, t, h : Under(w, x, e, o, l, 0, f, t, h)
  BY <1>1 DEF Follows
<1>3. Len(e) = 0 /\ 1 .. 0 = {}
  BY <1>1, Tuples
<1>4. Places(e) = {}
  BY <1>3 DEF Places
<1>5. PICK n \in Nat : n = Len(o)
  BY AnySeq
<1>6. Reads({}, o, n, f)
  BY <1>2, <1>4, <1>5 DEF Under
<1>7. f[1] = <<x>>
  <2>1. Place(e, 0) = 0 /\ 0 + 1 = 1 /\ ~(0 < 0)
    BY DEF Place
  <2>2. Sent(e, f, t, 0, 0) = <<x>>
    BY <1>2 DEF Under
  <2>3. QED
    BY <2>1, <2>2 DEF Sent
<1>8. /\ \A i \in 1 .. n + 1 : IsSeq(f[i])
      /\ f[n + 1] = <<>>
      /\ \A i \in 1 .. n : Enough(o[i], f[i + 1]) /\ f[i] = Taking(o[i], f[i + 1])
  BY <1>6 DEF Reads
<1>9. Reading(o)[1] = f[1]
  BY <1>5, <1>8, ReadingIs
<1>10. QED
  BY <1>7, <1>9

LEMMA HandsInit == Init => HandsInv
BY DEF Init, HandsInv

LEMMA CommandReplyHands ==
    ASSUME IInv, HandsInv, CommandReply
    PROVE  HandsInv'
<1>1. PICK r \in Replies[resp] :
          /\ reply' = r
          /\ IF HasNilKey(resp)[r]
             THEN phase' = "raised" /\ UNCHANGED <<given, lua>>
             ELSE Return(ToLua(resp)[r])
  BY DEF CommandReply
<1>2. UNCHANGED <<resp, cont, out>> /\ cont = <<>> /\ out = <<>>
  BY DEF CommandReply, IInv
<1>3. CASE HasNilKey(resp)[r]
  BY <1>1, <1>3 DEF HandsInv
<1>4. CASE ~HasNilKey(resp)[r]
  <2>1. PICK v, x : v = ToLua(resp)[r] /\ x = HandedOn(resp)[r]
    OBVIOUS
  <2>2. phase' = "convert" /\ lua' = <<v>>
    BY <1>1, <1>4, <2>1 DEF Return
  <2>3. HandsOver(resp, v, x)
    BY <2>1 DEF HandsOver, HandsIn
  <2>4. Follows(resp, x, <<>>, <<>>, <<v>>, 1)
    BY <2>3, StartFollows
  <2>5. Len(cont') + Waiting' = 1
    <3>1. Len(cont') = 0 /\ Waiting' = 1
      BY <1>2, <2>2, Tuples DEF Waiting
    <3>2. QED
      BY <3>1
  <2>6. QED
    BY <1>1, <1>2, <2>1, <2>2, <2>4, <2>5 DEF HandsInv
<1>5. QED
  BY <1>3, <1>4

LEMMA ConvertHands ==
    ASSUME IInv, HandsInv, Convert
    PROVE  HandsInv'
<1>1. CASE StackLimit
  <2>1. PICK e : e = Text("error", <<"stack limit">>)
    OBVIOUS
  <2>2. out' = Append(out, e) /\ phase' = "resume"
    BY <1>1, <2>1 DEF StackLimit, Consumed
  <2>3. ~NoCut'
    BY <2>1, <2>2, AppendNoCut
  <2>4. QED
    BY <2>2, <2>3 DEF HandsInv
<1>2. CASE Scalar
  <2>1. PICK u, e : u = Top /\ e = TokenOf(resp, u)
    OBVIOUS
  <2>2. u.t # "table"
    BY <1>2, <2>1 DEF Scalar
  <2>3. e = CASE u.t = "string"  -> Text("string", u.s)
              [] u.t = "boolean" -> BooleanReply(u.b)
              [] u.t = "number"  -> Integer(LongLong(u))
              [] OTHER           -> Null
    BY <2>1, <2>2 DEF TokenOf, BooleanReply
  <2>4. out' = Append(out, e)
    BY <1>2, <2>1, <2>3 DEF Scalar
  <2>5. phase = "convert" /\ Consumed /\ ~IsContainer(Top)
    BY <1>2 DEF Scalar, IsContainer
  <2>6. QED
    BY <2>1, <2>4, <2>5, ConsumedHands
<1>3. CASE SingleField
  <2>1. PICK u : u = Top
    OBVIOUS
  <2>2. phase = "convert" /\ Consumed /\ u.t = "table"
    BY <1>3, <2>1 DEF SingleField, Converting
  <2>3. \/ Shape(u) = "err" /\ out' = Append(out, Text("error", CString(Field(u, "err").s)))
        \/ Shape(u) = "ok" /\ out' = Append(out, Text("simple", OneLine(Field(u, "ok").s)))
        \/ Shape(u) = "double" /\ out' = Append(out, Double(Field(u, "double")))
        \/ /\ Shape(u) = "big_number"
           /\ out' = Append(out, Text("big_number", OneLine(Field(u, "big_number").s)))
        \/ /\ Shape(u) = "verbatim_string"
           /\ out' = Append(out, Verbatim(Field(Field(u, "verbatim_string"), "string").s,
                                         CString(Field(Field(u, "verbatim_string"), "format").s)))
    BY <1>3, <2>1 DEF SingleField, Converting
  <2>4. PICK e : e = TokenOf(resp, u)
    OBVIOUS
  <2>5. out' = Append(out, e)
    BY <2>2, <2>3, <2>4 DEF TokenOf
  <2>6. ~IsContainer(u)
    BY <2>3 DEF IsContainer, Containers
  <2>7. QED
    BY <2>1, <2>2, <2>4, <2>5, <2>6, ConsumedHands
<1>4. CASE BeginMap
  <2>1. PICK m : m = Field(Top, "map") /\ Begin("map", m.f, <<m, Nil>>)
    BY <1>4 DEF BeginMap
  <2>2. phase = "convert" /\ Shape(Top) = "map" /\ IsContainer(Top)
    BY <1>4 DEF BeginMap, Converting, IsContainer, Containers
  <2>3. PICK pushed, rest : pushed = <<m, Nil>> /\ rest = m.f
    OBVIOUS
  <2>4. IsSeq(pushed) /\ Len(pushed) = 2
    BY <2>3, Tuples
  <2>5. Begin(Shape(Top), rest, pushed) /\ rest = Field(Top, "map").f
    BY <2>1, <2>2, <2>3
  <2>6. QED
    BY <2>2, <2>4, <2>5, BeginHands
<1>5. CASE BeginSet
  <2>1. PICK m : m = Field(Top, "set") /\ Begin("set", m.f, <<m, Nil>>)
    BY <1>5 DEF BeginSet
  <2>2. phase = "convert" /\ Shape(Top) = "set" /\ IsContainer(Top)
    BY <1>5 DEF BeginSet, Converting, IsContainer, Containers
  <2>3. PICK pushed, rest : pushed = <<m, Nil>> /\ rest = m.f
    OBVIOUS
  <2>4. IsSeq(pushed) /\ Len(pushed) = 2
    BY <2>3, Tuples
  <2>5. Begin(Shape(Top), rest, pushed) /\ rest = Field(Top, "set").f
    BY <2>1, <2>2, <2>3
  <2>6. QED
    BY <2>2, <2>4, <2>5, BeginHands
<1>6. CASE BeginArray
  <2>1. /\ phase = "convert" /\ Shape(Top) = "array" /\ IsContainer(Top)
        /\ Begin("array", {}, <<>>)
    BY <1>6 DEF BeginArray, Converting, IsContainer, Containers
  <2>2. PICK pushed : pushed = <<>>
    OBVIOUS
  <2>3. IsSeq(pushed) /\ Len(pushed) = 0 /\ Begin(Shape(Top), {}, pushed)
    BY <2>1, <2>2, Tuples
  <2>4. QED
    BY <2>1, <2>3, BeginHands
<1>7. QED
  BY <1>1, <1>2, <1>3, <1>4, <1>5, <1>6 DEF Convert

LEMMA TakesHands ==
    ASSUME IInv, HandsInv, MapKey \/ MapValue \/ SetElement \/ ArrayElement
    PROVE  HandsInv'
<1>0. resp \in {2, 3}
  BY DEF IInv
<1>1. CASE MapKey
  <2>1. phase = "resume" /\ cont # <<>> /\ Frame.k = "map" /\ IsFrame(Frame)
    BY <1>1, InnermostFrame DEF MapKey, Going
  <2>2. PICK p \in Frame.rest :
            Take(1, <<p.key, p.val, p.key>>,
                 [Frame EXCEPT !.k = "value", !.rest = @ \ {p}, !.n = @ + 1])
    BY <1>1 DEF MapKey
  <2>3. PICK r : r = [Frame EXCEPT !.k = "value", !.rest = @ \ {p}, !.n = @ + 1]
    OBVIOUS
  <2>4. r = [k |-> "value", at |-> Frame.at, n |-> Frame.n + 1, rest |-> Frame.rest \ {p}]
    BY <2>1, <2>3 DEF IsFrame
  <2>5. r.at = Frame.at /\ Height(r) = 4 /\ Height(Frame) = 3
    BY <2>1, <2>4 DEF Height
  <2>6. PICK pushed : pushed = <<p.key, p.val, p.key>>
    OBVIOUS
  <2>7. IsSeq(pushed) /\ Len(pushed) = 3 /\ pushed[2] = p.val /\ pushed[3] = p.key
    BY <2>6, Tuples
  <2>8. PICK n \in 0 .. 1 : n = 1
    OBVIOUS
  <2>9. Take(n, pushed, r) /\ lua' = Down(n) \o pushed
    BY <2>2, <2>3, <2>6, <2>8 DEF Take
  <2>10. lua'[Len(lua')] = p.key /\ lua'[Len(lua') - 1] = p.val
    <3>1. /\ Len(lua) \in Nat
          /\ Len(lua') = Len(lua) - n + Len(pushed)
          /\ \A i \in 1 .. Len(pushed) : lua'[Len(lua) - n + i] = pushed[i]
      BY <2>1, <2>7, <2>9, TakenStack
    <3>2. Len(lua') = Len(lua) - n + 3 /\ Len(lua') - 1 = Len(lua) - n + 2
      BY <2>7, <2>8, <3>1
    <3>3. 2 \in 1 .. Len(pushed) /\ 3 \in 1 .. Len(pushed)
      BY <2>7
    <3>4. QED
      BY <2>7, <3>1, <3>2, <3>3
  <2>11. \A z, y : FrameOf(resp, Frame, z, y, Top) =>
             \E z2 : /\ HandsOver(resp, lua'[Len(lua')], z2)
                     /\ FrameOf(resp, r, z, Append(y, z2), lua'[Len(lua') - 1])
    <3> TAKE z, y
    <3> HAVE FrameOf(resp, Frame, z, y, Top)
    <3>1. PICK c, top : c = Frame /\ top = Top
      OBVIOUS
    <3>2. /\ FrameOf(resp, c, z, y, top) /\ c.k = "map" /\ c.n \in Nat /\ p \in c.rest
          /\ r.k = "value" /\ r.n = c.n + 1 /\ r.rest = c.rest \ {p}
      BY <2>1, <2>4, <3>1 DEF IsFrame
    <3>3. \E z2 : HandsOver(resp, p.key, z2) /\ FrameOf(resp, r, z, Append(y, z2), p.val)
      BY <1>0, <3>2, MapGoesOn
    <3>4. QED
      BY <2>10, <3>3
  <2>12. Len(pushed) - n = Height(r) - Height(Frame) + 1 /\ Height(r) \in 1 .. 4
    BY <2>5, <2>7, <2>8
  <2>13. QED
    BY <2>1, <2>5, <2>7, <2>9, <2>11, <2>12, TakeHands
<1>2. CASE MapValue
  <2>1. phase = "resume" /\ cont # <<>> /\ Frame.k = "value" /\ IsFrame(Frame)
    BY <1>2, InnermostFrame DEF MapValue, Going
  <2>2. PICK r : r = [Frame EXCEPT !.k = "map"]
    OBVIOUS
  <2>3. r = [k |-> "map", at |-> Frame.at, n |-> Frame.n, rest |-> Frame.rest]
    BY <2>1, <2>2 DEF IsFrame
  <2>4. r.at = Frame.at /\ Height(r) = 3 /\ Height(Frame) = 4
    BY <2>1, <2>3 DEF Height
  <2>5. PICK pushed : pushed = <<>>
    OBVIOUS
  <2>6. IsSeq(pushed) /\ Len(pushed) = 0
    BY <2>5, Tuples
  <2>7. PICK n \in 0 .. 1 : n = 0
    OBVIOUS
  <2>8. Take(n, pushed, r) /\ lua' = Down(n) \o pushed
    BY <1>2, <2>2, <2>5, <2>7 DEF MapValue, Take
  <2>9. lua'[Len(lua')] = Top
    <3>1. /\ Len(lua) \in Nat /\ Len(lua) >= Height(Frame)
          /\ Len(lua') = Len(lua) - n + Len(pushed)
          /\ \A i \in 1 .. Len(lua) - n : lua'[i] = lua[i]
      BY <2>1, <2>6, <2>8, TakenStack
    <3>2. Len(lua') = Len(lua) /\ Len(lua) \in 1 .. Len(lua) - n
      BY <2>4, <2>6, <2>7, <3>1
    <3>3. QED
      BY <3>1, <3>2 DEF Top
  <2>10. \A z, y : FrameOf(resp, Frame, z, y, Top) =>
             \E z2 : /\ HandsOver(resp, lua'[Len(lua')], z2)
                     /\ FrameOf(resp, r, z, Append(y, z2), lua'[Len(lua') - 1])
    <3> TAKE z, y
    <3> HAVE FrameOf(resp, Frame, z, y, Top)
    <3>1. PICK c, top, top2 : c = Frame /\ top = Top /\ top2 = lua'[Len(lua') - 1]
      OBVIOUS
    <3>2. /\ FrameOf(resp, c, z, y, top) /\ c.k = "value" /\ c.n \in Nat /\ c.n > 0
          /\ r.k = "map" /\ r.n = c.n /\ r.rest = c.rest
      BY <2>1, <2>3, <3>1 DEF IsFrame
    <3>3. \E z2 : HandsOver(resp, top, z2) /\ FrameOf(resp, r, z, Append(y, z2), top2)
      BY <1>0, <3>2, ValueGoesOn
    <3>4. QED
      BY <2>9, <3>1, <3>3
  <2>11. Len(pushed) - n = Height(r) - Height(Frame) + 1 /\ Height(r) \in 1 .. 4
    BY <2>4, <2>6, <2>7
  <2>12. QED
    BY <2>1, <2>4, <2>6, <2>8, <2>10, <2>11, TakeHands
<1>3. CASE SetElement
  <2>1. phase = "resume" /\ cont # <<>> /\ Frame.k = "set" /\ IsFrame(Frame)
    BY <1>3, InnermostFrame DEF SetElement, Going
  <2>2. PICK p \in Frame.rest :
            Take(1, <<p.key, p.key>>, [Frame EXCEPT !.rest = @ \ {p}, !.n = @ + 1])
    BY <1>3 DEF SetElement
  <2>3. PICK r : r = [Frame EXCEPT !.rest = @ \ {p}, !.n = @ + 1]
    OBVIOUS
  <2>4. r = [k |-> "set", at |-> Frame.at, n |-> Frame.n + 1, rest |-> Frame.rest \ {p}]
    BY <2>1, <2>3 DEF IsFrame
  <2>5. r.at = Frame.at /\ Height(r) = 3 /\ Height(Frame) = 3
    BY <2>1, <2>4 DEF Height
  <2>6. PICK pushed : pushed = <<p.key, p.key>>
    OBVIOUS
  <2>7. IsSeq(pushed) /\ Len(pushed) = 2 /\ pushed[2] = p.key
    BY <2>6, Tuples
  <2>8. PICK n \in 0 .. 1 : n = 1
    OBVIOUS
  <2>9. Take(n, pushed, r) /\ lua' = Down(n) \o pushed
    BY <2>2, <2>3, <2>6, <2>8 DEF Take
  <2>10. lua'[Len(lua')] = p.key
    <3>1. /\ Len(lua) \in Nat
          /\ Len(lua') = Len(lua) - n + Len(pushed)
          /\ \A i \in 1 .. Len(pushed) : lua'[Len(lua) - n + i] = pushed[i]
      BY <2>1, <2>7, <2>9, TakenStack
    <3>2. Len(lua') = Len(lua) - n + 2 /\ 2 \in 1 .. Len(pushed)
      BY <2>7, <3>1
    <3>3. QED
      BY <2>7, <3>1, <3>2
  <2>11. \A z, y : FrameOf(resp, Frame, z, y, Top) =>
             \E z2 : /\ HandsOver(resp, lua'[Len(lua')], z2)
                     /\ FrameOf(resp, r, z, Append(y, z2), lua'[Len(lua') - 1])
    <3> TAKE z, y
    <3> HAVE FrameOf(resp, Frame, z, y, Top)
    <3>1. PICK c, top, top2 : c = Frame /\ top = Top /\ top2 = lua'[Len(lua') - 1]
      OBVIOUS
    <3>2. /\ FrameOf(resp, c, z, y, top) /\ c.k = "set" /\ c.n \in Nat /\ p \in c.rest
          /\ r.k = "set" /\ r.n = c.n + 1 /\ r.rest = c.rest \ {p}
      BY <2>1, <2>4, <3>1 DEF IsFrame
    <3>3. \E z2 : HandsOver(resp, p.key, z2) /\ FrameOf(resp, r, z, Append(y, z2), top2)
      BY <1>0, <3>2, SetGoesOn
    <3>4. QED
      BY <2>10, <3>1, <3>3
  <2>12. Len(pushed) - n = Height(r) - Height(Frame) + 1 /\ Height(r) \in 1 .. 4
    BY <2>5, <2>7, <2>8
  <2>13. QED
    BY <2>1, <2>5, <2>7, <2>9, <2>11, <2>12, TakeHands
<1>4. CASE ArrayElement
  <2>1. phase = "resume" /\ cont # <<>> /\ Frame.k = "array" /\ IsFrame(Frame)
    BY <1>4, InnermostFrame DEF ArrayElement, Going
  <2>2. PICK v : v = Get(Top, Num(Frame.n + 1))
    OBVIOUS
  <2>3. v # Nil /\ Take(0, <<v>>, [Frame EXCEPT !.n = @ + 1])
    BY <1>4, <2>2 DEF ArrayElement
  <2>4. PICK r : r = [Frame EXCEPT !.n = @ + 1]
    OBVIOUS
  <2>5. r = [k |-> "array", at |-> Frame.at, n |-> Frame.n + 1, rest |-> Frame.rest]
    BY <2>1, <2>4 DEF IsFrame
  <2>6. r.at = Frame.at /\ Height(r) = 1 /\ Height(Frame) = 1
    BY <2>1, <2>5 DEF Height
  <2>7. PICK pushed : pushed = <<v>>
    OBVIOUS
  <2>8. IsSeq(pushed) /\ Len(pushed) = 1 /\ pushed[1] = v
    BY <2>7, Tuples
  <2>9. PICK n \in 0 .. 1 : n = 0
    OBVIOUS
  <2>10. Take(n, pushed, r) /\ lua' = Down(n) \o pushed
    BY <2>3, <2>4, <2>7, <2>9 DEF Take
  <2>11. lua'[Len(lua')] = v /\ lua'[Len(lua') - 1] = Top
    <3>1. /\ Len(lua) \in Nat /\ Len(lua) >= Height(Frame)
          /\ Len(lua') = Len(lua) - n + Len(pushed)
          /\ \A i \in 1 .. Len(lua) - n : lua'[i] = lua[i]
          /\ \A i \in 1 .. Len(pushed) : lua'[Len(lua) - n + i] = pushed[i]
      BY <2>1, <2>8, <2>10, TakenStack
    <3>2. /\ Len(lua') = Len(lua) - n + 1 /\ 1 \in 1 .. Len(pushed)
          /\ Len(lua') - 1 = Len(lua) /\ Len(lua) \in 1 .. Len(lua) - n
      BY <2>6, <2>8, <2>9, <3>1
    <3>3. QED
      BY <2>8, <3>1, <3>2 DEF Top
  <2>12. \A z, y : FrameOf(resp, Frame, z, y, Top) =>
             \E z2 : /\ HandsOver(resp, lua'[Len(lua')], z2)
                     /\ FrameOf(resp, r, z, Append(y, z2), lua'[Len(lua') - 1])
    <3> TAKE z, y
    <3> HAVE FrameOf(resp, Frame, z, y, Top)
    <3>1. PICK c, u : c = Frame /\ u = Top
      OBVIOUS
    <3>2. /\ FrameOf(resp, c, z, y, u) /\ c.k = "array" /\ c.n \in Nat
          /\ Get(u, Num(c.n + 1)) # Nil /\ r.k = "array" /\ r.n = c.n + 1
      BY <2>1, <2>2, <2>3, <2>5, <3>1 DEF IsFrame
    <3>3. \E z2 : HandsOver(resp, Get(u, Num(c.n + 1)), z2) /\ FrameOf(resp, r, z, Append(y, z2), u)
      BY <1>0, <3>2, ArrayGoesOn
    <3>4. QED
      BY <2>2, <2>11, <3>1, <3>3
  <2>13. Len(pushed) - n = Height(r) - Height(Frame) + 1 /\ Height(r) \in 1 .. 4
    BY <2>6, <2>8, <2>9
  <2>14. QED
    BY <2>1, <2>6, <2>8, <2>10, <2>12, <2>13, TakeHands
<1>5. QED
  BY <1>1, <1>2, <1>3, <1>4

LEMMA EndsHands ==
    ASSUME IInv, HandsInv, EndPairs \/ EndArray
    PROVE  HandsInv'
<1>0. resp \in {2, 3}
  BY DEF IInv
<1>1. CASE EndPairs
  <2>1. /\ phase = "resume" /\ cont # <<>> /\ Frame.k \in {"map", "set"} /\ Frame.rest = {}
        /\ Finish(3) /\ IsFrame(Frame)
    BY <1>1, InnermostFrame DEF EndPairs, Going
  <2>2. 3 = Height(Frame)
    BY <2>1 DEF Height
  <2>3. PICK c, top : c = Frame /\ top = Top
    OBVIOUS
  <2>4. c.n \in Nat
    BY <2>1, <2>3 DEF IsFrame
  <2>5. \A e, z, y : e.k = c.k /\ FrameOf(resp, c, z, y, top) => Composed(e, y) = z
    BY <1>0, <2>1, <2>3, <2>4, MapComposed, SetComposed
  <2>6. \A e, z, y : e.k = Frame.k /\ FrameOf(resp, Frame, z, y, Top) => Composed(e, y) = z
    BY <2>3, <2>5
  <2>7. QED
    BY <2>1, <2>2, <2>6, FinishHands
<1>2. CASE EndArray
  <2>1. /\ phase = "resume" /\ cont # <<>> /\ Frame.k = "array" /\ Finish(1) /\ IsFrame(Frame)
        /\ Get(Top, Num(Frame.n + 1)) = Nil
    BY <1>2, InnermostFrame DEF EndArray, Going
  <2>2. 1 = Height(Frame)
    BY <2>1 DEF Height
  <2>3. PICK c, u : c = Frame /\ u = Top
    OBVIOUS
  <2>4. c.n \in Nat
    BY <2>1, <2>3 DEF IsFrame
  <2>5. \A e, z, y : e.k = c.k /\ FrameOf(resp, c, z, y, u) => Composed(e, y) = z
    BY <1>0, <2>1, <2>3, <2>4, ArrayComposed
  <2>6. \A e, z, y : e.k = Frame.k /\ FrameOf(resp, Frame, z, y, Top) => Composed(e, y) = z
    BY <2>3, <2>5
  <2>7. QED
    BY <2>1, <2>2, <2>6, FinishHands
<1>3. QED
  BY <1>1, <1>2

LEMMA HandsNext == IInv /\ HandsInv /\ [Next]_vars => HandsInv'
<1> SUFFICES ASSUME IInv, HandsInv, [Next]_vars
             PROVE  HandsInv'
  OBVIOUS
<1>1. CASE CommandReply
  BY <1>1, CommandReplyHands
<1>2. CASE OwnValue
  BY <1>2 DEF OwnValue, Return, HandsInv
<1>3. CASE Convert
  BY <1>3, ConvertHands
<1>4. CASE MapKey \/ MapValue \/ SetElement \/ ArrayElement
  BY <1>4, TakesHands
<1>5. CASE EndPairs \/ EndArray
  BY <1>5, EndsHands
<1>6. CASE Done
  <2>1. phase = "resume" /\ phase' = "done" /\ UNCHANGED <<resp, reply, lua, cont, out>>
    BY <1>6 DEF Done
  <2>2. Waiting' = Waiting /\ NoCut' = NoCut
    BY <2>1 DEF Waiting, NoCut
  <2>3. QED
    BY <2>1, <2>2 DEF HandsInv
<1>7. CASE UNCHANGED vars
  <2>1. UNCHANGED <<resp, reply, given, lua, cont, out, phase>>
    BY <1>7 DEF vars
  <2>2. Waiting' = Waiting /\ NoCut' = NoCut
    BY <2>1 DEF Waiting, NoCut
  <2>3. QED
    BY <2>1, <2>2 DEF HandsInv
<1>8. QED
  BY <1>1, <1>2, <1>3, <1>4, <1>5, <1>6, <1>7 DEF Next, Resume

LEMMA HandsInvariant == Spec => []HandsInv
<1>1. QED
  BY HandsInit, HandsNext, Invariant, PTL DEF Spec

-----------------------------------------------------------------------------
(* The theorem.                                                             *)

\* A script that returns what server.call gave it answers with the command's
\* own reply, whatever its parts and however deep they are: the stream that
\* luajitReplyToServerReply writes is read as that reply, but that
\*   - an integer beyond Exact is answered as the double next to it, cast back;
\*   - an error message that begins with a dash or a line break, ends with a line
\*     break or holds a Nul is answered as luajitPushErrorBuff rewrites it;
\*   - simple strings and big numbers end at their first Nul;
\*   - of the entries of a map whose keys become one value the last is left;
\*   - in RESP3 a null ends the array it is in and takes its key out of a map;
\* unless the conversion was cut at the stack limit.
THEOREM RepliesHandedOn == Spec => []HandsOn
<1>1. IInv /\ HandsInv => HandsOn
  <2> SUFFICES ASSUME IInv, HandsInv, phase = "done", reply # Null, NoCut
               PROVE  Reading(out)[1] = <<HandedOn(resp)[reply]>>
    BY DEF HandsOn, NoCut
  <2>1. PICK x : x = HandedOn(resp)[reply]
    OBVIOUS
  <2>2. cont = <<>> /\ IsSeq(out) /\ Waiting = 0
    BY DEF IInv, FramesOK, Waiting
  <2>3. Len(cont) + Waiting = 0
    BY <2>2, Tuples
  <2>4. Follows(resp, x, cont, out, lua, 0)
    BY <2>1, <2>3 DEF HandsInv
  <2>5. Reading(out)[1] = <<x>>
    BY <2>2, <2>4, ReadAll
  <2>6. QED
    BY <2>1, <2>5
<1>2. QED
  BY <1>1, Invariant, HandsInvariant, PTL
=============================================================================
