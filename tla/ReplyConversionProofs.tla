----------------------- MODULE ReplyConversionProofs -----------------------
(***************************************************************************)
(* What ReplyConversion keeps for every reply, script value and stack      *)
(* limit.  Three things are carried along a conversion: the frames of the  *)
(* containers under way against the tokens written, where each of them     *)
(* found the stack, and how many parts every token written so far has      *)
(* announced, a container under way those it has begun.                    *)
(***************************************************************************)
EXTENDS ReplyConversion, SequenceTheorems, FiniteSetTheorems, TLAPS

-----------------------------------------------------------------------------
(* Sequences of anything: Lua values and replies have no set of their own. *)

IsSeq(s) == \E S : s \in Seq(S)

LEMMA AnySeq ==
    ASSUME NEW s, IsSeq(s)
    PROVE  Len(s) \in Nat /\ DOMAIN s = 1 .. Len(s) /\ (s = <<>> <=> Len(s) = 0)
BY LenProperties, EmptySeq DEF IsSeq

LEMMA AppendAny ==
    ASSUME NEW s, IsSeq(s), NEW x
    PROVE  /\ IsSeq(Append(s, x))
           /\ Len(Append(s, x)) = Len(s) + 1
           /\ \A i \in 1 .. Len(s) : Append(s, x)[i] = s[i]
           /\ Append(s, x)[Len(s) + 1] = x
<1>1. PICK S : s \in Seq(S)
  BY DEF IsSeq
<1>2. s \in Seq(S \cup {x})
  BY <1>1, SeqMonotonic
<1>3. QED
  BY <1>2, AppendProperties DEF IsSeq

LEMMA ConcatAny ==
    ASSUME NEW s, NEW t, IsSeq(s), IsSeq(t)
    PROVE  IsSeq(s \o t) /\ Len(s \o t) = Len(s) + Len(t)
<1>1. PICK S, T : s \in Seq(S) /\ t \in Seq(T)
  BY DEF IsSeq
<1>2. s \in Seq(S \cup T) /\ t \in Seq(S \cup T)
  BY <1>1, SeqMonotonic
<1>3. QED
  BY <1>2, ConcatProperties DEF IsSeq

LEMMA CutAny ==
    ASSUME NEW s, IsSeq(s), NEW m \in 0 .. Len(s)
    PROVE  /\ IsSeq(SubSeq(s, 1, m)) /\ Len(SubSeq(s, 1, m)) = m
           /\ \A i \in 1 .. m : SubSeq(s, 1, m)[i] = s[i]
<1>1. PICK S : s \in Seq(S)
  BY DEF IsSeq
<1>2. Len(s) \in Nat /\ \A i \in 1 .. m : s[i] \in S
  BY <1>1, LenProperties, ElementOfSeq
<1>3. QED
  BY <1>2, SubSeqProperties DEF IsSeq

LEMMA ExceptAny ==
    ASSUME NEW s, IsSeq(s), NEW i \in 1 .. Len(s), NEW x
    PROVE  /\ IsSeq([s EXCEPT ![i] = x]) /\ Len([s EXCEPT ![i] = x]) = Len(s)
           /\ \A j \in 1 .. Len(s) : [s EXCEPT ![i] = x][j] = IF j = i THEN x ELSE s[j]
<1>1. PICK S : s \in Seq(S)
  BY DEF IsSeq
<1>2. s \in Seq(S \cup {x})
  BY <1>1, SeqMonotonic
<1>3. QED
  BY <1>2, ExceptSeq DEF IsSeq

LEMMA Tuples ==
    /\ IsSeq(<<>>) /\ Len(<<>>) = 0
    /\ \A a : IsSeq(<<a>>) /\ Len(<<a>>) = 1
    /\ \A a, b : IsSeq(<<a, b>>) /\ Len(<<a, b>>) = 2
    /\ \A a, b, c : IsSeq(<<a, b, c>>) /\ Len(<<a, b, c>>) = 3
<1>1. IsSeq(<<>>) /\ Len(<<>>) = 0
  BY EmptySeq DEF IsSeq
<1>2. \A a : <<a>> \in Seq({a}) /\ Len(<<a>>) = 1
  OBVIOUS
<1>3. \A a, b : <<a, b>> \in Seq({a, b}) /\ Len(<<a, b>>) = 2
  OBVIOUS
<1>4. \A a, b, c : <<a, b, c>> \in Seq({a, b, c}) /\ Len(<<a, b, c>>) = 3
  OBVIOUS
<1>5. QED
  BY <1>1, <1>2, <1>3, <1>4 DEF IsSeq

-----------------------------------------------------------------------------
(* The parts announced.  w[j] is how many parts the token at place j has.   *)

Given(w, i) == UNION {{<<j, m>> : m \in 1 .. w[j]} : j \in 1 .. i}

LEMMA GivenIn ==
    ASSUME NEW w, NEW i
    PROVE  \A x : x \in Given(w, i) <=> \E j \in 1 .. i : \E m \in 1 .. w[j] : x = <<j, m>>
BY DEF Given

LEMMA SameGiven ==
    ASSUME NEW w, NEW v, NEW i, \A j \in 1 .. i : v[j] = w[j]
    PROVE  Given(v, i) = Given(w, i)
BY DEF Given

\* A token without parts, or that has not begun any, announces nothing.
LEMMA NothingGiven ==
    ASSUME NEW w, NEW i \in Nat, w[i + 1] = 0
    PROVE  Given(w, i + 1) = Given(w, i)
<1>1. 1 .. i + 1 = 1 .. i \cup {i + 1} /\ 1 .. w[i + 1] = {}
  OBVIOUS
<1>2. \A x : (\E j \in 1 .. i + 1 : \E m \in 1 .. w[j] : x = <<j, m>>)
             <=> (\E j \in 1 .. i : \E m \in 1 .. w[j] : x = <<j, m>>)
  BY <1>1
<1>3. \A x : x \in Given(w, i + 1) <=> x \in Given(w, i)
  BY <1>2, GivenIn
<1>4. QED
  BY <1>3

\* One more part of the token at place a.
LEMMA MoreGiven ==
    ASSUME NEW w, NEW v, NEW i \in Nat, NEW a \in 1 .. i, w[a] \in Nat, v[a] = w[a] + 1,
           \A j \in 1 .. i : j # a => v[j] = w[j], IsFiniteSet(Given(w, i))
    PROVE  /\ IsFiniteSet(Given(v, i))
           /\ Cardinality(Given(v, i)) = Cardinality(Given(w, i)) + 1
<1>1. <<a, w[a] + 1>> \notin Given(w, i)
  <2>1. ~ \E j \in 1 .. i : \E m \in 1 .. w[j] : <<a, w[a] + 1>> = <<j, m>>
    OBVIOUS
  <2>2. QED
    BY <2>1, GivenIn
<1>2. 1 .. w[a] + 1 = 1 .. w[a] \cup {w[a] + 1}
  OBVIOUS
<1>3. ASSUME NEW x
      PROVE  x \in Given(v, i) <=> x \in Given(w, i) \/ x = <<a, w[a] + 1>>
  <2>1. ASSUME NEW j \in 1 .. i, NEW m \in 1 .. v[j], x = <<j, m>>
        PROVE  x \in Given(w, i) \/ x = <<a, w[a] + 1>>
    <3>1. CASE j = a
      BY <1>2, <2>1, <3>1, GivenIn
    <3>2. CASE j # a
      BY <2>1, <3>2, GivenIn
    <3>3. QED
      BY <3>1, <3>2
  <2>2. ASSUME NEW j \in 1 .. i, NEW m \in 1 .. w[j], x = <<j, m>>
        PROVE  x \in Given(v, i)
    <3>1. m \in 1 .. v[j]
      BY <1>2, <2>2
    <3>2. QED
      BY <2>2, <3>1, GivenIn
  <2>3. x = <<a, w[a] + 1>> => x \in Given(v, i)
    BY <1>2, GivenIn
  <2>4. QED
    BY <2>1, <2>2, <2>3, GivenIn
<1>4. Given(v, i) = Given(w, i) \cup {<<a, w[a] + 1>>}
  BY <1>3
<1>5. QED
  BY <1>1, <1>4, FS_AddElement

-----------------------------------------------------------------------------
(* The frames of containers under way, against the tokens written.          *)

FrameKinds == {"map", "value", "set", "array"}

\* The container a frame belongs to, the parts it has begun, and the elements
\* its conversion keeps on the stack.
Kind(c)   == IF c.k = "value" THEN "map" ELSE c.k
Begun(c)  == IF c.k = "map" THEN 2 * c.n ELSE IF c.k = "value" THEN 2 * c.n - 1 ELSE c.n
Height(c) == IF c.k = "array" THEN 1 ELSE IF c.k = "value" THEN 4 ELSE 3

IsFrame(c) ==
    /\ c = [k |-> c.k, at |-> c.at, n |-> c.n, rest |-> c.rest]
    /\ c.k \in FrameKinds
    /\ c.at \in Nat
    /\ c.n \in Nat
    /\ c.k = "value" => c.n > 0

\* Every frame has a token of its own whose length is not set yet.
FramesOK(c, o) ==
    /\ IsSeq(c) /\ IsSeq(o)
    /\ \A j \in 1 .. Len(c) :
           /\ IsFrame(c[j])
           /\ c[j].at \in 1 .. Len(o)
           /\ o[c[j].at] = [k |-> Kind(c[j]), len |-> -1]
    /\ \A i, j \in 1 .. Len(c) : c[i].at = c[j].at => i = j

\* Every other container's length is set, and no line is broken.
TokensOK(c, o) ==
    \A i \in 1 .. Len(o) :
        /\ o[i].k \in Containers =>
               (\E j \in 1 .. Len(c) : c[j].at = i) \/ o[i].len \in Nat
        /\ o[i].k \in {"simple", "big_number"} => Unbroken(o[i].s)

LEMMA BegunFrame ==
    ASSUME NEW c, IsFrame(c)
    PROVE  /\ Begun(c) \in Nat /\ Height(c) \in 1 .. 4 /\ Kind(c) \in Containers
           /\ c.k \in {"map", "set", "array"} => Kind(c) = c.k
BY DEF IsFrame, FrameKinds, Begun, Height, Kind, Containers

\* A token that is no container is written.
LEMMA WriteFrames ==
    ASSUME NEW c, NEW o, NEW e, FramesOK(c, o), TokensOK(c, o),
           e.k \notin Containers, e.k \in {"simple", "big_number"} => Unbroken(e.s)
    PROVE  FramesOK(c, Append(o, e)) /\ TokensOK(c, Append(o, e))
<1>1. /\ Len(o) \in Nat /\ IsSeq(Append(o, e)) /\ Len(Append(o, e)) = Len(o) + 1
      /\ \A i \in 1 .. Len(o) : Append(o, e)[i] = o[i]
      /\ Append(o, e)[Len(o) + 1] = e
  BY AnySeq, AppendAny DEF FramesOK
<1>2. \A i \in 1 .. Len(o) + 1 : i \in 1 .. Len(o) \/ i = Len(o) + 1
  BY <1>1
<1>3. 1 .. Len(o) \subseteq 1 .. Len(o) + 1
  BY <1>1
<1>4. FramesOK(c, Append(o, e))
  BY <1>1, <1>3 DEF FramesOK
<1>5. TokensOK(c, Append(o, e))
  BY <1>1, <1>2 DEF TokensOK
<1>6. QED
  BY <1>4, <1>5

\* A container is begun.
LEMMA BeginFrames ==
    ASSUME NEW c, NEW o, FramesOK(c, o), TokensOK(c, o),
           NEW kind \in {"map", "set", "array"}, NEW rest,
           NEW f, f = [k |-> kind, at |-> Len(o) + 1, n |-> 0, rest |-> rest],
           NEW e, e = [k |-> kind, len |-> -1]
    PROVE  FramesOK(Append(c, f), Append(o, e)) /\ TokensOK(Append(c, f), Append(o, e))
<1>1. /\ Len(o) \in Nat /\ IsSeq(Append(o, e)) /\ Len(Append(o, e)) = Len(o) + 1
      /\ \A i \in 1 .. Len(o) : Append(o, e)[i] = o[i]
      /\ Append(o, e)[Len(o) + 1] = e
  BY AnySeq, AppendAny DEF FramesOK
<1>2. /\ Len(c) \in Nat /\ IsSeq(Append(c, f)) /\ Len(Append(c, f)) = Len(c) + 1
      /\ \A i \in 1 .. Len(c) : Append(c, f)[i] = c[i]
      /\ Append(c, f)[Len(c) + 1] = f
  BY AnySeq, AppendAny DEF FramesOK
<1>3. /\ \A i \in 1 .. Len(o) + 1 : i \in 1 .. Len(o) \/ i = Len(o) + 1
      /\ 1 .. Len(o) \subseteq 1 .. Len(o) + 1
      /\ Len(o) + 1 \in 1 .. Len(o) + 1 /\ Len(o) + 1 \notin 1 .. Len(o)
  BY <1>1
<1>4. /\ \A i \in 1 .. Len(c) + 1 : i \in 1 .. Len(c) \/ i = Len(c) + 1
      /\ 1 .. Len(c) \subseteq 1 .. Len(c) + 1
      /\ Len(c) + 1 \in 1 .. Len(c) + 1
  BY <1>2
<1>5. IsFrame(f) /\ f.at = Len(o) + 1 /\ e = [k |-> Kind(f), len |-> -1]
  BY <1>1 DEF IsFrame, FrameKinds, Kind
<1>6. FramesOK(Append(c, f), Append(o, e))
  <2>1. ASSUME NEW j \in 1 .. Len(c) + 1
        PROVE  /\ IsFrame(Append(c, f)[j])
               /\ Append(c, f)[j].at \in 1 .. Len(o) + 1
               /\ Append(o, e)[Append(c, f)[j].at] = [k |-> Kind(Append(c, f)[j]), len |-> -1]
    <3>1. CASE j \in 1 .. Len(c)
      BY <1>1, <1>2, <1>3, <3>1 DEF FramesOK
    <3>2. CASE j = Len(c) + 1
      BY <1>1, <1>2, <1>3, <1>5, <3>2
    <3>3. QED
      BY <1>4, <2>1, <3>1, <3>2
  <2>2. ASSUME NEW i \in 1 .. Len(c) + 1, NEW j \in 1 .. Len(c) + 1,
               Append(c, f)[i].at = Append(c, f)[j].at
        PROVE  i = j
    <3>1. \A l \in 1 .. Len(c) : c[l].at # Len(o) + 1
      BY <1>3 DEF FramesOK
    <3>2. QED
      BY <1>2, <1>4, <1>5, <2>2, <3>1 DEF FramesOK
  <2>3. QED
    BY <1>1, <1>2, <2>1, <2>2 DEF FramesOK
<1>7. TokensOK(Append(c, f), Append(o, e))
  <2>1. ASSUME NEW i \in 1 .. Len(o)
        PROVE  /\ o[i].k \in Containers =>
                     (\E j \in 1 .. Len(c) + 1 : Append(c, f)[j].at = i) \/ o[i].len \in Nat
               /\ o[i].k \in {"simple", "big_number"} => Unbroken(o[i].s)
    BY <1>2, <1>4, <2>1 DEF TokensOK
  <2>2. /\ \E j \in 1 .. Len(c) + 1 : Append(c, f)[j].at = Len(o) + 1
        /\ e.k \notin {"simple", "big_number"}
    BY <1>2, <1>4, <1>5
  <2>3. QED
    BY <1>1, <1>2, <1>3, <2>1, <2>2 DEF TokensOK
<1>8. QED
  BY <1>6, <1>7

\* The innermost container goes on to its next part.
LEMMA TakeFrames ==
    ASSUME NEW c, NEW o, FramesOK(c, o), TokensOK(c, o), c # <<>>,
           NEW f, IsFrame(f), f.at = c[Len(c)].at, Kind(f) = Kind(c[Len(c)])
    PROVE  FramesOK([c EXCEPT ![Len(c)] = f], o) /\ TokensOK([c EXCEPT ![Len(c)] = f], o)
<1> DEFINE d == [c EXCEPT ![Len(c)] = f]
<1>1. Len(c) \in Nat /\ Len(c) \in 1 .. Len(c)
  BY AnySeq DEF FramesOK
<1>2. IsSeq(d) /\ Len(d) = Len(c) /\ \A j \in 1 .. Len(c) : d[j] = IF j = Len(c) THEN f ELSE c[j]
  BY <1>1, ExceptAny DEF FramesOK
<1>3. \A j \in 1 .. Len(c) : IsFrame(d[j]) /\ d[j].at = c[j].at /\ Kind(d[j]) = Kind(c[j])
  BY <1>2 DEF FramesOK
<1> HIDE DEF d
<1>4. FramesOK(d, o)
  BY <1>2, <1>3 DEF FramesOK
<1>5. TokensOK(d, o)
  BY <1>2, <1>3 DEF TokensOK
<1>6. QED
  BY <1>4, <1>5 DEF d

\* The innermost container is finished, its length is set.
LEMMA FinishFrames ==
    ASSUME NEW c, NEW o, FramesOK(c, o), TokensOK(c, o), c # <<>>,
           NEW e, e.k = Kind(c[Len(c)]), e.len = c[Len(c)].n
    PROVE  /\ FramesOK(SubSeq(c, 1, Len(c) - 1), [o EXCEPT ![c[Len(c)].at] = e])
           /\ TokensOK(SubSeq(c, 1, Len(c) - 1), [o EXCEPT ![c[Len(c)].at] = e])
<1>0. PICK a : a = c[Len(c)].at
  OBVIOUS
<1> DEFINE d == SubSeq(c, 1, Len(c) - 1)
           p == [o EXCEPT ![a] = e]
<1>1. Len(c) \in Nat /\ Len(c) > 0 /\ Len(c) \in 1 .. Len(c) /\ Len(c) - 1 \in 0 .. Len(c)
  BY AnySeq DEF FramesOK
<1>2. IsSeq(d) /\ Len(d) = Len(c) - 1 /\ \A j \in 1 .. Len(c) - 1 : d[j] = c[j]
  <2>1. IsSeq(c)
    BY DEF FramesOK
  <2>2. QED
    BY <1>1, <2>1, CutAny
<1>3. a \in 1 .. Len(o) /\ IsFrame(c[Len(c)])
  BY <1>0, <1>1 DEF FramesOK
<1>4. IsSeq(p) /\ Len(p) = Len(o) /\ \A i \in 1 .. Len(o) : p[i] = IF i = a THEN e ELSE o[i]
  <2>1. IsSeq(o)
    BY DEF FramesOK
  <2>2. QED
    BY <1>3, <2>1, ExceptAny
<1>5. \A j \in 1 .. Len(c) - 1 : j \in 1 .. Len(c) /\ c[j].at # a
  <2>1. \A j \in 1 .. Len(c) - 1 : j \in 1 .. Len(c) /\ j # Len(c)
    BY <1>1
  <2>2. QED
    BY <1>0, <1>1, <2>1 DEF FramesOK
<1>6. e.k \in Containers /\ e.len \in Nat
  BY <1>3, BegunFrame DEF IsFrame
<1> HIDE DEF d, p
<1>7. FramesOK(d, p)
  <2>1. ASSUME NEW j \in 1 .. Len(c) - 1
        PROVE  /\ IsFrame(d[j]) /\ d[j].at \in 1 .. Len(p)
               /\ p[d[j].at] = [k |-> Kind(d[j]), len |-> -1]
    <3>1. j \in 1 .. Len(c) /\ c[j].at # a /\ d[j] = c[j]
      BY <1>2, <1>5
    <3>2. IsFrame(c[j]) /\ c[j].at \in 1 .. Len(o) /\ o[c[j].at] = [k |-> Kind(c[j]), len |-> -1]
      BY <3>1 DEF FramesOK
    <3>3. QED
      BY <1>4, <3>1, <3>2
  <2>2. ASSUME NEW i \in 1 .. Len(c) - 1, NEW j \in 1 .. Len(c) - 1, d[i].at = d[j].at
        PROVE  i = j
    BY <1>2, <1>5, <2>2 DEF FramesOK
  <2>3. QED
    BY <1>2, <1>4, <2>1, <2>2 DEF FramesOK
<1>8. TokensOK(d, p)
  <2>1. ASSUME NEW i \in 1 .. Len(o), i # a
        PROVE  /\ o[i].k \in Containers =>
                     (\E j \in 1 .. Len(c) - 1 : c[j].at = i) \/ o[i].len \in Nat
               /\ o[i].k \in {"simple", "big_number"} => Unbroken(o[i].s)
    <3>1. \A j \in 1 .. Len(c) : j \in 1 .. Len(c) - 1 \/ j = Len(c)
      BY <1>1
    <3>2. QED
      BY <1>0, <2>1, <3>1 DEF TokensOK
  <2>2. e.k \notin {"simple", "big_number"}
    BY <1>6 DEF Containers
  <2>3. QED
    BY <1>2, <1>4, <1>6, <2>1, <2>2 DEF TokensOK
<1>9. QED
  BY <1>0, <1>7, <1>8 DEF d, p

-----------------------------------------------------------------------------
(* Parts announced against parts written.                                   *)

\* w gives a container under way the parts it has begun, any other token its
\* arity.  The part that is announced and not written yet is the one to be
\* converted; written is 1 when there is none.
Balanced(w, c, o, written) ==
    /\ w \in [1 .. Len(o) -> Int]
    /\ \A j \in 1 .. Len(c) : w[c[j].at] = Begun(c[j])
    /\ \A i \in 1 .. Len(o) : (\A j \in 1 .. Len(c) : c[j].at # i) => w[i] = Arity(o[i])
    /\ \A i \in 0 .. Len(o) : IsFiniteSet(Given(w, i))
    /\ \A i \in 1 .. Len(o) - 1 : Cardinality(Given(w, i)) >= i
    /\ Cardinality(Given(w, Len(o))) + written = Len(o)

\* A token that announces nothing of its own, written where a part was due.
LEMMA AppendBalance ==
    ASSUME NEW w, NEW n \in Nat, w \in [1 .. n -> Int],
           \A i \in 0 .. n : IsFiniteSet(Given(w, i)),
           \A i \in 1 .. n - 1 : Cardinality(Given(w, i)) >= i,
           Cardinality(Given(w, n)) = n
    PROVE  \E v \in [1 .. n + 1 -> Int] :
               /\ v[n + 1] = 0 /\ \A i \in 1 .. n : v[i] = w[i]
               /\ \A i \in 0 .. n + 1 : IsFiniteSet(Given(v, i))
               /\ \A i \in 1 .. n : Cardinality(Given(v, i)) >= i
               /\ Cardinality(Given(v, n + 1)) = n
<1> DEFINE v == [i \in 1 .. n + 1 |-> IF i = n + 1 THEN 0 ELSE w[i]]
<1>1. v \in [1 .. n + 1 -> Int]
  OBVIOUS
<1>2. \A i \in 0 .. n : Given(v, i) = Given(w, i)
  <2> TAKE i \in 0 .. n
  <2>1. \A j \in 1 .. i : v[j] = w[j]
    OBVIOUS
  <2>2. QED
    BY <2>1, SameGiven
<1>3. Given(v, n + 1) = Given(v, n)
  <2>1. v[n + 1] = 0
    OBVIOUS
  <2>2. QED
    BY <2>1, NothingGiven
<1>4. \A i \in 0 .. n + 1 : i \in 0 .. n \/ i = n + 1
  OBVIOUS
<1>5. n \in 0 .. n /\ \A i \in 1 .. n : i \in 0 .. n /\ (i \in 1 .. n - 1 \/ i = n)
  OBVIOUS
<1>6. \A i \in 0 .. n + 1 : IsFiniteSet(Given(v, i))
  BY <1>2, <1>3, <1>4, <1>5
<1>7. \A i \in 1 .. n : Cardinality(Given(v, i)) >= i
  BY <1>2, <1>5
<1>8. Cardinality(Given(v, n + 1)) = n
  BY <1>2, <1>3, <1>5
<1>9. v[n + 1] = 0 /\ \A i \in 1 .. n : v[i] = w[i]
  OBVIOUS
<1> HIDE DEF v
<1>10. QED
  BY <1>1, <1>6, <1>7, <1>8, <1>9

LEMMA WriteBalance ==
    ASSUME NEW c, NEW o, NEW w, FramesOK(c, o), Balanced(w, c, o, 0),
           NEW e, e.k \notin Containers
    PROVE  \E v : Balanced(v, c, Append(o, e), 1)
<1>1. /\ Len(o) \in Nat /\ IsSeq(Append(o, e)) /\ Len(Append(o, e)) = Len(o) + 1
      /\ \A i \in 1 .. Len(o) : Append(o, e)[i] = o[i]
      /\ Append(o, e)[Len(o) + 1] = e
  BY AnySeq, AppendAny DEF FramesOK
<1>2. Cardinality(Given(w, Len(o))) = Len(o)
  <2>1. Cardinality(Given(w, Len(o))) \in Nat
    BY <1>1, FS_CardinalityType DEF Balanced
  <2>2. QED
    BY <2>1 DEF Balanced
<1>3. PICK v \in [1 .. Len(o) + 1 -> Int] :
      /\ v[Len(o) + 1] = 0 /\ \A i \in 1 .. Len(o) : v[i] = w[i]
      /\ \A i \in 0 .. Len(o) + 1 : IsFiniteSet(Given(v, i))
      /\ \A i \in 1 .. Len(o) : Cardinality(Given(v, i)) >= i
      /\ Cardinality(Given(v, Len(o) + 1)) = Len(o)
  <2>1. /\ w \in [1 .. Len(o) -> Int]
        /\ \A i \in 0 .. Len(o) : IsFiniteSet(Given(w, i))
        /\ \A i \in 1 .. Len(o) - 1 : Cardinality(Given(w, i)) >= i
    BY DEF Balanced
  <2>2. QED
    BY <1>1, <1>2, <2>1, AppendBalance
<1>4. /\ \A i \in 1 .. Len(o) : v[i] = w[i] /\ i \in 1 .. Len(o) + 1
      /\ v[Len(o) + 1] = 0
      /\ \A i \in 1 .. Len(o) + 1 : i \in 1 .. Len(o) \/ i = Len(o) + 1
  BY <1>1, <1>3
<1>5. \A j \in 1 .. Len(c) : v[c[j].at] = Begun(c[j])
  BY <1>4 DEF Balanced, FramesOK
<1>6. Arity(e) = 0
  BY DEF Arity, Containers
<1>7. \A i \in 1 .. Len(o) + 1 :
          (\A j \in 1 .. Len(c) : c[j].at # i) => v[i] = Arity(Append(o, e)[i])
  BY <1>1, <1>4, <1>6 DEF Balanced
<1>8. \A i \in 1 .. Len(Append(o, e)) - 1 : Cardinality(Given(v, i)) >= i
  BY <1>1, <1>3
<1>9. Cardinality(Given(v, Len(Append(o, e)))) + 1 = Len(Append(o, e))
  BY <1>1, <1>3
<1>10. Balanced(v, c, Append(o, e), 1)
  BY <1>1, <1>3, <1>5, <1>7, <1>8, <1>9 DEF Balanced
<1>11. QED
  BY <1>10

LEMMA BeginBalance ==
    ASSUME NEW c, NEW o, NEW w, FramesOK(c, o), Balanced(w, c, o, 0),
           NEW f, f.at = Len(o) + 1, Begun(f) = 0, NEW e
    PROVE  \E v : Balanced(v, Append(c, f), Append(o, e), 1)
<1>1. /\ Len(o) \in Nat /\ IsSeq(Append(o, e)) /\ Len(Append(o, e)) = Len(o) + 1
      /\ \A i \in 1 .. Len(o) : Append(o, e)[i] = o[i]
  BY AnySeq, AppendAny DEF FramesOK
<1>2. Cardinality(Given(w, Len(o))) = Len(o)
  <2>1. Cardinality(Given(w, Len(o))) \in Nat
    BY <1>1, FS_CardinalityType DEF Balanced
  <2>2. QED
    BY <2>1 DEF Balanced
<1>3. PICK v \in [1 .. Len(o) + 1 -> Int] :
      /\ v[Len(o) + 1] = 0 /\ \A i \in 1 .. Len(o) : v[i] = w[i]
      /\ \A i \in 0 .. Len(o) + 1 : IsFiniteSet(Given(v, i))
      /\ \A i \in 1 .. Len(o) : Cardinality(Given(v, i)) >= i
      /\ Cardinality(Given(v, Len(o) + 1)) = Len(o)
  <2>1. /\ w \in [1 .. Len(o) -> Int]
        /\ \A i \in 0 .. Len(o) : IsFiniteSet(Given(w, i))
        /\ \A i \in 1 .. Len(o) - 1 : Cardinality(Given(w, i)) >= i
    BY DEF Balanced
  <2>2. QED
    BY <1>1, <1>2, <2>1, AppendBalance, SMTT(30)
<1>4. /\ \A i \in 1 .. Len(o) : v[i] = w[i] /\ i \in 1 .. Len(o) + 1
      /\ v[Len(o) + 1] = 0
      /\ \A i \in 1 .. Len(o) + 1 : i \in 1 .. Len(o) \/ i = Len(o) + 1
  BY <1>1, <1>3
<1>5. /\ Len(c) \in Nat /\ Len(Append(c, f)) = Len(c) + 1
      /\ \A j \in 1 .. Len(c) : Append(c, f)[j] = c[j]
      /\ Append(c, f)[Len(c) + 1] = f
  BY AnySeq, AppendAny DEF FramesOK
<1>6. /\ \A j \in 1 .. Len(c) + 1 : j \in 1 .. Len(c) \/ j = Len(c) + 1
      /\ 1 .. Len(c) \subseteq 1 .. Len(c) + 1 /\ Len(c) + 1 \in 1 .. Len(c) + 1
  BY <1>5
<1>7. \A j \in 1 .. Len(c) + 1 : v[Append(c, f)[j].at] = Begun(Append(c, f)[j])
  <2> TAKE j \in 1 .. Len(c) + 1
  <2>1. CASE j \in 1 .. Len(c)
    <3>1. c[j].at \in 1 .. Len(o) /\ w[c[j].at] = Begun(c[j])
      BY <2>1 DEF Balanced, FramesOK
    <3>2. QED
      BY <1>4, <1>5, <2>1, <3>1
  <2>2. CASE j = Len(c) + 1
    BY <1>4, <1>5, <2>2
  <2>3. QED
    BY <1>6, <2>1, <2>2
<1>8. \A i \in 1 .. Len(o) + 1 :
          (\A j \in 1 .. Len(c) + 1 : Append(c, f)[j].at # i) => v[i] = Arity(Append(o, e)[i])
  <2> SUFFICES ASSUME NEW i \in 1 .. Len(o) + 1,
                      \A j \in 1 .. Len(c) + 1 : Append(c, f)[j].at # i
               PROVE  v[i] = Arity(Append(o, e)[i])
    OBVIOUS
  <2>1. i \in 1 .. Len(o)
    BY <1>4, <1>5, <1>6
  <2>2. \A j \in 1 .. Len(c) : c[j].at # i
    BY <1>5, <1>6
  <2>3. QED
    BY <1>1, <1>4, <2>1, <2>2 DEF Balanced
<1>9. \A i \in 1 .. Len(Append(o, e)) - 1 : Cardinality(Given(v, i)) >= i
  BY <1>1, <1>3
<1>10. Cardinality(Given(v, Len(Append(o, e)))) + 1 = Len(Append(o, e))
  BY <1>1, <1>3
<1>11. Balanced(v, Append(c, f), Append(o, e), 1)
  BY <1>1, <1>3, <1>5, <1>7, <1>8, <1>9, <1>10 DEF Balanced
<1>12. QED
  BY <1>11

\* The next part is begun: one more is announced at its container's place.
LEMMA TakeBalance ==
    ASSUME NEW c, NEW o, NEW w, FramesOK(c, o), Balanced(w, c, o, 1), c # <<>>,
           NEW f, f.at = c[Len(c)].at, Begun(f) = Begun(c[Len(c)]) + 1
    PROVE  \E v : Balanced(v, [c EXCEPT ![Len(c)] = f], o, 0)
<1>0. PICK a : a = c[Len(c)].at
  OBVIOUS
<1> DEFINE v == [w EXCEPT ![a] = w[a] + 1]
           d == [c EXCEPT ![Len(c)] = f]
<1>1. Len(c) \in Nat /\ Len(c) \in 1 .. Len(c) /\ Len(o) \in Nat
  BY AnySeq DEF FramesOK
<1>2. a \in 1 .. Len(o) /\ IsFrame(c[Len(c)])
  BY <1>0, <1>1 DEF FramesOK
<1>3. w[a] = Begun(c[Len(c)]) /\ w[a] \in Nat
  BY <1>0, <1>1, <1>2, BegunFrame DEF Balanced
<1>4. Len(d) = Len(c) /\ \A j \in 1 .. Len(c) : d[j] = IF j = Len(c) THEN f ELSE c[j]
  BY <1>1, ExceptAny DEF FramesOK
<1>5. w \in [1 .. Len(o) -> Int]
  BY DEF Balanced
<1>6. /\ v \in [1 .. Len(o) -> Int] /\ v[a] = w[a] + 1
      /\ \A i \in 1 .. Len(o) : i # a => v[i] = w[i]
  BY <1>2, <1>3, <1>5
<1> HIDE DEF v, d
<1>7. \A j \in 1 .. Len(c) : c[j].at = a => j = Len(c)
  BY <1>0, <1>1 DEF FramesOK
<1>8. \A j \in 1 .. Len(c) : v[d[j].at] = Begun(d[j])
  <2> TAKE j \in 1 .. Len(c)
  <2>1. CASE j = Len(c)
    BY <1>0, <1>3, <1>4, <1>6, <2>1
  <2>2. CASE j # Len(c)
    <3>1. c[j].at \in 1 .. Len(o) /\ w[c[j].at] = Begun(c[j])
      BY DEF Balanced, FramesOK
    <3>2. QED
      BY <1>4, <1>6, <1>7, <2>2, <3>1
  <2>3. QED
    BY <2>1, <2>2
<1>9. \A i \in 1 .. Len(o) : (\A j \in 1 .. Len(c) : d[j].at # i) => v[i] = Arity(o[i])
  <2> SUFFICES ASSUME NEW i \in 1 .. Len(o), \A j \in 1 .. Len(c) : d[j].at # i
               PROVE  v[i] = Arity(o[i])
    OBVIOUS
  <2>1. i # a /\ \A j \in 1 .. Len(c) : c[j].at # i
    BY <1>0, <1>1, <1>4
  <2>2. QED
    BY <1>6, <2>1 DEF Balanced
<1>10. ASSUME NEW i \in 0 .. Len(o), a <= i
       PROVE  /\ IsFiniteSet(Given(v, i))
              /\ Cardinality(Given(v, i)) = Cardinality(Given(w, i)) + 1
  <2>1. i \in Nat /\ a \in 1 .. i /\ \A j \in 1 .. i : j \in 1 .. Len(o)
    BY <1>1, <1>2, <1>10
  <2>2. IsFiniteSet(Given(w, i))
    BY DEF Balanced
  <2>3. QED
    <3>1. \A j \in 1 .. i : j # a => v[j] = w[j]
      BY <1>6, <2>1
    <3>2. v[a] = w[a] + 1 /\ w[a] \in Nat
      BY <1>3, <1>6
    <3>3. QED
      BY <2>1, <2>2, <3>1, <3>2, MoreGiven
<1>11. ASSUME NEW i \in 0 .. Len(o), ~(a <= i)
       PROVE  Given(v, i) = Given(w, i)
  <2>1. \A j \in 1 .. i : j \in 1 .. Len(o) /\ j # a
    BY <1>1, <1>2, <1>11
  <2>2. QED
    BY <1>6, <2>1, SameGiven
<1>12. \A i \in 0 .. Len(o) : IsFiniteSet(Given(v, i))
  BY <1>10, <1>11 DEF Balanced
<1>13. \A i \in 1 .. Len(o) - 1 : Cardinality(Given(v, i)) >= i
  <2> TAKE i \in 1 .. Len(o) - 1
  <2>1. i \in 0 .. Len(o)
    BY <1>1
  <2>2. Cardinality(Given(w, i)) \in Nat /\ Cardinality(Given(w, i)) >= i
    BY <2>1, FS_CardinalityType DEF Balanced
  <2>3. QED
    BY <1>10, <1>11, <2>1, <2>2
<1>14. Cardinality(Given(v, Len(o))) + 0 = Len(o)
  <2>1. Len(o) \in 0 .. Len(o) /\ a <= Len(o)
    BY <1>1, <1>2
  <2>2. Cardinality(Given(w, Len(o))) \in Nat /\ Cardinality(Given(w, Len(o))) + 1 = Len(o)
    BY <2>1, FS_CardinalityType DEF Balanced
  <2>3. QED
    BY <1>10, <2>1, <2>2
<1>15. Balanced(v, d, o, 0)
  BY <1>4, <1>6, <1>8, <1>9, <1>12, <1>13, <1>14 DEF Balanced
<1>16. QED
  BY <1>15 DEF d

\* The container's length comes to what was begun.
LEMMA FinishBalance ==
    ASSUME NEW c, NEW o, NEW w, FramesOK(c, o), Balanced(w, c, o, 1), c # <<>>,
           NEW e, Arity(e) = Begun(c[Len(c)])
    PROVE  Balanced(w, SubSeq(c, 1, Len(c) - 1), [o EXCEPT ![c[Len(c)].at] = e], 1)
<1>0. PICK a : a = c[Len(c)].at
  OBVIOUS
<1> DEFINE d == SubSeq(c, 1, Len(c) - 1)
           p == [o EXCEPT ![a] = e]
<1>1. Len(c) \in Nat /\ Len(c) > 0 /\ Len(c) \in 1 .. Len(c) /\ Len(c) - 1 \in 0 .. Len(c)
  BY AnySeq DEF FramesOK
<1>2. Len(d) = Len(c) - 1 /\ \A j \in 1 .. Len(c) - 1 : d[j] = c[j]
  <2>1. IsSeq(c)
    BY DEF FramesOK
  <2>2. QED
    BY <1>1, <2>1, CutAny
<1>3. a \in 1 .. Len(o)
  BY <1>0, <1>1 DEF FramesOK
<1>4. Len(p) = Len(o) /\ \A i \in 1 .. Len(o) : p[i] = IF i = a THEN e ELSE o[i]
  <2>1. IsSeq(o)
    BY DEF FramesOK
  <2>2. QED
    BY <1>3, <2>1, ExceptAny
<1>5. /\ \A j \in 1 .. Len(c) - 1 : j \in 1 .. Len(c)
      /\ \A j \in 1 .. Len(c) : j \in 1 .. Len(c) - 1 \/ j = Len(c)
  BY <1>1
<1> HIDE DEF d, p
<1>6. \A j \in 1 .. Len(c) - 1 : w[d[j].at] = Begun(d[j])
  BY <1>2, <1>5 DEF Balanced
<1>7. \A i \in 1 .. Len(o) : (\A j \in 1 .. Len(c) - 1 : d[j].at # i) => w[i] = Arity(p[i])
  <2> SUFFICES ASSUME NEW i \in 1 .. Len(o), \A j \in 1 .. Len(c) - 1 : d[j].at # i
               PROVE  w[i] = Arity(p[i])
    OBVIOUS
  <2>1. CASE i = a
    BY <1>0, <1>1, <1>4, <2>1 DEF Balanced
  <2>2. CASE i # a
    <3>1. \A j \in 1 .. Len(c) : c[j].at # i
      BY <1>0, <1>2, <1>5, <2>2
    <3>2. QED
      BY <1>4, <2>2, <3>1 DEF Balanced
  <2>3. QED
    BY <2>1, <2>2
<1>8. Balanced(w, d, p, 1)
  BY <1>2, <1>4, <1>6, <1>7 DEF Balanced
<1>9. QED
  BY <1>0, <1>8 DEF d, p

-----------------------------------------------------------------------------
(* The height of the stack.                                                 *)

\* base[j] is the height below the container of frame j, h what all of them
\* keep; a container was begun with room for Room elements above it.
Heights(c, h) ==
    \E base \in [1 .. Len(c) + 1 -> Nat] :
        /\ base[1] = 0
        /\ \A j \in 1 .. Len(c) : base[j + 1] = base[j] + Height(c[j]) /\ base[j] + 1 + Room <= Limit
        /\ h = base[Len(c) + 1]

LEMMA HeightBounds ==
    ASSUME NEW c, NEW o, FramesOK(c, o), NEW h, Heights(c, h)
    PROVE  /\ h \in Nat /\ h + 1 <= Limit
           /\ c = <<>> => h = 0
           /\ c # <<>> => h >= Height(c[Len(c)])
<1>1. PICK base \in [1 .. Len(c) + 1 -> Nat] :
          /\ base[1] = 0
          /\ \A j \in 1 .. Len(c) : base[j + 1] = base[j] + Height(c[j]) /\ base[j] + 1 + Room <= Limit
          /\ h = base[Len(c) + 1]
  BY DEF Heights
<1>2. Len(c) \in Nat /\ (c = <<>> <=> Len(c) = 0)
  BY AnySeq DEF FramesOK
<1>3. CASE Len(c) = 0
  BY <1>1, <1>2, <1>3, LimitAssumption
<1>4. CASE Len(c) > 0
  <2>1. Len(c) \in 1 .. Len(c) /\ Len(c) \in 1 .. Len(c) + 1
    BY <1>2, <1>4
  <2>2. Height(c[Len(c)]) \in 1 .. 4
    BY <2>1, BegunFrame DEF FramesOK
  <2>3. base[Len(c)] \in Nat
    BY <1>1, <2>1
  <2>4. h = base[Len(c)] + Height(c[Len(c)]) /\ base[Len(c)] + 1 + Room <= Limit
    BY <1>1, <2>1
  <2>5. QED
    <3>1. PICK p \in Nat, q \in 1 .. 4 : p = base[Len(c)] /\ q = Height(c[Len(c)])
      BY <2>2, <2>3
    <3>2. h = p + q /\ p + 1 + 4 <= Limit
      BY <2>4, <3>1 DEF Room
    <3>3. h \in Nat /\ h + 1 <= Limit /\ h >= q
      BY <3>2, LimitAssumption
    <3>4. QED
      BY <1>2, <1>4, <3>1, <3>3
<1>5. QED
  BY <1>2, <1>3, <1>4

LEMMA BeginHeights ==
    ASSUME NEW c, IsSeq(c), NEW h, Heights(c, h), NEW f, Height(f) \in Nat,
           h + 1 + Room <= Limit
    PROVE  Heights(Append(c, f), h + Height(f))
<1>1. PICK base \in [1 .. Len(c) + 1 -> Nat] :
          /\ base[1] = 0
          /\ \A j \in 1 .. Len(c) : base[j + 1] = base[j] + Height(c[j]) /\ base[j] + 1 + Room <= Limit
          /\ h = base[Len(c) + 1]
  BY DEF Heights
<1>2. /\ Len(c) \in Nat /\ Len(Append(c, f)) = Len(c) + 1
      /\ \A j \in 1 .. Len(c) : Append(c, f)[j] = c[j]
      /\ Append(c, f)[Len(c) + 1] = f
  BY AnySeq, AppendAny
<1>3. PICK n \in Nat : n = Len(c)
  BY <1>2
<1> DEFINE higher == [j \in 1 .. n + 2 |-> IF j = n + 2 THEN h + Height(f) ELSE base[j]]
<1>4. h \in Nat
  BY <1>1, <1>2
<1>5. higher \in [1 .. n + 1 + 1 -> Nat]
  BY <1>1, <1>3, <1>4
<1>6. /\ higher[n + 2] = h + Height(f)
      /\ \A j \in 1 .. n + 1 : higher[j] = base[j]
  OBVIOUS
<1> HIDE DEF higher
<1>7. /\ \A j \in 1 .. n : j \in 1 .. n + 1 /\ j + 1 \in 1 .. n + 1
      /\ \A j \in 1 .. n + 1 : j \in 1 .. n \/ j = n + 1
      /\ 1 \in 1 .. n + 1 /\ n + 1 \in 1 .. n + 1 /\ n + 1 + 1 = n + 2
  OBVIOUS
<1>8. \A j \in 1 .. n + 1 : /\ higher[j + 1] = higher[j] + Height(Append(c, f)[j])
                            /\ higher[j] + 1 + Room <= Limit
  <2> TAKE j \in 1 .. n + 1
  <2>1. CASE j \in 1 .. n
    BY <1>1, <1>2, <1>3, <1>6, <1>7, <2>1
  <2>2. CASE j = n + 1
    BY <1>1, <1>2, <1>3, <1>6, <1>7, <2>2
  <2>3. QED
    BY <1>7, <2>1, <2>2
<1>9. higher[1] = 0 /\ h + Height(f) = higher[n + 1 + 1]
  BY <1>1, <1>6, <1>7
<1>10. QED
  BY <1>2, <1>3, <1>5, <1>8, <1>9 DEF Heights

LEMMA TakeHeights ==
    ASSUME NEW c, IsSeq(c), c # <<>>, NEW h, Heights(c, h), NEW f, Height(f) \in Nat,
           Height(c[Len(c)]) \in Nat
    PROVE  Heights([c EXCEPT ![Len(c)] = f], h - Height(c[Len(c)]) + Height(f))
<1>1. PICK base \in [1 .. Len(c) + 1 -> Nat] :
          /\ base[1] = 0
          /\ \A j \in 1 .. Len(c) : base[j + 1] = base[j] + Height(c[j]) /\ base[j] + 1 + Room <= Limit
          /\ h = base[Len(c) + 1]
  BY DEF Heights
<1>2. PICK n \in Nat : n = Len(c) /\ n \in 1 .. n
  BY AnySeq
<1> DEFINE d == [c EXCEPT ![n] = f]
           other == [base EXCEPT ![n + 1] = base[n] + Height(f)]
<1>3. Len(d) = n /\ \A j \in 1 .. n : d[j] = IF j = n THEN f ELSE c[j]
  BY <1>2, ExceptAny
<1>4. base[n] \in Nat /\ h = base[n] + Height(c[n])
  BY <1>1, <1>2
<1>5. /\ other \in [1 .. n + 1 -> Nat]
      /\ other[n + 1] = base[n] + Height(f)
      /\ \A j \in 1 .. n : other[j] = base[j]
  BY <1>1, <1>2, <1>4
<1> HIDE DEF d, other
<1>6. \A j \in 1 .. n : other[j + 1] = other[j] + Height(d[j]) /\ other[j] + 1 + Room <= Limit
  <2> TAKE j \in 1 .. n
  <2>1. CASE j = n
    BY <1>1, <1>2, <1>3, <1>5, <2>1
  <2>2. CASE j # n
    <3>1. j + 1 \in 1 .. n
      BY <2>2
    <3>2. QED
      BY <1>1, <1>2, <1>3, <1>5, <2>2, <3>1
  <2>3. QED
    BY <2>1, <2>2
<1>7. other[1] = 0 /\ h - Height(c[n]) + Height(f) = other[n + 1]
  BY <1>1, <1>2, <1>4, <1>5
<1>8. Heights(d, h - Height(c[n]) + Height(f))
  BY <1>3, <1>5, <1>6, <1>7 DEF Heights
<1>9. QED
  BY <1>2, <1>8 DEF d

LEMMA FinishHeights ==
    ASSUME NEW c, IsSeq(c), c # <<>>, NEW h, Heights(c, h), Height(c[Len(c)]) \in Nat
    PROVE  Heights(SubSeq(c, 1, Len(c) - 1), h - Height(c[Len(c)]))
<1>1. PICK base \in [1 .. Len(c) + 1 -> Nat] :
          /\ base[1] = 0
          /\ \A j \in 1 .. Len(c) : base[j + 1] = base[j] + Height(c[j]) /\ base[j] + 1 + Room <= Limit
          /\ h = base[Len(c) + 1]
  BY DEF Heights
<1>2. PICK n \in Nat : n = Len(c) /\ n \in 1 .. n
  BY AnySeq
<1> DEFINE d == SubSeq(c, 1, n - 1)
           lower == [j \in 1 .. n |-> base[j]]
<1>3. Len(d) = n - 1 /\ \A j \in 1 .. n - 1 : d[j] = c[j]
  <2>1. n - 1 \in 0 .. n
    BY <1>2
  <2>2. QED
    BY <1>2, <2>1, CutAny
<1>4. base[n] \in Nat /\ h = base[n] + Height(c[n])
  BY <1>1, <1>2
<1>5. lower \in [1 .. n - 1 + 1 -> Nat] /\ \A j \in 1 .. n : lower[j] = base[j]
  BY <1>1, <1>2
<1> HIDE DEF d, lower
<1>6. \A j \in 1 .. n - 1 : lower[j + 1] = lower[j] + Height(d[j]) /\ lower[j] + 1 + Room <= Limit
  <2> TAKE j \in 1 .. n - 1
  <2>1. j \in 1 .. n /\ j + 1 \in 1 .. n
    OBVIOUS
  <2>2. QED
    BY <1>1, <1>2, <1>3, <1>5, <2>1
<1>7. lower[1] = 0 /\ h - Height(c[n]) = lower[n - 1 + 1]
  BY <1>1, <1>2, <1>4, <1>5
<1>8. Heights(d, h - Height(c[n]))
  BY <1>3, <1>5, <1>6, <1>7 DEF Heights
<1>9. QED
  BY <1>2, <1>8 DEF d

-----------------------------------------------------------------------------
(* The inductive invariant.                                                 *)

\* The value to be converted lies above what the frames keep.
Waiting == IF phase = "convert" THEN 1 ELSE 0

InConversion ==
    /\ Heights(cont, Len(lua) - Waiting)
    /\ \E w : Balanced(w, cont, out, 1 - Waiting)

IInv ==
    /\ resp \in {2, 3}
    /\ phase \in {"call", "convert", "resume", "done", "raised"}
    /\ IsSeq(lua) /\ FramesOK(cont, out) /\ TokensOK(cont, out)
    /\ phase \in {"call", "raised"} => lua = <<>> /\ cont = <<>> /\ out = <<>>
    /\ phase \in {"convert", "resume", "done"} => InConversion
    /\ phase = "done" => cont = <<>>

\* Before anything is written.
LEMMA EmptyFrames == FramesOK(<<>>, <<>>) /\ TokensOK(<<>>, <<>>)
<1>1. IsSeq(<<>>) /\ Len(<<>>) = 0 /\ 1 .. 0 = {}
  BY Tuples
<1>2. QED
  BY <1>1 DEF FramesOK, TokensOK

\* The value is converted: a token is written, the value popped.
LEMMA ConsumedStep ==
    ASSUME IInv, phase = "convert", Consumed,
           NEW e, out' = Append(out, e), e.k \notin Containers,
           e.k \in {"simple", "big_number"} => Unbroken(e.s)
    PROVE  IInv'
<1>1. /\ FramesOK(cont, out) /\ TokensOK(cont, out) /\ IsSeq(lua) /\ resp \in {2, 3}
      /\ Heights(cont, Len(lua) - 1) /\ \E w : Balanced(w, cont, out, 0)
  BY DEF IInv, InConversion, Waiting
<1>2. lua' = Down(1) /\ phase' = "resume" /\ cont' = cont /\ resp' = resp
  BY DEF Consumed
<1>3. Len(lua) \in Nat /\ Len(lua) - 1 \in 0 .. Len(lua)
  <2>1. Len(lua) - 1 \in Nat
    BY <1>1, HeightBounds
  <2>2. QED
    BY <1>1, <2>1, AnySeq
<1>4. IsSeq(lua') /\ Len(lua') = Len(lua) - 1
  BY <1>1, <1>2, <1>3, CutAny DEF Down
<1>5. FramesOK(cont', out') /\ TokensOK(cont', out')
  BY <1>1, <1>2, WriteFrames
<1>6. \E w : Balanced(w, cont', out', 1)
  BY <1>1, <1>2, WriteBalance
<1>7. Waiting' = 0
  BY <1>2 DEF Waiting
<1>8. InConversion'
  <2>1. Len(lua') - 0 = Len(lua) - 1
    BY <1>3, <1>4
  <2>2. QED
    BY <1>1, <1>2, <1>6, <1>7, <2>1 DEF InConversion
<1>9. QED
  BY <1>1, <1>2, <1>4, <1>5, <1>8 DEF IInv

\* A container is begun: the value stays, with what is pushed above it.
LEMMA BeginStep ==
    ASSUME IInv, phase = "convert", HasRoom,
           NEW kind \in {"map", "set", "array"}, NEW rest, NEW pushed, IsSeq(pushed),
           Len(pushed) = (IF kind = "array" THEN 0 ELSE 2), Begin(kind, rest, pushed)
    PROVE  IInv'
<1>1. /\ FramesOK(cont, out) /\ TokensOK(cont, out) /\ IsSeq(lua) /\ resp \in {2, 3}
      /\ Heights(cont, Len(lua) - 1) /\ \E w : Balanced(w, cont, out, 0)
  BY DEF IInv, InConversion, Waiting
<1>2. PICK f : f = [k |-> kind, at |-> Len(out) + 1, n |-> 0, rest |-> rest]
  OBVIOUS
<1>3. PICK e : e = [k |-> kind, len |-> -1]
  OBVIOUS
<1>4. /\ out' = Append(out, e) /\ cont' = Append(cont, f) /\ lua' = lua \o pushed
      /\ phase' = "resume" /\ resp' = resp
  BY <1>2, <1>3 DEF Begin
<1>5. Len(lua) \in Nat /\ Len(lua) - 1 + 1 + Room <= Limit
  <2>1. Len(lua) \in Nat
    BY <1>1, AnySeq
  <2>2. QED
    BY <2>1, LimitAssumption DEF HasRoom, Room
<1>6. FramesOK(cont', out') /\ TokensOK(cont', out')
  BY <1>1, <1>2, <1>3, <1>4, BeginFrames
<1>7. f.at = Len(out) + 1 /\ Begun(f) = 0 /\ Height(f) = 1 + Len(pushed) /\ Height(f) \in Nat
  BY <1>2 DEF Begun, Height
<1>8. \E w : Balanced(w, cont', out', 1)
  BY <1>1, <1>4, <1>7, BeginBalance
<1>9. IsSeq(lua') /\ Len(lua') = Len(lua) + Len(pushed)
  BY <1>1, <1>4, ConcatAny
<1>10. Heights(cont', Len(lua) - 1 + Height(f))
  <2>1. IsSeq(cont)
    BY <1>1 DEF FramesOK
  <2>2. QED
    BY <1>1, <1>4, <1>5, <1>7, <2>1, BeginHeights
<1>11. InConversion'
  <2>1. Waiting' = 0 /\ Len(lua') - 0 = Len(lua) - 1 + Height(f)
    BY <1>4, <1>5, <1>7, <1>9 DEF Waiting
  <2>2. QED
    BY <1>8, <1>10, <2>1 DEF InConversion
<1>12. QED
  BY <1>1, <1>4, <1>6, <1>9, <1>11 DEF IInv

\* The innermost container's next part is put on the stack.
LEMMA TakeStep ==
    ASSUME IInv, phase = "resume", cont # <<>>,
           NEW n \in 0 .. 1, NEW pushed, IsSeq(pushed), NEW f, IsFrame(f),
           f.at = Frame.at, Kind(f) = Kind(Frame), Begun(f) = Begun(Frame) + 1,
           Len(pushed) - n = Height(f) - Height(Frame) + 1,
           Take(n, pushed, f)
    PROVE  IInv'
<1>1. /\ FramesOK(cont, out) /\ TokensOK(cont, out) /\ IsSeq(lua) /\ resp \in {2, 3}
      /\ Heights(cont, Len(lua)) /\ \E w : Balanced(w, cont, out, 1)
  <2>1. Len(lua) \in Nat /\ Waiting = 0
    BY AnySeq DEF IInv, Waiting
  <2>2. Len(lua) - 0 = Len(lua) /\ 1 - 0 = 1
    BY <2>1
  <2>3. QED
    BY <2>1, <2>2 DEF IInv, InConversion
<1>2. /\ lua' = Down(n) \o pushed /\ cont' = [cont EXCEPT ![Len(cont)] = f]
      /\ phase' = "convert" /\ out' = out /\ resp' = resp
  BY DEF Take
<1>3. IsSeq(cont) /\ Len(cont) \in 1 .. Len(cont) /\ IsFrame(Frame) /\ Frame = cont[Len(cont)]
  <2>1. IsSeq(cont)
    BY <1>1 DEF FramesOK
  <2>2. Len(cont) \in 1 .. Len(cont)
    BY <2>1, AnySeq
  <2>3. QED
    BY <1>1, <2>1, <2>2 DEF FramesOK, Frame
<1>4. Height(Frame) \in 1 .. 4 /\ Height(f) \in 1 .. 4
  BY <1>3, BegunFrame
<1>5. Len(lua) \in Nat /\ Len(lua) >= Height(Frame)
  BY <1>1, <1>3, HeightBounds
<1>6. IsSeq(lua') /\ Len(lua') = Len(lua) - n + Len(pushed)
  <2>1. Len(lua) - n \in 0 .. Len(lua)
    <3>1. PICK l \in Nat, g \in 1 .. 4 : l = Len(lua) /\ g = Height(Frame) /\ l >= g
      BY <1>4, <1>5
    <3>2. l - n \in 0 .. l
      BY <3>1
    <3>3. QED
      BY <3>1, <3>2
  <2>2. IsSeq(Down(n)) /\ Len(Down(n)) = Len(lua) - n
    BY <1>1, <2>1, CutAny DEF Down
  <2>3. QED
    BY <1>2, <2>2, ConcatAny
<1>7. FramesOK(cont', out') /\ TokensOK(cont', out')
  BY <1>1, <1>2, <1>3, TakeFrames
<1>8. \E w : Balanced(w, cont', out', 0)
  <2>1. f.at = cont[Len(cont)].at /\ Begun(f) = Begun(cont[Len(cont)]) + 1
    BY <1>3
  <2>2. PICK w : Balanced(w, cont, out, 1)
    BY <1>1
  <2>3. \E w2 : Balanced(w2, [cont EXCEPT ![Len(cont)] = f], out, 0)
    BY <1>1, <2>1, <2>2, TakeBalance
  <2>4. QED
    BY <1>2, <2>3
<1>9. Heights(cont', Len(lua) - Height(Frame) + Height(f))
  <2>1. Height(cont[Len(cont)]) \in Nat /\ Height(f) \in Nat
    <3>1. \A x \in 1 .. 4 : x \in Nat
      OBVIOUS
    <3>2. IsFrame(cont[Len(cont)])
      BY <1>3
    <3>3. Height(cont[Len(cont)]) \in 1 .. 4
      BY <3>2, BegunFrame
    <3>4. QED
      BY <1>4, <3>1, <3>3
  <2>2. Heights([cont EXCEPT ![Len(cont)] = f], Len(lua) - Height(cont[Len(cont)]) + Height(f))
    BY <1>1, <1>3, <2>1, TakeHeights
  <2>3. QED
    BY <1>2, <1>3, <2>2
<1>10. InConversion'
  <2>1. Waiting' = 1 /\ 1 - 1 = 0
    BY <1>2 DEF Waiting
  <2>2. Len(pushed) \in Nat
    BY AnySeq
  <2>3. Len(lua') - 1 = Len(lua) - Height(Frame) + Height(f)
    <3>1. PICK l \in Nat, m \in Nat : l = Len(lua) /\ m = Len(pushed)
      BY <1>5, <2>2
    <3>2. PICK g \in 1 .. 4, h \in 1 .. 4 : g = Height(f) /\ h = Height(Frame)
      BY <1>4
    <3>3. m - n = g - h + 1
      BY <3>1, <3>2
    <3>4. l - n + m - 1 = l - h + g
      BY <3>3
    <3>5. Len(lua) - n + Len(pushed) - 1 = Len(lua) - Height(Frame) + Height(f)
      BY <3>1, <3>2, <3>4
    <3>6. QED
      BY <1>6, <3>5
  <2>4. QED
    BY <1>8, <1>9, <2>1, <2>3 DEF InConversion
<1>11. QED
  BY <1>1, <1>2, <1>6, <1>7, <1>10 DEF IInv

\* The innermost container is finished.
LEMMA FinishStep ==
    ASSUME IInv, phase = "resume", cont # <<>>, Frame.k \in {"map", "set", "array"},
           NEW pops, pops = Height(Frame), Finish(pops)
    PROVE  IInv'
<1>1. /\ FramesOK(cont, out) /\ TokensOK(cont, out) /\ IsSeq(lua) /\ resp \in {2, 3}
      /\ Heights(cont, Len(lua)) /\ \E w : Balanced(w, cont, out, 1)
  <2>1. Len(lua) \in Nat /\ Waiting = 0
    BY AnySeq DEF IInv, Waiting
  <2>2. Len(lua) - 0 = Len(lua) /\ 1 - 0 = 1
    BY <2>1
  <2>3. QED
    BY <2>1, <2>2 DEF IInv, InConversion
<1>2. IsSeq(cont) /\ Len(cont) \in 1 .. Len(cont) /\ IsFrame(Frame) /\ Frame = cont[Len(cont)]
  <2>1. IsSeq(cont)
    BY <1>1 DEF FramesOK
  <2>2. Len(cont) \in 1 .. Len(cont)
    BY <2>1, AnySeq
  <2>3. QED
    BY <1>1, <2>1, <2>2 DEF FramesOK, Frame
<1>3. Frame.at \in 1 .. Len(out) /\ out[Frame.at] = [k |-> Kind(Frame), len |-> -1]
  BY <1>1, <1>2 DEF FramesOK
<1>4. PICK e : e = [k |-> Kind(Frame), len |-> Frame.n]
  OBVIOUS
<1>5. [out EXCEPT ![Frame.at].len = Frame.n] = [out EXCEPT ![Frame.at] = e]
  <2>1. [out[Frame.at] EXCEPT !.len = Frame.n] = e
    BY <1>3, <1>4
  <2>2. QED
    BY <2>1
<1>6. /\ out' = [out EXCEPT ![Frame.at] = e] /\ lua' = Down(pops)
      /\ cont' = SubSeq(cont, 1, Len(cont) - 1) /\ phase' = phase /\ resp' = resp
  BY <1>5 DEF Finish
<1>7. Height(Frame) \in 1 .. 4 /\ Len(lua) \in Nat /\ Len(lua) >= Height(Frame)
  BY <1>1, <1>2, BegunFrame, HeightBounds
<1>8. IsSeq(lua') /\ Len(lua') = Len(lua) - Height(Frame)
  <2>1. Len(lua) - pops \in 0 .. Len(lua)
    BY <1>7
  <2>2. QED
    BY <1>1, <1>6, <2>1, CutAny DEF Down
<1>9. e.k = Kind(Frame) /\ e.len = Frame.n /\ Arity(e) = Begun(Frame)
  <2>1. Frame.k \in {"map", "set", "array"} => Kind(Frame) = Frame.k
    BY <1>2, BegunFrame
  <2>2. QED
    BY <1>4, <2>1 DEF Arity, Begun
<1>10. FramesOK(cont', out') /\ TokensOK(cont', out')
  BY <1>1, <1>2, <1>6, <1>9, FinishFrames
<1>11. \E w : Balanced(w, cont', out', 1)
  BY <1>1, <1>2, <1>6, <1>9, FinishBalance
<1>12. Heights(cont', Len(lua) - Height(Frame))
  BY <1>1, <1>2, <1>6, <1>7, FinishHeights
<1>13. InConversion'
  <2>1. Waiting' = 0 /\ 1 - 0 = 1 /\ Len(lua') - 0 = Len(lua) - Height(Frame)
    BY <1>6, <1>7, <1>8 DEF Waiting
  <2>2. QED
    BY <1>8, <1>11, <1>12, <2>1 DEF InConversion
<1>14. QED
  BY <1>1, <1>6, <1>8, <1>10, <1>13 DEF IInv

\* A conversion begins with its value on the stack and nothing written.
LEMMA ReturnStep ==
    ASSUME IInv, phase = "call", UNCHANGED <<resp, cont, out>>, NEW v, Return(v)
    PROVE  IInv'
<1>1. resp' \in {2, 3} /\ lua' = <<v>> /\ phase' = "convert" /\ cont' = <<>> /\ out' = <<>>
  BY DEF IInv, Return
<1>2. IsSeq(lua') /\ Len(lua') - 1 = 0 /\ Len(<<>>) = 0
  BY <1>1, Tuples
<1>3. Heights(<<>>, 0)
  <2>1. [j \in 1 .. 1 |-> 0] \in [1 .. 0 + 1 -> Nat] /\ [j \in 1 .. 1 |-> 0][1] = 0
    OBVIOUS
  <2>2. \E base \in [1 .. 0 + 1 -> Nat] : base[1] = 0
    BY <2>1
  <2>3. \A base \in [1 .. 0 + 1 -> Nat] : base[1] = 0 =>
            /\ \A j \in 1 .. 0 : base[j + 1] = base[j] + Height((<<>>)[j]) /\ base[j] + 1 + Room <= Limit
            /\ 0 = base[0 + 1]
    OBVIOUS
  <2>4. QED
    BY <1>2, <2>2, <2>3 DEF Heights
<1>4. \E w : Balanced(w, <<>>, <<>>, 0)
  <2>1. PICK w : w \in [1 .. 0 -> Int]
    <3>1. [j \in 1 .. 0 |-> 0] \in [1 .. 0 -> Int]
      OBVIOUS
    <3>2. QED
      BY <3>1
  <2>2. Given(w, 0) = {}
    BY DEF Given
  <2>3. IsFiniteSet(Given(w, 0)) /\ Cardinality(Given(w, 0)) = 0
    BY <2>2, FS_EmptySet
  <2>4. \A i \in 0 .. 0 : i = 0
    OBVIOUS
  <2>5. 1 .. 0 = {} /\ 1 .. 0 - 1 = {}
    OBVIOUS
  <2>6. Balanced(w, <<>>, <<>>, 0)
    BY <1>2, <2>1, <2>3, <2>4, <2>5 DEF Balanced
  <2>7. QED
    BY <2>6
<1>5. InConversion'
  <2>1. Waiting' = 1 /\ 1 - 1 = 0
    BY <1>1 DEF Waiting
  <2>2. QED
    BY <1>1, <1>2, <1>3, <1>4, <2>1 DEF InConversion
<1>6. QED
  BY <1>1, <1>2, <1>5, EmptyFrames DEF IInv

\* The innermost frame while elements are taken, its fields one by one.
LEMMA InnermostFrame ==
    ASSUME IInv, cont # <<>>
    PROVE  IsFrame(Frame)
<1>1. IsSeq(cont)
  BY DEF IInv, FramesOK
<1>2. Len(cont) \in 1 .. Len(cont)
  BY <1>1, AnySeq
<1>3. QED
  BY <1>2 DEF IInv, FramesOK, Frame

LEMMA InvInit == Init => IInv
<1> SUFFICES ASSUME Init
             PROVE  IInv
  OBVIOUS
<1>1. /\ resp \in {2, 3} /\ phase = "call"
      /\ lua = <<>> /\ cont = <<>> /\ out = <<>>
  BY DEF Init
<1>2. QED
  BY <1>1, EmptyFrames, Tuples DEF IInv

LEMMA InvNext == IInv /\ [Next]_vars => IInv'
<1> SUFFICES ASSUME IInv, [Next]_vars
             PROVE  IInv'
  OBVIOUS
<1>1. CASE CommandReply
  <2>1. PICK r \in Replies[resp] :
            IF HasNilKey(resp)[r]
            THEN phase' = "raised" /\ UNCHANGED <<given, lua>>
            ELSE Return(ToLua(resp)[r])
    BY <1>1 DEF CommandReply
  <2>2. phase = "call" /\ UNCHANGED <<resp, cont, out>>
    BY <1>1 DEF CommandReply
  <2>3. CASE HasNilKey(resp)[r]
    BY <2>1, <2>2, <2>3 DEF IInv
  <2>4. CASE ~HasNilKey(resp)[r]
    BY <2>1, <2>2, <2>4, ReturnStep
  <2>5. QED
    BY <2>3, <2>4
<1>2. CASE OwnValue
  BY <1>2, ReturnStep DEF OwnValue
<1>3. CASE StackLimit
  <2>1. PICK e : e = Text("error", <<"stack limit">>)
    OBVIOUS
  <2>2. e.k \notin Containers /\ e.k \notin {"simple", "big_number"}
    BY <2>1 DEF Text, Containers
  <2>3. phase = "convert" /\ Consumed /\ out' = Append(out, e)
    BY <1>3, <2>1 DEF StackLimit
  <2>4. QED
    BY <2>2, <2>3, ConsumedStep
<1>4. CASE Scalar
  <2>1. PICK e : e = CASE Top.t = "string"  -> Text("string", Top.s)
                       [] Top.t = "boolean" -> BooleanReply(Top.b)
                       [] Top.t = "number"  -> Integer(LongLong(Top))
                       [] OTHER             -> Null
    OBVIOUS
  <2>2. e.k \in {"string", "integer", "null", "bool"}
    BY <2>1 DEF Text, Integer, Null, BooleanReply, Truth
  <2>3. e.k \notin Containers /\ e.k \notin {"simple", "big_number"}
    BY <2>2 DEF Containers
  <2>4. phase = "convert" /\ Consumed /\ out' = Append(out, e)
    BY <1>4, <2>1 DEF Scalar
  <2>5. QED
    BY <2>3, <2>4, ConsumedStep
<1>5. CASE SingleField
  <2>1. phase = "convert" /\ Consumed
    BY <1>5 DEF SingleField, Converting
  <2>2. \A t : Unbroken(OneLine(t))
    BY DEF OneLine, Unbroken, Space, Breaks
  <2>3. \E e : /\ out' = Append(out, e) /\ e.k \notin Containers
               /\ e.k \in {"simple", "big_number"} => Unbroken(e.s)
    <3>1. /\ \A t : /\ Text("error", t).k = "error"
                    /\ Text("simple", t).k = "simple" /\ Text("simple", t).s = t
                    /\ Text("big_number", t).k = "big_number" /\ Text("big_number", t).s = t
          /\ \A t, f : Verbatim(t, f).k = "verbatim"
          /\ \A d : Double(d).k = "double"
      BY DEF Text, Verbatim, Double
    <3>2. /\ {"error", "simple", "big_number", "verbatim", "double"} \cap Containers = {}
          /\ {"error", "verbatim", "double"} \cap {"simple", "big_number"} = {}
      BY DEF Containers
    <3>3. \/ \E t : out' = Append(out, Text("error", t))
          \/ \E t : out' = Append(out, Text("simple", OneLine(t)))
          \/ \E d : out' = Append(out, Double(d))
          \/ \E t : out' = Append(out, Text("big_number", OneLine(t)))
          \/ \E t, f : out' = Append(out, Verbatim(t, f))
      BY <1>5 DEF SingleField
    <3>4. QED
      BY <2>2, <3>1, <3>2, <3>3
  <2>4. QED
    BY <2>1, <2>3, ConsumedStep
<1>6. CASE BeginMap
  <2>1. PICK m : Begin("map", m.f, <<m, Nil>>)
    BY <1>6 DEF BeginMap
  <2>2. phase = "convert" /\ HasRoom
    BY <1>6 DEF BeginMap, Converting
  <2>3. IsSeq(<<m, Nil>>) /\ Len(<<m, Nil>>) = 2
    BY Tuples
  <2>4. QED
    BY <2>1, <2>2, <2>3, BeginStep
<1>7. CASE BeginSet
  <2>1. PICK m : Begin("set", m.f, <<m, Nil>>)
    BY <1>7 DEF BeginSet
  <2>2. phase = "convert" /\ HasRoom
    BY <1>7 DEF BeginSet, Converting
  <2>3. IsSeq(<<m, Nil>>) /\ Len(<<m, Nil>>) = 2
    BY Tuples
  <2>4. QED
    BY <2>1, <2>2, <2>3, BeginStep
<1>8. CASE BeginArray
  <2>1. phase = "convert" /\ HasRoom /\ Begin("array", {}, <<>>)
    BY <1>8 DEF BeginArray, Converting
  <2>2. QED
    BY <2>1, Tuples, BeginStep
<1>9. CASE MapKey
  <2>1. phase = "resume" /\ cont # <<>> /\ Frame.k = "map" /\ IsFrame(Frame)
    BY <1>9, InnermostFrame DEF MapKey, Going
  <2>2. PICK p : Take(1, <<p.key, p.val, p.key>>,
                      [Frame EXCEPT !.k = "value", !.rest = @ \ {p}, !.n = @ + 1])
    BY <1>9 DEF MapKey
  <2>3. PICK f : f = [Frame EXCEPT !.k = "value", !.rest = @ \ {p}, !.n = @ + 1]
    OBVIOUS
  <2>4. f = [k |-> "value", at |-> Frame.at, n |-> Frame.n + 1, rest |-> Frame.rest \ {p}]
    BY <2>1, <2>3 DEF IsFrame
  <2>5. /\ IsFrame(f) /\ f.at = Frame.at /\ Kind(f) = Kind(Frame) /\ Begun(f) = Begun(Frame) + 1
        /\ Height(f) = 4 /\ Height(Frame) = 3
    BY <2>1, <2>4 DEF IsFrame, FrameKinds, Kind, Begun, Height
  <2>6. PICK pushed : pushed = <<p.key, p.val, p.key>>
    OBVIOUS
  <2>7. PICK n \in 0 .. 1 : n = 1
    OBVIOUS
  <2>8. IsSeq(pushed) /\ Len(pushed) - n = Height(f) - Height(Frame) + 1
    BY <2>5, <2>6, <2>7, Tuples
  <2>9. Take(n, pushed, f)
    BY <2>2, <2>3, <2>6, <2>7
  <2>10. QED
    BY <2>1, <2>5, <2>8, <2>9, TakeStep
<1>10. CASE MapValue
  <2>1. phase = "resume" /\ cont # <<>> /\ Frame.k = "value" /\ IsFrame(Frame)
    BY <1>10, InnermostFrame DEF MapValue, Going
  <2>2. PICK f : f = [Frame EXCEPT !.k = "map"]
    OBVIOUS
  <2>3. f = [k |-> "map", at |-> Frame.at, n |-> Frame.n, rest |-> Frame.rest]
    BY <2>1, <2>2 DEF IsFrame
  <2>4. /\ IsFrame(f) /\ f.at = Frame.at /\ Kind(f) = Kind(Frame) /\ Begun(f) = Begun(Frame) + 1
        /\ Height(f) = 3 /\ Height(Frame) = 4
    BY <2>1, <2>3 DEF IsFrame, FrameKinds, Kind, Begun, Height
  <2>5. IsSeq(<<>>) /\ Len(<<>>) - 0 = Height(f) - Height(Frame) + 1
    BY <2>4, Tuples
  <2>6. Take(0, <<>>, f)
    BY <1>10, <2>2 DEF MapValue
  <2>7. QED
    BY <2>1, <2>4, <2>5, <2>6, TakeStep
<1>11. CASE SetElement
  <2>1. phase = "resume" /\ cont # <<>> /\ Frame.k = "set" /\ IsFrame(Frame)
    BY <1>11, InnermostFrame DEF SetElement, Going
  <2>2. PICK p : Take(1, <<p.key, p.key>>, [Frame EXCEPT !.rest = @ \ {p}, !.n = @ + 1])
    BY <1>11 DEF SetElement
  <2>3. PICK f : f = [Frame EXCEPT !.rest = @ \ {p}, !.n = @ + 1]
    OBVIOUS
  <2>4. f = [k |-> "set", at |-> Frame.at, n |-> Frame.n + 1, rest |-> Frame.rest \ {p}]
    BY <2>1, <2>3 DEF IsFrame
  <2>5. /\ IsFrame(f) /\ f.at = Frame.at /\ Kind(f) = Kind(Frame) /\ Begun(f) = Begun(Frame) + 1
        /\ Height(f) = 3 /\ Height(Frame) = 3
    BY <2>1, <2>4 DEF IsFrame, FrameKinds, Kind, Begun, Height
  <2>6. PICK pushed : pushed = <<p.key, p.key>>
    OBVIOUS
  <2>7. PICK n \in 0 .. 1 : n = 1
    OBVIOUS
  <2>8. IsSeq(pushed) /\ Len(pushed) - n = Height(f) - Height(Frame) + 1
    BY <2>5, <2>6, <2>7, Tuples
  <2>9. Take(n, pushed, f)
    BY <2>2, <2>3, <2>6, <2>7
  <2>10. QED
    BY <2>1, <2>5, <2>8, <2>9, TakeStep
<1>12. CASE ArrayElement
  <2>1. phase = "resume" /\ cont # <<>> /\ Frame.k = "array" /\ IsFrame(Frame)
    BY <1>12, InnermostFrame DEF ArrayElement, Going
  <2>2. PICK v : Take(0, <<v>>, [Frame EXCEPT !.n = @ + 1])
    BY <1>12 DEF ArrayElement
  <2>3. PICK f : f = [Frame EXCEPT !.n = @ + 1]
    OBVIOUS
  <2>4. f = [k |-> "array", at |-> Frame.at, n |-> Frame.n + 1, rest |-> Frame.rest]
    BY <2>1, <2>3 DEF IsFrame
  <2>5. /\ IsFrame(f) /\ f.at = Frame.at /\ Kind(f) = Kind(Frame) /\ Begun(f) = Begun(Frame) + 1
        /\ Height(f) = 1 /\ Height(Frame) = 1
    BY <2>1, <2>4 DEF IsFrame, FrameKinds, Kind, Begun, Height
  <2>6. PICK pushed : pushed = <<v>>
    OBVIOUS
  <2>7. PICK n \in 0 .. 1 : n = 0
    OBVIOUS
  <2>8. IsSeq(pushed) /\ Len(pushed) - n = Height(f) - Height(Frame) + 1
    BY <2>5, <2>6, <2>7, Tuples
  <2>9. Take(n, pushed, f)
    BY <2>2, <2>3, <2>6, <2>7
  <2>10. QED
    BY <2>1, <2>5, <2>8, <2>9, TakeStep
<1>13. CASE EndPairs
  <2>1. phase = "resume" /\ cont # <<>> /\ Frame.k \in {"map", "set"} /\ Finish(3)
    BY <1>13 DEF EndPairs, Going
  <2>2. 3 = Height(Frame)
    BY <2>1 DEF Height
  <2>3. QED
    BY <2>1, <2>2, FinishStep
<1>14. CASE EndArray
  <2>1. phase = "resume" /\ cont # <<>> /\ Frame.k = "array" /\ Finish(1)
    BY <1>14 DEF EndArray, Going
  <2>2. 1 = Height(Frame)
    BY <2>1 DEF Height
  <2>3. QED
    BY <2>1, <2>2, FinishStep
<1>15. CASE Done
  <2>1. /\ phase = "resume" /\ cont = <<>> /\ phase' = "done"
        /\ UNCHANGED <<resp, reply, given, lua, cont, out>>
    BY <1>15 DEF Done
  <2>2. Waiting' = Waiting
    BY <2>1 DEF Waiting
  <2>3. QED
    BY <2>1, <2>2 DEF IInv, InConversion
<1>16. CASE UNCHANGED vars
  <2>1. UNCHANGED <<resp, reply, given, lua, cont, out, phase>>
    BY <1>16 DEF vars
  <2>2. QED
    BY <2>1 DEF IInv, InConversion, Waiting
<1>17. QED
  BY <1>1, <1>2, <1>3, <1>4, <1>5, <1>6, <1>7, <1>8, <1>9, <1>10, <1>11, <1>12, <1>13,
     <1>14, <1>15, <1>16 DEF Next, Convert, Resume

LEMMA Invariant == Spec => []IInv
<1>1. QED
  BY InvInit, InvNext, PTL DEF Spec

-----------------------------------------------------------------------------
(* The theorems.                                                            *)

\* Every container under way has a token of its own in the reply, whose length
\* is not set yet, and a value to be converted is on the stack.
THEOREM ConversionTyped == Spec => []TypeOK
<1>1. IInv => TypeOK
  <2> SUFFICES ASSUME IInv
               PROVE  TypeOK
    OBVIOUS
  <2>1. /\ IsSeq(cont) /\ IsSeq(out) /\ IsSeq(lua)
        /\ DOMAIN cont = 1 .. Len(cont) /\ DOMAIN out = 1 .. Len(out)
    BY AnySeq DEF IInv, FramesOK
  <2>2. \A i \in DOMAIN cont : /\ cont[i].at \in DOMAIN out /\ out[cont[i].at].len = -1
                               /\ cont[i].k \in {"map", "value", "set", "array"}
    <3> TAKE i \in DOMAIN cont
    <3>1. /\ IsFrame(cont[i]) /\ cont[i].at \in 1 .. Len(out)
          /\ out[cont[i].at] = [k |-> Kind(cont[i]), len |-> -1]
      BY <2>1 DEF IInv, FramesOK
    <3>2. out[cont[i].at].len = -1
      BY <3>1
    <3>3. QED
      BY <2>1, <3>1, <3>2 DEF IsFrame, FrameKinds
  <2>3. phase = "convert" => lua # <<>>
    <3> SUFFICES ASSUME phase = "convert"
                 PROVE  lua # <<>>
      OBVIOUS
    <3>1. Heights(cont, Len(lua) - 1) /\ FramesOK(cont, out)
      BY DEF IInv, InConversion, Waiting
    <3>2. Len(lua) \in Nat /\ Len(lua) - 1 \in Nat
      BY <2>1, <3>1, AnySeq, HeightBounds
    <3>3. QED
      BY <3>2, Tuples
  <2>4. QED
    BY <2>2, <2>3 DEF TypeOK, IInv
<1>2. QED
  BY <1>1, Invariant, PTL

\* luajitReplyToServerReply keeps within what lua_checkstack granted it, and
\* leaves the stack as it was below its value, however it goes.
THEOREM StackKeptCorrect == Spec => []StackKept
<1>1. IInv => StackKept
  <2> SUFFICES ASSUME IInv
               PROVE  StackKept
    OBVIOUS
  <2>1. Len(lua) \in Nat /\ (lua = <<>> <=> Len(lua) = 0) /\ FramesOK(cont, out)
    BY AnySeq DEF IInv
  <2>2. CASE phase \in {"call", "raised"}
    BY <2>1, <2>2, LimitAssumption DEF IInv, StackKept
  <2>3. CASE phase \in {"convert", "resume", "done"}
    <3>1. Heights(cont, Len(lua) - Waiting) /\ Waiting \in {0, 1}
      BY <2>3 DEF IInv, InConversion, Waiting
    <3>2. /\ Len(lua) - Waiting \in Nat /\ Len(lua) - Waiting + 1 <= Limit
          /\ cont = <<>> => Len(lua) - Waiting = 0
      BY <2>1, <3>1, HeightBounds
    <3>3. Len(lua) <= Limit
      BY <2>1, <3>1, <3>2, LimitAssumption
    <3>4. phase = "done" => lua = <<>>
      BY <2>1, <3>2 DEF IInv, Waiting
    <3>5. QED
      BY <2>3, <3>3, <3>4 DEF StackKept
  <2>4. QED
    BY <2>2, <2>3 DEF IInv
<1>2. QED
  BY <1>1, Invariant, PTL

\* What luajitReplyToServerReply has written when it returns is one reply: no
\* length is missing and each is the number of the parts that follow.
THEOREM OneReplyWritten == Spec => []OneReply
<1>1. IInv => OneReply
  <2> SUFFICES ASSUME IInv, phase = "done"
               PROVE  IsOneReply(out)
    BY DEF OneReply
  <2>1. /\ cont = <<>> /\ Len(cont) = 0 /\ TokensOK(cont, out) /\ IsSeq(out)
        /\ \E w : Balanced(w, cont, out, 1 - Waiting) /\ Waiting = 0
    BY Tuples DEF IInv, InConversion, Waiting, FramesOK
  <2>2. PICK w : Balanced(w, cont, out, 1)
    <3>1. 1 - 0 = 1
      OBVIOUS
    <3>2. QED
      BY <2>1, <3>1
  <2>3. Len(out) \in Nat /\ DOMAIN out = 1 .. Len(out) /\ 1 .. 0 = {}
    BY <2>1, AnySeq
  <2>4. \A i \in 1 .. Len(out) : w[i] = Arity(out[i])
    BY <2>1, <2>2, <2>3 DEF Balanced
  <2>5. ASSUME NEW i \in 0 .. Len(out)
        PROVE  Announced(out, i) = Given(w, i)
    <3>1. \A j \in 1 .. i : w[j] = Arity(out[j])
      BY <2>3, <2>4
    <3>2. QED
      BY <3>1 DEF Announced, Given
  <2>6. \A i \in DOMAIN out : out[i].k \in Containers => out[i].len \in Nat
    BY <2>1, <2>3 DEF TokensOK
  <2>7. \A i \in 1 .. Len(out) - 1 : Cardinality(Announced(out, i)) >= i
    BY <2>2, <2>3, <2>5 DEF Balanced
  <2>8. Cardinality(Announced(out, Len(out))) = Len(out) - 1
    <3>1. Len(out) \in 0 .. Len(out)
      BY <2>3
    <3>2. /\ Cardinality(Given(w, Len(out))) \in Nat
          /\ Cardinality(Given(w, Len(out))) + 1 = Len(out)
      BY <2>2, <3>1, FS_CardinalityType DEF Balanced
    <3>3. QED
      BY <2>5, <3>1, <3>2
  <2>9. QED
    BY <2>6, <2>7, <2>8 DEF IsOneReply
<1>2. QED
  BY <1>1, Invariant, PTL

\* A simple string and a big number are never broken over two lines: the line
\* breaks of their texts were replaced when they were written.  (Of the text of an
\* error, which is written as it is, this says nothing.)
THEOREM LinesUnbroken == Spec => []OneLiners
<1>1. IInv => OneLiners
  <2> SUFFICES ASSUME IInv
               PROVE  OneLiners
    OBVIOUS
  <2>1. DOMAIN out = 1 .. Len(out)
    BY AnySeq DEF IInv, FramesOK
  <2>2. QED
    BY <2>1 DEF IInv, TokensOK, OneLiners
<1>2. QED
  BY <1>1, Invariant, PTL
=============================================================================
