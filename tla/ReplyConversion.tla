-------------------------- MODULE ReplyConversion --------------------------
(***************************************************************************)
(* The two conversions of script_luajit.c around a command: the server's   *)
(* reply becomes a Lua value (callReplyToLuaType), and the value a script  *)
(* returns becomes a reply (luajitReplyToServerReply), written as a stream *)
(* whose lengths are filled in later, with the value on a stack of limited *)
(* height.  The script here returns what the command gave it, or any value *)
(* of its own.  Tables are finite trees without metatables.  A text is a   *)
(* sequence of parts: the bytes the code looks for are parts of their own, *)
(* and what lies between them is one.  A number is whole, or the part      *)
(* before the point of one that is not.                                    *)
(***************************************************************************)
EXTENDS Integers, Sequences, FiniteSets

CONSTANTS
    Replies,   \* the server's replies in each RESP version, their parts included
    Depth,     \* how deep the parts of a reply are nested
    Values,    \* the values scripts make themselves
    Limit,     \* what lua_checkstack allows, LUAI_MAXCSTACK
    Exact,     \* up to here doubles are all the integers, 2^53
    Units,     \* the distances of neighbouring doubles beyond it, powers of two
    Longest,   \* LLONG_MAX
    Beyond(_)  \* what the build's cast makes of a number that no long long holds

\* Lua values.  A table is the set of its pairs, of different keys.
Nil         == [t |-> "nil"]
Bool(b)     == [t |-> "boolean", b |-> b]
Num(n)      == [t |-> "number", n |-> n]
Fraction(n) == [t |-> "number", n |-> n, more |-> TRUE]
Str(s)      == [t |-> "string", s |-> s]
Table(f)    == [t |-> "table", f |-> f]
Other       == [t |-> "function"]
Pair(k, v)  == [key |-> k, val |-> v]
Single(name, v) == Table({Pair(Str(<<name>>), v)})

\* lua_rawget.
Get(v, k) ==
    LET at == {p \in v.f : p.key = k}
    IN  IF at = {} THEN Nil ELSE (CHOOSE p \in at : TRUE).val

Least(S)    == CHOOSE i \in S : \A j \in S : i <= j
Greatest(S) == CHOOSE i \in S : \A j \in S : j <= i

\* The parts of a text that the code looks for.
Nul    == "nul"
Dash   == "-"
Space  == " "
Breaks == {"cr", "lf"}
Unbroken(s) == \A i \in DOMAIN s : s[i] \notin Breaks

\* What C reads of a text: all that comes before a Nul.
CString(s) ==
    LET nuls == {i \in DOMAIN s : s[i] = Nul}
    IN  IF nuls = {} THEN s ELSE SubSeq(s, 1, Least(nuls) - 1)

\* Server replies: a kind with what it holds.  The server sends the pairs of a
\* map in an order; in a map that is read, as in a set, they have none.
Text(k, s)     == [k |-> k, s |-> s]
Verbatim(s, f) == [k |-> "verbatim", s |-> s, format |-> f]
Integer(n)     == [k |-> "integer", n |-> n]
Double(d)      == [k |-> "double", d |-> d]
Truth(b)       == [k |-> "bool", b |-> b]
Null           == [k |-> "null"]
Array(s)       == [k |-> "array", items |-> s]
Map(pairs)     == [k |-> "map", pairs |-> pairs]
SetOf(es)      == [k |-> "set", elems |-> es]

Entries(r) == {r.pairs[i] : i \in DOMAIN r.pairs}

Parts(r) ==
    CASE r.k = "array" -> {r.items[i] : i \in DOMAIN r.items}
      [] r.k = "map" -> {p[1] : p \in Entries(r)} \cup {p[2] : p \in Entries(r)}
      [] r.k = "set" -> r.elems
      [] OTHER -> {}

\* The protocol ends a simple string and a big number with a line break, the
\* format of a verbatim string is a word of three letters, and RESP2 has no
\* booleans.
IsReply(r, version) ==
    \/ r.k \in {"string", "error"} /\ r = Text(r.k, r.s) /\ r.s \in Seq(STRING)
    \/ /\ r.k \in {"simple", "big_number"} /\ r = Text(r.k, r.s)
       /\ r.s \in Seq(STRING) /\ Unbroken(r.s)
    \/ r.k = "verbatim" /\ r = Verbatim(r.s, r.format) /\ CString(r.format) = r.format
    \/ r.k = "integer" /\ r = Integer(r.n) /\ r.n \in -Longest - 1 .. Longest
    \/ r.k = "double" /\ r = Double(r.d) /\ r.d.t = "number"
    \/ r.k = "bool" /\ version = 3 /\ r = Truth(r.b)
    \/ r = Null
    \/ r.k = "array" /\ r = Array(r.items) /\ r.items \in Seq(Replies[version])
    \/ /\ r.k = "map" /\ r = Map(r.pairs)
       /\ r.pairs \in Seq(Replies[version] \X Replies[version])
    \/ r.k = "set" /\ r = SetOf(r.elems) /\ r.elems \subseteq Replies[version]

ASSUME RepliesAssumption ==
    \A version \in {2, 3} : \A r \in Replies[version] : IsReply(r, version)
ASSUME DepthAssumption ==
    \A version \in {2, 3} : \A r \in Replies[version] :
        Depth[r] \in Nat /\ \A part \in Parts(r) : Depth[part] < Depth[r]
ASSUME LimitAssumption == Limit \in Nat \ {0}
\* The doubles reach as far as the long longs.
ASSUME NumbersAssumption ==
    /\ Exact \in Nat /\ Longest \in Nat /\ Exact <= Longest
    /\ Units \subseteq Nat \ {0} /\ 1 \in Units
    /\ \E u \in Units : Longest + 1 <= u * Exact

VARIABLES
    resp,   \* the RESP version of the script
    reply,  \* the command's reply, or Null when the script makes its value
    given,  \* the value returned
    lua,    \* the Lua stack
    cont,   \* the conversions of containers under way, innermost last
    out,    \* the reply written
    phase   \* "call", "convert", "resume", "done", "raised"

vars == <<resp, reply, given, lua, cont, out, phase>>

-----------------------------------------------------------------------------
(* callReplyToLuaType.                                                     *)

NullToLua(version) == IF version = 2 THEN Bool(FALSE) ELSE Nil

\* (lua_Number)val: the nearest double, of two as near the one whose last digit
\* is even.
Unit(n) == Least({u \in Units : n \in -(u * Exact) .. u * Exact})
AsDouble(n) ==
    LET unit  == Unit(n)
        below == n \div unit
        up    == \/ 2 * (n % unit) > unit
                 \/ 2 * (n % unit) = unit /\ below % 2 = 1
    IN  unit * (IF up THEN below + 1 ELSE below)

\* ljm_strtrim of line breaks.
Trim(s) ==
    LET kept == {i \in DOMAIN s : s[i] \notin Breaks}
    IN  IF kept = {} THEN <<>> ELSE SubSeq(s, Least(kept), Greatest(kept))

\* Mutant: a message without a dash gets a code, too.
ErrorTextWithCode(s) == <<"ERR", Space>> \o Trim(CString(s))

\* luajitPushErrorBuff: without the dash, which a code follows up to a space; a
\* dash without a code becomes one.
ErrorText(s) ==
    LET c      == CString(s)
        spaces == {i \in DOMAIN c : c[i] = Space}
        code   == Least(spaces)
    IN  CASE c = <<>> \/ c[1] # Dash -> Trim(c)
          [] c # <<>> /\ c[1] = Dash /\ spaces = {} -> <<"ERR", Space>> \o Tail(c)
          [] OTHER -> SubSeq(c, 2, code) \o Trim(SubSeq(c, code + 1, Len(c)))

ScalarToLua(r, version) ==
    CASE r.k = "string"     -> Str(r.s)
      [] r.k = "simple"     -> Single("ok", Str(r.s))
      [] r.k = "integer"    -> Num(AsDouble(r.n))
      [] r.k = "bool"       -> Bool(r.b)
      [] r.k = "double"     -> Single("double", r.d)
      [] r.k = "big_number" -> Single("big_number", Str(r.s))
      [] r.k = "verbatim"   -> Single("verbatim_string",
                                   Table({Pair(Str(<<"string">>), Str(r.s)),
                                          Pair(Str(<<"format">>), Str(r.format))}))
      [] r.k = "error"      -> Table({Pair(Str(<<"err">>), Str(ErrorText(r.s))),
                                      Pair(Str(<<"ignore_error_stats_update">>), Bool(TRUE))})
      [] OTHER              -> NullToLua(version)

\* lua_settable with a nil value stores nothing.
Stored(pairs) == Table({p \in pairs : p.val # Nil})

\* The entries of a map that stay: of those whose keys are one value the last.
\* (Two tables of the same content are taken for one.)
Winning(r, value) ==
    {r.pairs[i] : i \in {j \in DOMAIN r.pairs :
                           \A l \in DOMAIN r.pairs :
                               l > j => value[r.pairs[l][1]] # value[r.pairs[j][1]]}}

\* The value of a reply, given those of its parts.
ValueOf(r, version, value) ==
    CASE r.k = "array" -> Stored({Pair(Num(i), value[r.items[i]]) : i \in DOMAIN r.items})
      [] r.k = "map" -> Single("map", Stored({Pair(value[p[1]], value[p[2]]) : p \in Winning(r, value)}))
      [] r.k = "set" -> Single("set", Stored({Pair(value[e], Bool(TRUE)) : e \in r.elems}))
      [] OTHER -> ScalarToLua(r, version)

ToLua(version) ==
    LET value[r \in Replies[version]] == ValueOf(r, version, value)
    IN  value

\* A nil key raises: somewhere in the reply a map or a set has one.
HasNilKey(version) ==
    LET isNil(r) == ToLua(version)[r] = Nil
        raises[r \in Replies[version]] ==
            \/ r.k = "map" /\ \E p \in Entries(r) : isNil(p[1])
            \/ r.k = "set" /\ \E e \in r.elems : isNil(e)
            \/ \E part \in Parts(r) : raises[part]
    IN  raises

Return(v) ==
    /\ given' = v
    /\ lua' = <<v>>
    /\ phase' = "convert"

\* The reply of a command that the server has run; an error is handed back by
\* server.pcall.
CommandReply ==
    /\ phase = "call"
    /\ \E r \in Replies[resp] :
           /\ reply' = r
           /\ IF HasNilKey(resp)[r]
              THEN phase' = "raised" /\ UNCHANGED <<given, lua>>
              ELSE Return(ToLua(resp)[r])
    /\ UNCHANGED <<resp, cont, out>>

OwnValue ==
    /\ phase = "call"
    /\ \E v \in Values : Return(v)
    /\ UNCHANGED <<resp, reply, cont, out>>

-----------------------------------------------------------------------------
(* luajitReplyToServerReply, of the value on top of the stack.             *)

Top     == lua[Len(lua)]
Down(n) == SubSeq(lua, 1, Len(lua) - n)

\* Mutant: room for one element less is asked for.
Room3 == 3

\* The elements a conversion may push before it checks again.
Room == 4

HasRoom == Len(lua) + Room <= Limit

\* The value is converted: it is popped and the enclosing container goes on.
Consumed == lua' = Down(1) /\ phase' = "resume" /\ UNCHANGED <<resp, reply, given, cont>>

StackLimit ==
    /\ phase = "convert"
    /\ ~HasRoom
    /\ out' = Append(out, Text("error", <<"stack limit">>))
    /\ Consumed

\* Mutant: the text is written as it is.
OneLineAsIs(s) == CString(s)

\* copy_string_from_lua_stack and strmapchars: line breaks become spaces.
OneLine(s) == [i \in DOMAIN CString(s) |-> IF s[i] \in Breaks THEN Space ELSE s[i]]

\* (long long)lua_tonumber.
LongLong(v) == IF v.n \in -Longest - 1 .. Longest THEN v.n ELSE Beyond(v.n)

BooleanReply(b) ==
    IF resp = 2 THEN (IF b THEN Integer(1) ELSE Null) ELSE Truth(b)

Scalar ==
    /\ phase = "convert"
    /\ HasRoom
    /\ Top.t # "table"
    /\ out' = Append(out, CASE Top.t = "string"  -> Text("string", Top.s)
                            [] Top.t = "boolean" -> BooleanReply(Top.b)
                            [] Top.t = "number"  -> Integer(LongLong(Top))
                            [] OTHER             -> Null)
    /\ Consumed

\* The fields tried, in this order, and the type that makes one count.
Tried == << <<"err", "string">>, <<"ok", "string">>, <<"double", "number">>,
            <<"big_number", "string">>, <<"verbatim_string", "table">>,
            <<"map", "table">>, <<"set", "table">> >>

Field(v, name) == Get(v, Str(<<name>>))
Counts(v, i) ==
    /\ Field(v, Tried[i][1]).t = Tried[i][2]
    /\ Tried[i][1] = "verbatim_string" =>
           \A name \in {"format", "string"} : Field(Field(v, "verbatim_string"), name).t = "string"
Shape(v) ==
    LET is == {i \in DOMAIN Tried : Counts(v, i)}
    IN  IF is = {} THEN "array" ELSE Tried[Least(is)][1]

Converting(shape) == phase = "convert" /\ HasRoom /\ Top.t = "table" /\ Shape(Top) = shape

SingleField ==
    /\ \/ /\ Converting("err")
          /\ out' = Append(out, Text("error", CString(Field(Top, "err").s)))
       \/ /\ Converting("ok")
          /\ out' = Append(out, Text("simple", OneLine(Field(Top, "ok").s)))
       \/ /\ Converting("double")
          /\ out' = Append(out, Double(Field(Top, "double")))
       \/ /\ Converting("big_number")
          /\ out' = Append(out, Text("big_number", OneLine(Field(Top, "big_number").s)))
       \/ /\ Converting("verbatim_string")
          /\ LET v == Field(Top, "verbatim_string")
             IN  out' = Append(out, Verbatim(Field(v, "string").s, CString(Field(v, "format").s)))
    /\ Consumed

\* Mutant: the place is taken before the container's own token is written.
BeginMisplaced(kind, rest, pushed) ==
    /\ out' = Append(out, [k |-> kind, len |-> -1])
    /\ cont' = Append(cont, [k |-> kind, at |-> Len(out), n |-> 0, rest |-> rest])
    /\ lua' = lua \o pushed
    /\ phase' = "resume"
    /\ UNCHANGED <<resp, reply, given>>

\* A container whose length is given when its elements are written: what is
\* left of it, and its place in the reply.
Begin(kind, rest, pushed) ==
    /\ out' = Append(out, [k |-> kind, len |-> -1])
    /\ cont' = Append(cont, [k |-> kind, at |-> Len(out) + 1, n |-> 0, rest |-> rest])
    /\ lua' = lua \o pushed
    /\ phase' = "resume"
    /\ UNCHANGED <<resp, reply, given>>

BeginMap   == Converting("map") /\ LET m == Field(Top, "map") IN Begin("map", m.f, <<m, Nil>>)
BeginSet   == Converting("set") /\ LET s == Field(Top, "set") IN Begin("set", s.f, <<s, Nil>>)
BeginArray == Converting("array") /\ Begin("array", {}, <<>>)

Frame    == cont[Len(cont)]
Going(k) == phase = "resume" /\ cont # <<>> /\ Frame.k = k
\* The next element: what lies above the container, to be converted.
Take(n, pushed, frame) ==
    /\ lua' = Down(n) \o pushed
    /\ cont' = [cont EXCEPT ![Len(cont)] = frame]
    /\ phase' = "convert"
    /\ UNCHANGED <<resp, reply, given, out>>

\* lua_next replaces the key by the next pair; the key is pushed once more.
MapKey ==
    /\ Going("map")
    /\ \E p \in Frame.rest :
           Take(1, <<p.key, p.val, p.key>>,
                [Frame EXCEPT !.k = "value", !.rest = @ \ {p}, !.n = @ + 1])

\* The key is written, its value comes next.
MapValue == Going("value") /\ Take(0, <<>>, [Frame EXCEPT !.k = "map"])

SetElement ==
    /\ Going("set")
    /\ \E p \in Frame.rest :
           Take(1, <<p.key, p.key>>, [Frame EXCEPT !.rest = @ \ {p}, !.n = @ + 1])

ArrayElement ==
    /\ Going("array")
    /\ LET v == Get(Top, Num(Frame.n + 1))
       IN  v # Nil /\ Take(0, <<v>>, [Frame EXCEPT !.n = @ + 1])

\* The length is set, pops elements leave the stack.
Finish(pops) ==
    /\ out' = [out EXCEPT ![Frame.at].len = Frame.n]
    /\ lua' = Down(pops)
    /\ cont' = SubSeq(cont, 1, Len(cont) - 1)
    /\ UNCHANGED <<resp, reply, given, phase>>

\* Mutant: the inner table stays on the stack.
EndPairsShort == Going("set") /\ Frame.rest = {} /\ Finish(1 + 1)

\* lua_next has popped the last key.
EndPairs == (Going("map") \/ Going("set")) /\ Frame.rest = {} /\ Finish(1 + 2)

\* Mutant: the nil counts as an element.
EndArrayCounted ==
    /\ Going("array")
    /\ Get(Top, Num(Frame.n + 1)) = Nil
    /\ out' = [out EXCEPT ![Frame.at].len = Frame.n + 1]
    /\ lua' = Down(1)
    /\ cont' = SubSeq(cont, 1, Len(cont) - 1)
    /\ UNCHANGED <<resp, reply, given, phase>>

EndArray == Going("array") /\ Get(Top, Num(Frame.n + 1)) = Nil /\ Finish(1)

Done ==
    /\ phase = "resume" /\ cont = <<>>
    /\ phase' = "done"
    /\ UNCHANGED <<resp, reply, given, lua, cont, out>>

Init ==
    /\ resp \in {2, 3}
    /\ reply = Null /\ given = Nil
    /\ lua = <<>> /\ cont = <<>> /\ out = <<>>
    /\ phase = "call"

Convert == StackLimit \/ Scalar \/ SingleField \/ BeginMap \/ BeginSet \/ BeginArray
Resume  == MapKey \/ MapValue \/ SetElement \/ ArrayElement \/ EndPairs \/ EndArray \/ Done

Next == CommandReply \/ OwnValue \/ Convert \/ Resume

Spec == Init /\ [][Next]_vars

-----------------------------------------------------------------------------
(* Properties.                                                             *)

\* What is on the stack of a conversion under way was pushed by it.
TypeOK ==
    /\ resp \in {2, 3}
    /\ phase \in {"call", "convert", "resume", "done", "raised"}
    /\ \A i \in DOMAIN cont : /\ cont[i].at \in DOMAIN out /\ out[cont[i].at].len = -1
                              /\ cont[i].k \in {"map", "value", "set", "array"}
    /\ phase = "convert" => lua # <<>>

\* How many replies make up a written one, and the places for those that the
\* first i announce.
Containers == {"array", "map", "set"}
Arity(e) ==
    CASE e.k = "map" -> 2 * e.len
      [] e.k \in {"array", "set"} -> e.len
      [] OTHER -> 0
Announced(s, i) == UNION {{<<j, m>> : m \in 1 .. Arity(s[j])} : j \in 1 .. i}

\* A stream is one reply when every length is set and the parts announced are
\* more than those written until the last part is written, then as many.
IsOneReply(s) ==
    /\ \A i \in DOMAIN s : s[i].k \in Containers => s[i].len \in Nat
    /\ \A i \in 1 .. Len(s) - 1 : Cardinality(Announced(s, i)) >= i
    /\ Cardinality(Announced(s, Len(s))) = Len(s) - 1

\* What a conversion writes is one reply: each length is the number of the
\* elements that follow.
OneReply == phase = "done" => IsOneReply(out)

\* A simple string and a big number, which the protocol ends with a line break,
\* have none.
OneLiners ==
    \A i \in DOMAIN out : out[i].k \in {"simple", "big_number"} => Unbroken(out[i].s)

\* The stack never grows past what lua_checkstack allows, and a conversion,
\* finished or raised, has consumed its value and nothing more.
StackKept == Len(lua) <= Limit /\ (phase \in {"done", "raised"} => lua = <<>>)

\* The reply that a token makes of its parts.
Composed(e, parts) ==
    CASE e.k = "array" -> Array(parts)
      [] e.k = "set" -> SetOf({parts[j] : j \in DOMAIN parts})
      [] e.k = "map" -> Map({<<parts[2 * j - 1], parts[2 * j]>> : j \in 1 .. Len(parts) \div 2})
      [] OTHER -> e

\* A token takes its parts from the replies read behind it.
Enough(e, behind) == Arity(e) \in 0 .. Len(behind)
Taking(e, behind) ==
    <<Composed(e, SubSeq(behind, 1, Arity(e)))>> \o SubSeq(behind, Arity(e) + 1, Len(behind))

\* The replies a stream holds from each place on; none when it ends too early
\* or a length is not set.
Reading(s) ==
    LET end == Len(s) + 1
        from[i \in 1 .. end] ==
            IF i < end /\ Enough(s[i], from[i + 1]) /\ (i + 1 = end \/ from[i + 1] # <<>>)
            THEN Taking(s[i], from[i + 1])
            ELSE <<>>
    IN  from

\* A text that becomes an error message without a change.
Plain(s) ==
    /\ \A i \in DOMAIN s : s[i] # Nul
    /\ s # <<>> => s[1] # Dash /\ s[1] \notin Breaks /\ s[Len(s)] \notin Breaks

LeftOfScalar(r) ==
    CASE r.k = "integer" -> Integer(IF r.n \in -Exact .. Exact THEN r.n
                                    ELSE LongLong(Num(AsDouble(r.n))))
      [] r.k = "error" -> Text("error", IF Plain(r.s) THEN r.s ELSE ErrorText(r.s))
      [] r.k \in {"simple", "big_number"} -> Text(r.k, CString(r.s))
      [] OTHER -> r

\* What is left of a reply that a script hands on: all of it, but that in
\* RESP3 a null ends the array it is in and takes its key out of a map, that an
\* integer is as near as a double comes to it, and two of them one key, that
\* an error message is rewritten, and that a line ends at a Nul.
LeftOf(r, version, left) ==
    CASE r.k = "array" ->
            LET nulls == {i \in DOMAIN r.items : r.items[i] = Null}
                kept  == IF version = 2 \/ nulls = {} THEN Len(r.items) ELSE Least(nulls) - 1
            IN  Array([i \in 1 .. kept |-> left[r.items[i]]])
      [] r.k = "map" ->
            Map({<<left[p[1]], left[p[2]]>> :
                    p \in {q \in Winning(r, ToLua(version)) : version = 3 => q[2] # Null}})
      [] r.k = "set" -> SetOf({left[e] : e \in r.elems})
      [] OTHER -> LeftOfScalar(r)

HandedOn(version) ==
    LET left[r \in Replies[version]] == LeftOf(r, version, left)
    IN  left

\* A script that returns a command's reply answers with what is left of that
\* reply, unless it was cut at the stack limit.
HandsOn ==
    /\ phase = "done" /\ reply # Null
    /\ \A i \in DOMAIN out : out[i] # Text("error", <<"stack limit">>)
    => Reading(out)[1] = <<HandedOn(resp)[reply]>>
=============================================================================
