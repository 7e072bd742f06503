------------------------------ MODULE MCCodecs ------------------------------
(***************************************************************************)
(* The values, texts and formats of the run.  Bytes have four values, and  *)
(* the short forms of a message end at 1: every header is met.             *)
(***************************************************************************)
EXTENDS Codecs

Bytes(n) == [i \in 1..n |-> Byte(i % 2)]
S(n) == Str(Bytes(n))
T(e) == Tbl(e)
List(s) == Tbl([i \in DOMAIN s |-> <<Num(i), s[i]>>])

\* Every width of an integer, a string and a table; nesting to the limit and
\* beyond; keys without a format.
Ints == {-32768, -129, -128, -9, -8, -3, -2, -1, 0, 1, 2, 3, 4, 15, 16, 255, 256, 30000}
Deep == List(<<List(<<List(<<Num(1)>>), Num(2)>>), Num(3)>>)
MsgValues ==
  {Num(n) : n \in Ints} \cup {S(n) : n \in {0, 1, 2, 3, 4, 5}}
  \cup {Nil, Other, Null, Bool(TRUE), Bool(FALSE), Dbl(3, TRUE), Dbl(7, FALSE), Deep,
        List([i \in 1..18 |-> Num(1)]), List(<<Num(5)>>), List(<<>>),
        T(<<<<Num(1), Num(7)>>, <<Num(3), S(1)>>>>),
        T(<<<<S(1), Num(2)>>, <<S(2), Other>>>>), T(<<<<Num(0), S(1)>>>>),
        T(<<<<Bool(TRUE), List(<<Num(2)>>)>>, <<Dbl(3, TRUE), Num(1)>>, <<S(0), Nil>>>>),
        T(<<<<Other, Num(1)>>>>), T(<<<<S(1), T(<<<<List(<<>>), Num(1)>>>>)>>>>)}

MCMessageArgs ==
  {<<>>} \cup {<<v>> : v \in MsgValues}
  \cup {<<a, b>> : a \in {Num(-9), S(5), Deep}, b \in {S(0), List(<<S(2)>>), Nil}}
  \cup {<<S(5), Num(300), S(1), Bool(TRUE)>>, <<S(1), T(<<<<Other, Num(1)>>>>)>>}

J(s) == Str(s)
MCJsonValues ==
  {Nil, Null, Other, Bool(TRUE), Bool(FALSE), Num(-3), Num(12), NaN, Infinite,
   J(<<>>), J(<<"a", "\"", "\\", "/">>), J(<<"NUL", "u", "h0000">>), J(<<"Euro", "\n", "Linear">>),
   J(<<"NUL", "NUL", "NUL", "NUL", "NUL">>), J(<<"\\", "u", "h0041">>),
   List(<<>>), List(<<Num(1), J(<<"a">>)>>), List(<<List(<<List(<<>>)>>)>>), List(<<NaN>>),
   T(<<<<Num(2), Num(1)>>>>), T(<<<<Num(12), Num(1)>>>>), T(<<<<Num(0), Num(1)>>, <<Num(1), Nil>>>>),
   T(<<<<J(<<"\"">>), List(<<Num(1)>>)>>, <<Num(3), T(<<<<J(<<"a">>), Null>>>>)>>>>),
   T(<<<<Bool(TRUE), Num(1)>>>>), T(<<<<J(<<>>), Other>>>>)}

Quoted(s) == <<"\"">> \o s \o <<"\"">>
MCJsonTexts ==
  {<<>>, <<"NUL", "1">>, <<"1", "NUL">>, <<"12", "NUL", "2">>, <<" ", "1", " ", "]">>, <<"x">>, <<"1", ",">>,
   <<"+1">>, <<"01">>, <<"nan">>, <<"[", "inf", "]">>, <<"0x2">>,
   <<"[", "]">>, <<"[", "[", "[", "1", "]", "]", "]">>, <<"[", "1", ",", "]">>, <<"[", "1", " ", "2", "]">>,
   <<"{", "}">>, <<"{", "1", ":", "2", "}">>, <<"{", "\"", "a", "\"", "1", "}">>,
   <<"{", "\"", "a", "\"", ":", "1", ",", "\"", "a", "\"", ":", "{", "}", "}">>,
   <<"{", "\"", "a", "\"", ":", "}">>, <<"{", "\"", "a", "\"", ":", "1", "]">>,
   <<"[", "\"">>, Quoted(<<"a", "NUL">>), Quoted(<<"\\", "x">>), Quoted(<<"\\">>), Quoted(<<"\\", "\"", "\\", "/">>),
   Quoted(<<"\\", "u", "a">>), Quoted(<<"\\", "u", "h20AC", "\\", "u", "h00E9">>),
   Quoted(<<"\\", "u", "hD800", "\\", "u", "hDC00">>), Quoted(<<"\\", "u", "hD800", "\\", "u", "h0041">>),
   Quoted(<<"\\", "u", "hDC00">>), Quoted(<<"\\", "u", "hD800", "a">>), Quoted(<<"\n", "Linear", "h0041">>)}

MCOptions ==
  {[option |-> "encode_depth", to |-> 2], [option |-> "decode_depth", to |-> 1],
   [option |-> "encode_invalid", to |-> "on"], [option |-> "encode_invalid", to |-> "null"],
   [option |-> "decode_invalid", to |-> FALSE]}

\* The option `o` without a number, and with one.
Plain(o) == Opt(o, NoNumber)
F(fmt, args) == [fmt |-> fmt, args |-> args]
Text(n) == Str([i \in 1..n |-> 1 + (i % 3)])
Numbered == {F(<<e, Opt(o, n)>>, <<Num(v)>>) : e \in {Plain("<"), Plain(">")}, o \in {"i", "I"},
                                              n \in {1, 2, 3}, v \in {-9, -1, 0, 1, 2, 7, 31, 70}}
MCFormats ==
  Numbered
  \cup {F(<<Plain(o)>>, <<Num(v)>>) : o \in Integers8 \cup {"f", "d"}, v \in {1, 3}}
  \cup {F(<<Plain("!"), Plain("b"), Plain(o)>>, <<Num(1), Num(2)>>) : o \in {"h", "I", "l", "d", "B"}}
  \cup {F(<<Opt("!", 2), Plain("b"), Plain("i"), Plain("x"), Plain("h")>>, <<Num(1), Num(-2), Num(3)>>),
        F(<<Opt("!", 4), Plain("b"), Opt("i", 3), Plain("s")>>, <<Num(1), Num(-2), Text(2)>>),
        F(<<Opt("!", 3), Plain("b")>>, <<Num(1)>>), F(<<Opt("i", 33)>>, <<Num(1)>>),
        F(<<Plain("b"), Plain("z")>>, <<Num(1)>>), F(<<Plain("b")>>, <<Text(1)>>), F(<<Plain("d")>>, <<>>),
        F(<<Plain("s"), Plain(" "), Plain("b")>>, <<Text(3), Num(1)>>), F(<<Plain("s")>>, <<Num(1)>>),
        F(<<Plain("s"), Plain("c"), Opt("c", 2)>>, <<Text(0), Text(2), Text(3)>>),
        F(<<Opt("c", 3)>>, <<Text(2)>>),
        F(<<Plain("b"), Opt("c", 0), Plain("h")>>, <<Num(1), Text(1), Num(9)>>),
        F(<<Plain("h"), Opt("c", 0)>>, <<Num(3), Text(3)>>), F(<<>>, <<>>)}

\* Messages around the ends of blocks and of the count's lower word.
MCDigestArgs ==
  {<<>>, <<Other>>, <<Nil, Nil>>}
  \cup {<<Str([i \in 1..n |-> 1 + (i % 251)])>> :
          n \in (0..3) \cup (53..66) \cup (117..130) \cup {191, 192, 255, 256, 300}}

MCMessages == {<<>>} \cup {args[1].s : args \in {a \in MCDigestArgs : Len(a) = 1 /\ a[1].t = "str"}}

MCSeeds == (-128..-125) \cup (-18..18) \cup {100, 126, 127}
MCRandomArgs == {<<>>, <<Num(1)>>, <<Num(6)>>, <<Num(127)>>, <<Num(0)>>, <<Num(-5), Num(5)>>,
                 <<Num(2), Num(1)>>, <<Other>>, <<Num(1), Num(2), Num(3)>>}
MCA == <<13, 12, 5>>
MCX == <<14, 13, 4>>
=============================================================================
