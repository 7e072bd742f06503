------------------------- MODULE MCReplyConversion -------------------------
(* Instances of ReplyConversion for TLC: replies of two levels, and the    *)
(* tables that could be taken for one kind of reply or another.            *)
EXTENDS ReplyConversion

\* An integer of its own, one of two that become the same double, one whose
\* double is too great for a long long, and the smallest.
Integers == {Integer(1), Integer(5), Integer(7), Integer(-8)}
\* Messages as commands give them: with a line break to trim, with one inside, as
\* an error of the protocol with and without a code, and one that ends early.
Errors == {Text("error", m) : m \in
    {<<"ERR", Space, "a">>, <<"lf", "a", "cr", "lf">>, <<"a", "lf", "a">>, <<Dash, "ERR", Space, "a", "lf">>,
     <<Dash, "a", "lf">>, <<"a", Nul, "a">>, <<"lf">>, <<>>}}
Word(k)  == Text(k, <<"a">>)
Scalars  == Integers \cup Errors \cup {Word("string"), Word("simple"), Null,
                                       Text("string", <<"a", Nul, "lf">>)}
Scalars3 == {Truth(TRUE), Double(Fraction(1)), Word("big_number"), Text("simple", <<"a", Nul, "a">>),
             Verbatim(<<"a", "lf">>, <<"mkd">>)}
Small    == {Word("string"), Integer(5), Integer(7), Word("simple"), Null}
Arrays(es) == {Array(<<>>)} \cup {Array(<<a>>) : a \in es} \cup {Array(<<a, b>>) : a, b \in es}
Maps(es)   == {Map(<<>>)} \cup {Map(<< <<a, b>> >>) : a, b \in es}
              \cup {Map(<< <<Integer(4), a>>, <<k, b>> >>) : a, b \in es, k \in {Integer(4), Integer(5), Word("string")}}
Sets(es)   == {SetOf(s) : s \in {x \in SUBSET es : Cardinality(x) <= 2}}
Nested2    == {Array(<<Integer(5), Null, Word("string")>>), Array(<<Null>>),
               Text("error", <<"a", "lf">>)}
Nested3    == Nested2 \cup {Map(<< <<Word("string"), Null>> >>), SetOf({Null}), Truth(FALSE),
               SetOf({Integer(4), Integer(5)}), Map(<< <<Null, Integer(1)>> >>), Double(Num(1))}
Whole      == [v \in {2, 3} |->
    IF v = 2
    THEN Scalars \cup Arrays(Small) \cup Arrays(Nested2) \cup {Array(<<Array(<<x>>)>>) : x \in Nested2}
    ELSE Scalars \cup Scalars3 \cup Arrays(Small) \cup Maps(Small) \cup Sets(Small)
         \cup Arrays(Nested3) \cup Maps(Nested3) \cup Sets(Nested3)
         \cup {Array(<<Array(<<x>>)>>) : x \in Nested3}]

\* Every part of a reply is one, too.
WithParts(rs) == rs \cup UNION {Parts(r) : r \in rs}
MCReplies  == [v \in {2, 3} |-> WithParts(WithParts(WithParts(Whole[v])))]

MCDepth ==
    LET All == MCReplies[2] \cup MCReplies[3]
        depth[r \in All] == IF Parts(r) = {} THEN 0
                            ELSE 1 + CHOOSE n \in 0 .. 9 : /\ \A part \in Parts(r) : depth[part] <= n
                                                           /\ \E part \in Parts(r) : depth[part] = n
    IN  depth

A      == Str(<<"a">>)
Broken == Str(<<"a", "cr", "lf", Nul, "lf">>)
Keyed(name, v) == Pair(Str(<<name>>), v)
Texts == {A, Broken, Num(1), Num(8), Num(-9), Fraction(1), Bool(TRUE), Other, Table({})}
Tables == {Table(f) : f \in {g \in SUBSET {Keyed(n, v) : n \in {"err", "ok", "map", "set"},
                                                          v \in {Broken, Table({Pair(Num(1), Num(2))}), Num(1)}} :
                                /\ Cardinality(g) <= 2
                                /\ \A p, q \in g : p.key = q.key => p = q}}
Odd == {Single("verbatim_string", Table({Keyed("string", A)})),
        Single("verbatim_string", Table({Keyed("format", A), Keyed("string", Num(1))})),
        Single("verbatim_string", Table({Keyed("format", Broken), Keyed("string", Broken)})),
        Single("double", A), Single("big_number", Broken), Single("big_number", Num(1)),
        Table({Pair(Num(1), Num(1)), Pair(Num(3), Num(3))}),
        Single("set", Table({Pair(Bool(TRUE), Num(1)), Pair(Num(1), Num(1))})),
        Single("map", Table({Pair(Single("set", Table({Pair(A, Num(1))})), Single("map", Table({})))}))}
Deep(v) == Table({Pair(Num(1), Single("map", Table({Pair(Num(1), v)})))})
Deeper(v) == Table({Pair(Num(1), Deep(v))})
MCValues == Texts \cup Tables \cup Odd \cup {Deep(v) : v \in Odd} \cup {Deeper(v) : v \in Odd}

\* x86-64 makes the smallest long long of what none holds.
MCBeyond(n) == -Longest - 1

\* AsDouble is a double, none is nearer, and of two as near the one with an even
\* last digit is taken.
Doubles == {u * k : u \in Units, k \in -Exact .. Exact}
Distance(n, m) == IF n < m THEN m - n ELSE n - m
ASSUME Nearest ==
    \A n \in -Longest - 1 .. Longest :
        /\ AsDouble(n) \in Doubles
        /\ \A d \in Doubles \ {AsDouble(n)} :
               \/ Distance(n, AsDouble(n)) < Distance(n, d)
               \/ Distance(n, AsDouble(n)) = Distance(n, d) /\ (AsDouble(n) \div Unit(n)) % 2 = 0

\* IsOneReply says what a reader of the protocol finds: on every stream of at
\* most five tokens the one holds when the other reads it to its end.
Tokens == {Null} \cup {[k |-> k, len |-> n] : k \in {"array", "map"}, n \in -1 .. 2}
ASSUME ReadersAgree ==
    \A s \in UNION {[1 .. n -> Tokens] : n \in 1 .. 5} :
        IsOneReply(s) <=> Len(Reading(s)[1]) = 1
=============================================================================
