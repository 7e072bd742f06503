------------------------------- MODULE CJson -------------------------------
(***************************************************************************)
(* The cjson library: its options, its encoder with the string buffer of   *)
(* strbuf.c it writes to, and its decoder with the temporary buffer it     *)
(* collects strings in.                                                    *)
(*                                                                         *)
(* A text is a sequence of symbols: a character, a character above ASCII,  *)
(* the four digits of a \u escape, a number or a word.  Each symbol is as  *)
(* wide as its bytes.  Encoding a value gives the sequence of what it asks *)
(* of the buffer, room or a symbol to write, up to an error.               *)
(***************************************************************************)
EXTENDS LuaValues, Integers, SequencesExt

LOCAL INSTANCE TLC

CONSTANTS DefaultSize,   \* STRBUF_DEFAULT_SIZE (1023)
          NumberRoom     \* FPCONV_G_FMT_BUFSIZE (32)

----------------------------------------------------------------------------
(* Symbols.                                                                *)

\* The code points this text knows, as their characters and as \u digits.
CodePoint == [NUL |-> 0, A |-> 65, Eacute |-> 233, Euro |-> 8364, Linear |-> 65536]
Hex4 == [h0000 |-> 0, h0041 |-> 65, h00E9 |-> 233, h20AC |-> 8364,
         hD800 |-> 55296, hDC00 |-> 56320]

\* codepoint_to_utf8.
Utf8Length(cp) == IF cp <= 127 THEN 1 ELSE IF cp <= 2047 THEN 2 ELSE IF cp <= 65535 THEN 3 ELSE 4

Width(c) == IF c \in DOMAIN CodePoint THEN Utf8Length(CodePoint[c])
            ELSE IF c \in DOMAIN Hex4 THEN 4 ELSE Len(c)
TextWidth(s) == FoldLeft(LAMBDA acc, c : acc + Width(c), 0, s)

\* char2escape and escape2char.
Escapes == ("\"" :> <<"\\", "\"">>) @@ ("\\" :> <<"\\", "\\">>) @@ ("/" :> <<"\\", "/">>)
           @@ ("\n" :> <<"\\", "n">>) @@ ("NUL" :> <<"\\", "u", "h0000">>)
Escaped == ("\"" :> "\"") @@ ("\\" :> "\\") @@ ("/" :> "/") @@ ("n" :> "\n")

Numbers == -3..20
Numeral == [n \in Numbers |-> ToString(n)]
Numerals == {Numeral[n] : n \in Numbers}
\* What strtod reads and JSON does not allow.
OddNumerals == ("+1" :> Num(1)) @@ ("01" :> Num(1)) @@ ("0x2" :> Num(2))
               @@ ("nan" :> NaN) @@ ("inf" :> Infinite)
Spaces == {" ", "\t"}

----------------------------------------------------------------------------
(* The options, with what json_create_config gives them.                   *)

DefaultConfig ==
  [sparse_convert |-> FALSE, sparse_ratio |-> 2, sparse_safe |-> 10,
   encode_depth |-> 1000, decode_depth |-> 1000, encode_invalid |-> "off",
   decode_invalid |-> TRUE, keep |-> TRUE]

\* json_integer_option raises for a number out of the option's range, which
\* -1 stands for.
Refused(arg) == arg = -1

\* json_cfg_encode_sparse_array stores each option before it reads the next:
\* those before a refused one keep their new values.
SparseArray(cfg, convert, ratio, safe) ==
  LET one == [cfg EXCEPT !.sparse_convert = convert]
      two == [one EXCEPT !.sparse_ratio = ratio]
  IN  IF Refused(ratio) THEN one
      ELSE IF Refused(safe) THEN two
      ELSE [two EXCEPT !.sparse_safe = safe]

----------------------------------------------------------------------------
(* strbuf.c.                                                               *)

\* Mutant: the empty length counts the byte of the terminator.
EmptyLengthWhole(buf) == buf.size - buf.len

EmptyLength(buf) == buf.size - buf.len - 1
StrbufOf(len) == [size |-> IF len = 0 THEN DefaultSize ELSE len + 1, len |-> 0]

\* calculate_new_size, for a buffer that must grow.
RECURSIVE Doubled(_, _)
Doubled(size, needed) == IF size >= needed THEN size ELSE Doubled(2 * size, needed)

EnsureEmptyLength(buf, n) ==
  IF n > EmptyLength(buf) THEN [buf EXCEPT !.size = Doubled(@, buf.len + n + 1)] ELSE buf

----------------------------------------------------------------------------
(* Encoding.                                                               *)

Room(n) == [do |-> "room", n |-> n, c |-> ""]
Put(c) == [do |-> "put", n |-> Width(c), c |-> c]
Append1(c) == <<Room(Width(c)), Put(c)>>            \* strbuf_append_char, _mem
AppendAll(s) == FlattenSeq([i \in DOMAIN s |-> Append1(s[i])])

\* json_encode_exception: it frees the buffer, unless the configuration
\* keeps it.  `n` counts that.
Raise(why) == <<[do |-> "raise", n |-> 1, c |-> why]>>

\* Mutant: the depth check leaves the buffer behind.
TooDeepLeaking == <<[do |-> "raise", n |-> 0, c |-> "excessive nesting"]>>

\* The refusal of json_check_encode_depth.
TooDeep == <<[do |-> "raise", n |-> 1, c |-> "excessive nesting"]>>

\* Mutant: control characters are written as they are.
AppendStringRaw(s) == <<Room(TextWidth(s) + 2), Put("\"")>> \o AppendAll(s) \o Append1("\"")

AppendString(s) ==
  <<Room(TextWidth(s) + 2), Put("\"")>>
  \o FlattenSeq([i \in DOMAIN s |-> AppendAll(IF s[i] \in DOMAIN Escapes THEN Escapes[s[i]] ELSE <<s[i]>>)])
  \o Append1("\"")

AppendNumber(v, cfg) ==
  IF v.t = "num" THEN <<Room(NumberRoom), Put(Numeral[v.n])>>
  ELSE CASE cfg.encode_invalid = "off" -> Raise("must not be NaN or Inf")
         [] cfg.encode_invalid = "null" -> Append1("null")
         [] cfg.encode_invalid = "on" /\ v = NaN -> Append1("nan")
         [] OTHER -> <<Room(NumberRoom), Put("inf")>>

IsNumber(v) == v.t \in {"num", "nan", "inf"}
Largest(v) == CHOOSE m \in {k.n : k \in KeysOf(v)} : \A k \in KeysOf(v) : k.n <= m

\* lua_array_length.
Positive(v) == \A k \in KeysOf(v) : k.t = "num" /\ k.n >= 1
Sparse(v, cfg) == /\ v.e # <<>> /\ Positive(v)
                  /\ cfg.sparse_ratio > 0
                  /\ Largest(v) > Len(v.e) * cfg.sparse_ratio
                  /\ Largest(v) > cfg.sparse_safe
ArrayLength(v, cfg) == IF v.e = <<>> \/ ~Positive(v) \/ Sparse(v, cfg) THEN 0 ELSE Largest(v)

Comma(i) == IF i = 1 THEN <<>> ELSE Append1(",")

AppendKey(k, cfg) ==
  CASE IsNumber(k) -> Append1("\"") \o AppendNumber(k, cfg) \o <<Room(2), Put("\""), Put(":")>>
    [] k.t = "str" -> AppendString(k.s) \o Append1(":")
    [] OTHER -> Raise("table key must be a number or string")

RECURSIVE AppendData(_, _, _)
AppendData(v, cfg, depth) ==
  CASE v.t = "str" -> AppendString(v.s)
    [] IsNumber(v) -> AppendNumber(v, cfg)
    [] v.t = "bool" -> Append1(IF v.b THEN "true" ELSE "false")
    [] v \in {Nil, Null} -> Append1("null")
    [] v.t = "tbl" ->
         IF depth + 1 > cfg.encode_depth THEN TooDeep
         ELSE IF Sparse(v, cfg) /\ ~cfg.sparse_convert THEN Raise("excessively sparse array")
         ELSE IF ArrayLength(v, cfg) > 0
         THEN Append1("[")
              \o FlattenSeq([i \in 1..ArrayLength(v, cfg) |->
                               Comma(i) \o AppendData(At(v, Num(i)), cfg, depth + 1)])
              \o Append1("]")
         ELSE Append1("{")
              \o FlattenSeq([i \in DOMAIN v.e |->
                               Comma(i) \o AppendKey(v.e[i][1], cfg) \o AppendData(v.e[i][2], cfg, depth + 1)])
              \o Append1("}")
    [] OTHER -> Raise("type not supported")

\* One request of the encoder; after an error there are no more.  `over` is
\* set when a symbol is written where there is no room for it.
Perform(st, op) ==
  CASE st.err # "none" -> st
    [] st.err = "none" /\ op.do = "room" -> [st EXCEPT !.buf = EnsureEmptyLength(@, op.n)]
    [] st.err = "none" /\ op.do = "put" ->
         [st EXCEPT !.buf.len = @ + op.n, !.text = Append(@, op.c),
                    !.over = @ \/ st.buf.len + op.n > st.buf.size - 1]
    [] st.err = "none" /\ op.do = "raise" -> [st EXCEPT !.err = op.c, !.freed = op.n]

\* json_encode on a reset buffer: the one the configuration keeps, or one of
\* its own, which is freed at the end or by the error.
EncodeJson(v, cfg, kept) ==
  LET end == FoldLeft(Perform,
                      [buf |-> IF cfg.keep THEN [kept EXCEPT !.len = 0] ELSE StrbufOf(0),
                       text |-> <<>>, err |-> "none", freed |-> 0, over |-> FALSE],
                      AppendData(v, cfg, 0))
  IN  IF end.err = "none" THEN [end EXCEPT !.freed = 1] ELSE end

----------------------------------------------------------------------------
(* Decoding: tokens.                                                       *)

\* The text is read as a C string.
CharAt(text, p) == IF p \in DOMAIN text THEN text[p] ELSE "NUL"

Escape(text, p) ==
  IF CharAt(text, p) = "\\" /\ CharAt(text, p + 1) = "u" /\ CharAt(text, p + 2) \in DOMAIN Hex4
  THEN Hex4[CharAt(text, p + 2)] ELSE -1

\* json_append_unicode_escape at the backslash of a \u; -1 is an error.
Unicode(text, p) ==
  LET unit == Escape(text, p)
      low == Escape(text, p + 3)
      high == unit \in 55296..56319
  IN  IF high /\ low \in 56320..57343
      THEN [cp |-> (unit - 55296) * 1024 + (low - 56320) + 65536, next |-> p + 6]
      ELSE [cp |-> IF unit \in 55296..57343 THEN -1 ELSE unit, next |-> p + 3]

CharOf(cp) == CHOOSE c \in DOMAIN CodePoint : CodePoint[c] = cp

\* json_next_string_token, after the quote: what is in the temporary buffer
\* when the string ends or is refused.
RECURSIVE StringToken(_, _, _)
StringToken(text, p, s) ==
  LET c == CharAt(text, p)
      e == CharAt(text, p + 1)
      u == Unicode(text, p)
      refused == [type |-> "error", s |-> s, next |-> p]
  IN  CASE c = "\"" -> [type |-> "string", s |-> s, next |-> p + 1]
        [] c = "NUL" -> refused
        [] c = "\\" /\ e = "u" -> IF u.cp = -1 THEN refused
                                  ELSE StringToken(text, u.next, Append(s, CharOf(u.cp)))
        [] c = "\\" /\ e # "u" -> IF e \notin DOMAIN Escaped THEN refused
                                  ELSE StringToken(text, p + 2, Append(s, Escaped[e]))
        [] OTHER -> StringToken(text, p + 1, Append(s, c))

RECURSIVE SkipSpaces(_, _)
SkipSpaces(text, p) == IF CharAt(text, p) \in Spaces THEN SkipSpaces(text, p + 1) ELSE p

Punctuation == {"{", "}", "[", "]", ",", ":"}
Words == ("true" :> Bool(TRUE)) @@ ("false" :> Bool(FALSE)) @@ ("null" :> Null)

\* json_next_token: a punctuation mark is its own type.
NextToken(text, from, cfg) ==
  LET p == SkipSpaces(text, from)
      c == CharAt(text, p)
      token(type, v) == [type |-> type, v |-> v, next |-> p + 1]
      string == StringToken(text, p + 1, <<>>)
  IN  CASE c \in Punctuation -> token(c, Nil)
        [] c = "NUL" -> [type |-> "end", v |-> Nil, next |-> p]
        [] c = "\"" -> [type |-> string.type, v |-> Str(string.s), next |-> string.next]
        [] c \in Numerals -> token("value", CHOOSE v \in {Num(n) : n \in Numbers} : Numeral[v.n] = c)
        [] c \in DOMAIN OddNumerals /\ cfg.decode_invalid -> token("value", OddNumerals[c])
        [] c \in DOMAIN Words -> token("value", Words[c])
        [] OTHER -> [type |-> "error", v |-> Nil, next |-> p]

----------------------------------------------------------------------------
(* Decoding: values.  The nested calls of json_process_value are the stack *)
(* `open` of the containers they are in, one token a step, and `want` is   *)
(* what the innermost call expects next.  An error, which frees the        *)
(* temporary buffer itself, ends it all.                                   *)

RECURSIVE Tokens(_, _, _)
Tokens(text, p, cfg) ==
  LET token == NextToken(text, p, cfg)
  IN  <<token>> \o IF token.type \in {"end", "error"} THEN <<>> ELSE Tokens(text, token.next, cfg)

Parser == [want |-> "value", open |-> <<>>, v |-> Nil, err |-> "none", freed |-> 0]

ParseError(st) == [st EXCEPT !.err = "parse", !.freed = 1]

\* A value is there: it is the result, or goes into the innermost container.
Complete(st, v) ==
  IF st.open = <<>> THEN [st EXCEPT !.v = v, !.want = "end"]
  ELSE LET c == Last(st.open)
           key == IF c.close = "}" THEN c.key ELSE Num(Len(c.v.e) + 1)
       IN  [st EXCEPT !.open = Append(Front(@), [c EXCEPT !.v = Set(@, key, v)]), !.want = "more"]

\* json_decode_descend, on the way into a container.
Descend(st, close, want, cfg) ==
  IF Len(st.open) + 1 > cfg.decode_depth THEN [st EXCEPT !.err = "depth", !.freed = 1]
  ELSE [st EXCEPT !.open = Append(@, [close |-> close, v |-> Tbl(<<>>), key |-> Nil]), !.want = want]

\* json_decode_ascend, out of the innermost one.
Ascend(st) == Complete([st EXCEPT !.open = Front(@)], Last(st.open).v)

ProcessValue(st, token, cfg) ==
  CASE token.type \in {"string", "value"} -> Complete(st, token.v)
    [] token.type = "{" -> Descend(st, "}", "first key", cfg)
    [] token.type = "[" -> Descend(st, "]", "first element", cfg)
    [] OTHER -> ParseError(st)

\* json_parse_object_context and json_parse_array_context.
InContainer(st, token, cfg) ==
  LET n == Len(st.open)
      close == Last(st.open).close
  IN  CASE st.want \in {"first key", "first element", "more"} /\ token.type = close -> Ascend(st)
        [] st.want = "first element" /\ token.type # close -> ProcessValue(st, token, cfg)
        [] st.want \in {"first key", "key"} /\ token.type = "string" ->
             [st EXCEPT !.open[n].key = token.v, !.want = "colon"]
        [] st.want = "colon" /\ token.type = ":" -> [st EXCEPT !.want = "value"]
        [] st.want = "more" /\ token.type = "," ->
             [st EXCEPT !.want = IF close = "}" THEN "key" ELSE "value"]
        [] OTHER -> ParseError(st)

Parse(st, token, cfg) ==
  CASE st.err # "none" \/ (st.want = "end" /\ token.type = "end") -> st
    [] st.err = "none" /\ st.want = "value" -> ProcessValue(st, token, cfg)
    [] st.err = "none" /\ st.want \notin {"value", "end"} -> InContainer(st, token, cfg)
    [] OTHER -> ParseError(st)

\* The text looks like UTF-16 or UTF-32.
TwoByteText(text) == /\ TextWidth(text) >= 2
                     /\ \/ CharAt(text, 1) = "NUL"
                        \/ Width(text[1]) = 1 /\ CharAt(text, 2) = "NUL"

\* json_decode: the temporary buffer, of the size of the text, is freed by
\* the error or at the end.
DecodeJson(text, cfg) ==
  LET end == FoldLeft(LAMBDA st, token : Parse(st, token, cfg), Parser, Tokens(text, 1, cfg))
  IN  IF TwoByteText(text) THEN [err |-> "encoding", v |-> Nil, freed |-> 0, tmp |-> 0]
      ELSE [err |-> end.err, v |-> end.v,
            freed |-> IF end.err = "none" THEN 1 ELSE end.freed,
            tmp |-> StrbufOf(TextWidth(text)).size]
=============================================================================
