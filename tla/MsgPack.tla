------------------------------ MODULE MsgPack ------------------------------
(***************************************************************************)
(* The cmsgpack library the engine puts into every Lua state: the encoder  *)
(* (mp_encode_lua_type), the buffer it appends to (mp_buf) and the decoder *)
(* (mp_decode_to_lua_type, mp_unpack_full), as operators on Lua values.    *)
(*                                                                         *)
(* A message is a sequence of units.  A unit is the first byte of an item, *)
(* named by its format with the count or number its low bits hold, or one  *)
(* further byte.  The sizes that separate the formats are constants, so    *)
(* that every header of the format is met with short strings and small     *)
(* tables; the widths 1, 2, 4 and 8 are the code's.                        *)
(***************************************************************************)
EXTENDS LuaValues, Integers, SequencesExt

CONSTANTS FixInt,      \* largest number of a one-byte item (127)
          FixNeg,      \* one-byte items go down to -FixNeg (32)
          FixStr,      \* longest string with a one-byte header (31)
          FixTable,    \* largest table with a one-byte header (15)
          MaxNesting   \* LUACMSGPACK_MAX_NESTING (16)

----------------------------------------------------------------------------
(* Bytes.                                                                  *)

Code(op, n) == <<[op |-> op, n |-> n]>>
Byte(n) == [op |-> "byte", n |-> n]
Digits(n, w) == [i \in 1..w |-> Byte((n \div Radix^(w - i)) % Radix)]
Unsigned(bs) == FoldLeft(LAMBDA acc, b : acc * Radix + b.n, 0, bs)
Wrap(n, w) == IF n >= Radix^w \div 2 THEN n - Radix^w ELSE n
Narrowest(ws, fits(_)) == CHOOSE w \in ws : fits(w) /\ \A u \in ws : fits(u) => w <= u

----------------------------------------------------------------------------
(* Encoding: the sequence of the byte strings handed to mp_buf_append.     *)

EncodeInt(n) ==
  IF n \in -FixNeg..FixInt THEN <<Code("fixint", n)>>
  ELSE IF n >= 0
  THEN LET w == Narrowest({1, 2, 4, 8}, LAMBDA u : n < Radix^u)
       IN  <<Code("uint", w) \o Digits(n, w)>>
  ELSE LET w == Narrowest({1, 2, 4, 8}, LAMBDA u : n >= -(Radix^u \div 2))
       IN  <<Code("int", w) \o Digits(n, w)>>

EncodeDouble(v) == LET w == IF v.narrow THEN 4 ELSE 8 IN <<Code("float", w) \o Digits(v.n, w)>>

\* The header of something with a length: short, or with `w` bytes of length.
Header(fix, long, limit, ws, n) ==
  IF n <= limit THEN <<Code(fix, n)>>
  ELSE LET w == Narrowest(ws, LAMBDA u : n < Radix^u) IN <<Code(long, w) \o Digits(n, w)>>

EncodeBytes(s) == Header("fixraw", "raw", FixStr, {1, 2, 4}, Len(s)) \o <<s>>
EncodeArray(n) == Header("fixarray", "array", FixTable, {2, 4}, n)
EncodeMap(n) == Header("fixmap", "map", FixTable, {2, 4}, n)

\* table_is_an_array: the keys are exactly 1..n (an empty table is a list).
IsArray(v) == /\ \A k \in KeysOf(v) : k.t = "num" /\ k.n >= 1
              /\ \A k \in KeysOf(v) : k.n <= Len(v.e)

RECURSIVE EncodeType(_, _)
EncodeType(v, level) ==
  CASE v.t = "str" -> EncodeBytes(v.s)
    [] v.t = "bool" -> <<Code(IF v.b THEN "true" ELSE "false", 0)>>
    [] v.t = "num" -> EncodeInt(v.n)
    [] v.t = "dbl" -> EncodeDouble(v)
    [] v.t = "tbl" /\ level # MaxNesting ->
         IF IsArray(v)
         THEN EncodeArray(Len(v.e))
              \o FlattenSeq([j \in DOMAIN v.e |-> EncodeType(At(v, Num(j)), level + 1)])
         ELSE EncodeMap(Len(v.e))
              \o FlattenSeq([j \in DOMAIN v.e |-> EncodeType(v.e[j][1], level + 1)
                                                  \o EncodeType(v.e[j][2], level + 1)])
    [] OTHER -> <<Code("nil", 0)>>

----------------------------------------------------------------------------
(* The buffer: `size` is what the allocator gave.                          *)

MpBuf == [size |-> 0, len |-> 0, free |-> 0]

\* Mutant: the new free count forgets the bytes just written.
AppendForgetting(buf, n) ==
  IF buf.free < n
  THEN LET size == 2 * (buf.len + n)
       IN  [size |-> size, len |-> buf.len + n, free |-> size - buf.len]
  ELSE [buf EXCEPT !.len = @ + n, !.free = @ - n]

MpAppend(buf, n) ==
  IF buf.free < n
  THEN LET size == 2 * (buf.len + n)
       IN  [size |-> size, len |-> buf.len + n, free |-> size - buf.len - n]
  ELSE [buf EXCEPT !.len = @ + n, !.free = @ - n]

\* mp_pack empties the buffer after each argument, and keeps its memory.
MpReuse(buf) == [buf EXCEPT !.free = @ + buf.len, !.len = 0]

----------------------------------------------------------------------------
(* Decoding: `s` from the unit at `p`.  What is read beyond the end of the *)
(* message is whatever lies there.                                         *)

\* Mutant: the check of what is left is one short.
HasLeftButOne(s, p, n) == Len(s) - p + 2 >= n

HasLeft(s, p, n) == Len(s) - p + 1 >= n
ReadAt(s, i) == IF i \in DOMAIN s THEN s[i] ELSE [op |-> "beyond", n |-> 0]
Read(s, p, n) == [i \in 1..n |-> ReadAt(s, p + i - 1)]

Decoded(v, next) == [err |-> "none", v |-> v, next |-> next]
Missing == [err |-> "missing bytes", v |-> Nil, next |-> 0]
BadFormat == [err |-> "bad format", v |-> Nil, next |-> 0]
BadKey == [err |-> "index is nil", v |-> Nil, next |-> 0]

\* An item of `n` bytes whose value is in the `n - 1` that follow the first.
Fixed(s, p, n, value(_)) ==
  IF HasLeft(s, p, n) THEN Decoded(value(Read(s, p + 1, n - 1)), p + n) ELSE Missing

\* A string whose header takes `h` units and whose length is `l`.
Raw(s, p, h, l) ==
  IF HasLeft(s, p, h + l) THEN Decoded(Str(Read(s, p + h, l)), p + h + l) ELSE Missing

RECURSIVE DecodeType(_, _), DecodeArray(_, _, _, _, _), DecodeHash(_, _, _, _)

DecodeArray(s, p, index, n, v) ==
  IF index > n THEN Decoded(v, p)
  ELSE LET d == DecodeType(s, p)
       IN  IF d.err # "none" THEN d ELSE DecodeArray(s, d.next, index + 1, n, Set(v, Num(index), d.v))

DecodeHash(s, p, n, v) ==
  IF n = 0 THEN Decoded(v, p)
  ELSE LET k == DecodeType(s, p)
           x == DecodeType(s, k.next)
       IN  IF k.err # "none" THEN k
           ELSE IF x.err # "none" THEN x
           ELSE IF k.v = Nil THEN BadKey
           ELSE DecodeHash(s, x.next, n - 1, Set(v, k.v, x.v))

DecodeType(s, p) ==
  IF ~HasLeft(s, p, 1) THEN Missing
  ELSE LET op == ReadAt(s, p).op
           n == ReadAt(s, p).n
           long == HasLeft(s, p, 1 + n)
           length == Unsigned(Read(s, p + 1, n))
       IN CASE op = "fixint" -> Decoded(Num(n), p + 1)
            [] op = "uint" -> Fixed(s, p, 1 + n, LAMBDA bs :
                                Num(IF n = 8 THEN Wrap(Unsigned(bs), 8) ELSE Unsigned(bs)))
            [] op = "int" -> Fixed(s, p, 1 + n, LAMBDA bs : Num(Wrap(Unsigned(bs), n)))
            [] op = "float" -> Fixed(s, p, 1 + n, LAMBDA bs : Dbl(Unsigned(bs), n = 4))
            [] op = "nil" -> Decoded(Nil, p + 1)
            [] op \in {"true", "false"} -> Decoded(Bool(op = "true"), p + 1)
            [] op = "fixraw" -> Raw(s, p, 1, n)
            [] op = "fixarray" -> DecodeArray(s, p + 1, 1, n, Tbl(<<>>))
            [] op = "fixmap" -> DecodeHash(s, p + 1, n, Tbl(<<>>))
            [] op \in {"raw", "array", "map"} /\ ~long -> Missing
            [] op = "raw" /\ long -> Raw(s, p, 1 + n, length)
            [] op = "array" /\ long -> DecodeArray(s, p + 1 + n, 1, length, Tbl(<<>>))
            [] op = "map" /\ long -> DecodeHash(s, p + 1 + n, length, Tbl(<<>>))
            [] OTHER -> BadFormat

----------------------------------------------------------------------------
(* mp_unpack_full.  A limit of zero at offset zero means everything.       *)

NoOffset == -2

RECURSIVE DecodeMany(_, _, _, _)
DecodeMany(s, p, limit, values) ==
  IF limit = 0 \/ p > Len(s) THEN [err |-> "none", values |-> values, p |-> p]
  ELSE LET d == DecodeType(s, p)
       IN  IF d.err # "none" THEN [err |-> d.err, values |-> <<>>, p |-> p]
           ELSE DecodeMany(s, d.next, limit - 1, Append(values, d.v))

UnpackFull(s, limit, offset) ==
  LET all == limit = 0 /\ offset = 0
      many == DecodeMany(s, offset + 1, IF all THEN Len(s) + 1 ELSE limit, <<>>)
      refused(why) == [err |-> why, values |-> <<>>, offset |-> NoOffset]
  IN  IF offset < 0 \/ limit < 0 THEN refused("invalid request")
      ELSE IF offset > Len(s) THEN refused("offset too large")
      ELSE IF many.err # "none" THEN refused(many.err)
      ELSE [err |-> "none", values |-> many.values,
            offset |-> IF all THEN NoOffset
                       ELSE IF many.p > Len(s) THEN -1 ELSE many.p - 1]

Unpack(s) == UnpackFull(s, 0, 0)
UnpackOne(s, offset) == UnpackFull(s, 1, offset)
UnpackLimit(s, limit, offset) == UnpackFull(s, limit, offset)
=============================================================================
