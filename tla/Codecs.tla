------------------------------- MODULE Codecs -------------------------------
(***************************************************************************)
(* A script at work with one of its libraries.  It packs values with       *)
(* cmsgpack and reads them back at once or item by item, from the whole    *)
(* message or a part of it; or it sets cjson's options, encodes and        *)
(* decodes, its own values, texts from elsewhere and what it decoded, call *)
(* after call, as the options and the kept buffer outlive a call; or it    *)
(* packs with struct and reads back, behind a prefix or from a part; or it *)
(* asks for a digest, or seeds and draws random numbers from the one       *)
(* generator that all states of the process share.                         *)
(***************************************************************************)
EXTENDS MsgPack, CJson, StructPack, Sha1, Drand48, FiniteSets

CONSTANTS MessageArgs,   \* the arguments of pack
          JsonValues,    \* what is encoded
          JsonTexts,     \* texts that come from elsewhere
          Options,       \* the options scripts set: [option, to]
          MaxChanges,    \* bound on changed options
          Formats,       \* formats and arguments of struct.pack
          DigestArgs     \* the arguments of sha1hex

VARIABLES at,        \* the library, or what was done last
          input,     \* what was packed or encoded
          buf,       \* cmsgpack's buffer
          message,   \* the bytes or the text
          ends,      \* where in the message its items end
          offset,    \* where reading goes on
          result,    \* what the last call gave
          cfg,       \* cjson's options
          kept,      \* cjson's kept buffer
          lost,      \* private buffers not freed
          changes    \* options changed so far

mpVars == <<buf, ends, offset>>
jsVars == <<cfg, kept, lost, changes>>
vars == <<at, input, message, result, mpVars, jsVars, shaVars, rngVars>>

NoBuffer == [size |-> 0, len |-> 0]

Init ==
  /\ at \in {"cmsgpack", "cjson", "struct", "server", "math"}
  /\ input = Nil /\ message = <<>> /\ result = Nil
  /\ buf = MpBuf /\ ends = <<>> /\ offset = 0
  /\ cfg = DefaultConfig /\ kept = StrbufOf(0) /\ lost = 0 /\ changes = 0
  /\ ShaInit /\ RngInit

----------------------------------------------------------------------------
(* cmsgpack.                                                               *)

\* mp_pack: without arguments it raises before there is a buffer.
Pack(args) ==
  /\ at = "cmsgpack"
  /\ at' = IF args = <<>> THEN "raised" ELSE "packing"
  /\ input' = args /\ buf' = MpBuf
  /\ UNCHANGED <<message, ends, offset, result, jsVars, shaVars, rngVars>>

EncodeArgument ==
  /\ at = "packing"
  /\ LET parts == EncodeType(input[Len(ends) + 1], 0)
     IN  /\ buf' = FoldLeft(LAMBDA b, part : MpAppend(b, Len(part)), buf, parts)
         /\ message' = message \o FlattenSeq(parts)
         /\ ends' = Append(ends, Len(message'))
  /\ at' = "encoded argument"
  /\ UNCHANGED <<input, offset, result, jsVars, shaVars, rngVars>>

\* The argument's bytes are pushed and the buffer is used again, or freed.
PushArgument ==
  /\ at = "encoded argument"
  /\ IF Len(ends) < Len(input)
     THEN at' = "packing" /\ buf' = MpReuse(buf)
     ELSE at' = "packed" /\ buf' = MpBuf
  /\ UNCHANGED <<input, message, ends, offset, result, jsVars, shaVars, rngVars>>

\* What arrives is a part of what was packed.
Cut ==
  /\ at = "packed"
  /\ \E n \in 0..Len(message) - 1 : message' = SubSeq(message, 1, n)
  /\ at' = "cut"
  /\ UNCHANGED <<input, result, mpVars, jsVars, shaVars, rngVars>>

UnpackAll ==
  /\ at \in {"packed", "cut"}
  /\ result' = Unpack(message)
  /\ at' = "unpacked"
  /\ UNCHANGED <<input, message, mpVars, jsVars, shaVars, rngVars>>

\* unpack_one or unpack_limit from the offset of the call before, until that
\* is -1 or the call raises; the script keeps what it has got.
UnpackNext ==
  /\ at \in {"packed", "cut", "reading"}
  /\ \E r \in {UnpackOne(message, offset), UnpackLimit(message, 2, offset)} :
       LET before == IF at = "reading" THEN result.values ELSE <<>>
       IN  /\ result' = [r EXCEPT !.values = before \o @]
           /\ offset' = IF r.err = "none" THEN r.offset ELSE offset
           /\ at' = IF r.err = "none" /\ r.offset # -1 THEN "reading" ELSE "unpacked"
  /\ UNCHANGED <<input, message, buf, ends, jsVars, shaVars, rngVars>>

----------------------------------------------------------------------------
(* cjson.                                                                  *)

Change ==
  /\ at = "cjson" /\ changes < MaxChanges
  /\ changes' = changes + 1
  /\ UNCHANGED <<at, input, message, result, mpVars, lost, shaVars, rngVars>>

SetOption(o) ==
  /\ Change
  /\ cfg' = [cfg EXCEPT ![o.option] = o.to]
  /\ UNCHANGED kept

\* json_cfg_encode_sparse_array with a convert flag, a ratio and a limit.
SetSparseArray(convert, ratio, safe) ==
  /\ Change
  /\ cfg' = SparseArray(cfg, convert, ratio, safe)
  /\ UNCHANGED kept

\* json_cfg_encode_keep_buffer.
KeepBuffer(keep) ==
  /\ Change
  /\ cfg' = [cfg EXCEPT !.keep = keep]
  /\ kept' = IF keep = cfg.keep THEN kept ELSE IF keep THEN StrbufOf(0) ELSE NoBuffer

Encode(v) ==
  /\ LET e == EncodeJson(v, cfg, kept)
     IN  /\ result' = [err |-> e.err, over |-> e.over]
         /\ message' = e.text
         /\ kept' = IF cfg.keep THEN e.buf ELSE kept
         /\ lost' = IF cfg.keep THEN lost ELSE lost + 1 - e.freed
         /\ at' = IF e.err = "none" THEN "json text" ELSE "json raised"
  /\ input' = v
  /\ UNCHANGED <<mpVars, cfg, changes, shaVars, rngVars>>

EncodeOwn(v) == at = "cjson" /\ Encode(v)
\* The script encodes what it decoded.
EncodeAgain == at = "json decoded" /\ Encode(result.v)

Decode(text) ==
  /\ LET d == DecodeJson(text, cfg)
     IN  /\ result' = d
         /\ lost' = IF d.tmp = 0 THEN lost ELSE lost + 1 - d.freed
         /\ at' = IF d.err = "none" THEN "json decoded" ELSE "json raised"
  /\ message' = text
  /\ UNCHANGED <<mpVars, cfg, kept, changes, shaVars, rngVars>>

DecodeOwn == at = "json text" /\ Decode(message) /\ UNCHANGED input
DecodeOther(text) == at = "cjson" /\ Decode(text) /\ input' = Other

\* The next call: nothing of this one is left but options and buffers.
NextCall ==
  /\ at \in {"json raised", "json decoded"}
  /\ at' = "cjson" /\ input' = Nil /\ message' = <<>> /\ result' = Nil
  /\ UNCHANGED <<mpVars, jsVars, shaVars, rngVars>>

----------------------------------------------------------------------------
(* struct.                                                                 *)

PackFormat(f) ==
  /\ at = "struct"
  /\ LET h == StructPack(f.fmt, f.args)
     IN  /\ result' = [err |-> h.err]
         /\ message' = h.out
         /\ at' = IF h.err = "none" THEN "struct packed" ELSE "raised"
  /\ input' = f
  /\ UNCHANGED <<mpVars, jsVars, shaVars, rngVars>>

\* unpack, of all the bytes behind a prefix of n, or of their first n.
UnpackBehind(n) ==
  /\ at = "struct packed"
  /\ result' = StructUnpack(input.fmt, [i \in 1..n |-> 1] \o message, n)
  /\ at' = "struct unpacked" /\ offset' = n
  /\ UNCHANGED <<input, message, buf, ends, jsVars, shaVars, rngVars>>

UnpackPart ==
  /\ at = "struct packed"
  /\ \E n \in 0..Len(message) - 1 : result' = StructUnpack(input.fmt, SubSeq(message, 1, n), 0)
  /\ at' = "struct cut"
  /\ UNCHANGED <<input, message, mpVars, jsVars, shaVars, rngVars>>

----------------------------------------------------------------------------
(* server.sha1hex.                                                         *)

\* One argument; one that is no string is hashed as the empty one.
Sha1hex(args) ==
  /\ at = "server"
  /\ IF Len(args) = 1
     THEN Begin(IF args[1].t = "str" THEN args[1].s ELSE <<>>) /\ at' = "digesting"
     ELSE at' = "raised" /\ UNCHANGED shaVars
  /\ input' = args
  /\ UNCHANGED <<message, result, mpVars, jsVars, rngVars>>

Digest ==
  /\ at = "digesting" /\ (PadOne \/ PadZero \/ PadCount)
  /\ UNCHANGED <<at, input, message, result, mpVars, jsVars, rngVars>>

----------------------------------------------------------------------------
(* math.                                                                   *)

Seed(s) ==
  /\ at = "math" /\ RandomSeed(s)
  /\ UNCHANGED <<at, input, message, result, mpVars, jsVars, shaVars>>

Draw(args) ==
  /\ at = "math" /\ Random(args)
  /\ UNCHANGED <<at, input, message, result, mpVars, jsVars, shaVars>>

----------------------------------------------------------------------------
Next ==
  \/ \E args \in MessageArgs : Pack(args)
  \/ EncodeArgument \/ PushArgument \/ Cut \/ UnpackAll \/ UnpackNext
  \/ \E o \in Options : SetOption(o)
  \/ \E convert \in BOOLEAN, ratio \in {-1, 0}, safe \in {-1, 1} : SetSparseArray(convert, ratio, safe)
  \/ \E keep \in BOOLEAN : KeepBuffer(keep)
  \/ \E v \in JsonValues : EncodeOwn(v)
  \/ EncodeAgain \/ DecodeOwn \/ NextCall
  \/ \E text \in JsonTexts : DecodeOther(text)
  \/ \E f \in Formats : PackFormat(f)
  \/ \E n \in {0, 1, 8} : UnpackBehind(n)
  \/ UnpackPart
  \/ \E args \in DigestArgs : Sha1hex(args)
  \/ Digest
  \/ \E s \in Seeds : Seed(s)
  \/ \E args \in RandomArgs : Draw(args)

Spec == Init /\ [][Next]_vars

----------------------------------------------------------------------------
(* What cmsgpack promises.                                                 *)

\* A value as it comes back: what has no format is nil, as is a table at the
\* nesting limit, and an entry whose value is nil is gone.
RECURSIVE Image(_, _)
Image(v, level) ==
  CASE v.t \in {"other", "null"} -> Nil
    [] v.t = "tbl" /\ level = MaxNesting -> Nil
    [] v.t = "tbl" /\ level # MaxNesting ->
         [t |-> "tbl",
          f |-> {<<Image(v.e[i][1], level + 1), Image(v.e[i][2], level + 1)>> :
                   i \in {j \in DOMAIN v.e : Image(v.e[j][2], level + 1) # Nil}}]
    [] OTHER -> v

\* A table with a key that comes back as nil cannot be read back.
RECURSIVE HasNilKey(_, _)
HasNilKey(v, level) ==
  /\ v.t = "tbl" /\ level # MaxNesting
  /\ \E i \in DOMAIN v.e : \/ Image(v.e[i][1], level + 1) = Nil
                           \/ HasNilKey(v.e[i][1], level + 1)
                           \/ HasNilKey(v.e[i][2], level + 1)

\* What was packed comes back, all at once or item by item, each item once,
\* in order, and reading stops at the end; a message that ends inside an item
\* is refused and nothing behind it is read; a value with a key that has no
\* format is refused.
PackRoundTrips ==
  at \in {"reading", "unpacked"} =>
    LET got == result.values
        items == {i \in DOMAIN ends : ends[i] <= Len(message)}
        broken == Len(message) \notin {ends[i] : i \in DOMAIN ends} \cup {0}
        nilKey == \E i \in DOMAIN input : HasNilKey(input[i], 0)
    IN  /\ \A i \in DOMAIN got : i \in items /\ Content(got[i]) = Image(input[i], 0)
        /\ at = "unpacked" /\ ~nilKey =>
             /\ result.err = IF broken THEN "missing bytes" ELSE "none"
             /\ ~broken => Len(got) = Cardinality(items)
        /\ at = "unpacked" /\ nilKey /\ ~broken /\ items = DOMAIN input =>
             result.err = "index is nil"

----------------------------------------------------------------------------
(* What cjson promises.                                                    *)

\* A table that is a list, with holes if there are not too many.
IsList(v) ==
  LET index == {k.n : k \in KeysOf(v)}
      dense(n) == n <= cfg.sparse_safe \/ n <= Cardinality(index) * cfg.sparse_ratio
  IN  /\ v.e # <<>> /\ \A k \in KeysOf(v) : k.t = "num"
      /\ \A n \in index : n > 0 /\ (cfg.sparse_ratio = 0 \/ dense(n))

\* A value as it comes back.
RECURSIVE JsonImage(_)
JsonImage(v) ==
  CASE v = Nil -> Null
    [] v.t \in {"nan", "inf"} -> IF cfg.encode_invalid = "null" THEN Null ELSE v
    [] v.t = "tbl" ->
         IF IsList(v)
         THEN [t |-> "tbl", f |-> {<<Num(i), JsonImage(At(v, Num(i)))>> : i \in 1..Largest(v)}]
         ELSE [t |-> "tbl",
               f |-> {<<IF kv[1].t = "num" THEN Str(<<Numeral[kv[1].n]>>) ELSE kv[1], JsonImage(kv[2])>> :
                        kv \in {v.e[i] : i \in DOMAIN v.e}}]
    [] OTHER -> v

RECURSIVE DepthOf(_)
DepthOf(v) ==
  IF v.t # "tbl" THEN 0
  ELSE LET inner == {DepthOf(v.e[i][2]) : i \in DOMAIN v.e} \cup {0}
       IN  1 + (CHOOSE d \in inner : \A e \in inner : e <= d)

RECURSIVE HasOdd(_)
HasOdd(v) == \/ v.t \in {"nan", "inf"}
             \/ v.t = "tbl" /\ \E i \in DOMAIN v.e : HasOdd(v.e[i][2])

\* What was encoded decodes, under the same options, to the same value: nil
\* and the holes of a list are null, numbers that are keys are text; it is
\* refused only for its depth, or for numbers that JSON does not have.
JsonRoundTrips ==
  at \in {"json decoded", "json raised"} /\ input # Other /\ "tmp" \in DOMAIN result =>
    LET deep == DepthOf(input) > cfg.decode_depth
        odd == HasOdd(input) /\ cfg.encode_invalid = "on" /\ ~cfg.decode_invalid
    IN  IF deep \/ odd THEN result.err # "none"
        ELSE result.err = "none" /\ Content(result.v) = JsonImage(input)

\* Every byte the encoder writes has room, with one more for a terminator;
\* every string in a text fits the temporary buffer, whatever the text; and
\* the counts of cmsgpack's buffer, from which it reckons the room for its
\* writes, make up the memory the allocator gave.
BuffersFit ==
  /\ at = "json text" => ~result.over
  /\ at \in {"json decoded", "json raised"} /\ "tmp" \in DOMAIN result /\ result.tmp > 0 =>
       \A p \in DOMAIN message :
         message[p] = "\"" => TextWidth(StringToken(message, p + 1, <<>>).s) < result.tmp
  /\ buf.len + buf.free = buf.size

\* Whatever call raises, no private buffer is lost or freed twice, and the
\* kept buffer is there when, and only when, the options keep one.
JsonBuffersFreed == lost = 0 /\ (kept # NoBuffer <=> cfg.keep)

----------------------------------------------------------------------------
(* What struct promises.                                                   *)

\* The number that an integer option gives back: the one of its width that
\* has the same bytes.
Reduced(n, opt) ==
  LET range == Radix^OptSize(opt)
      low == IF opt.o \in SignedOnes THEN -(range \div 2) ELSE 0
  IN  CHOOSE m \in low..low + range - 1 : (m - n) % range = 0

WantOption(h, opt, args) ==
  LET take(v) == [out |-> Append(h.out, v), arg |-> h.arg + 1]
      arg == args[h.arg]
  IN  CASE opt.o \in Integers8 -> take(Num(Reduced(arg.n, opt)))
        [] opt.o \in {"f", "d"} -> take(arg)
        [] opt.o = "s" -> take(arg)
        [] opt.o = "c" /\ OptSize(opt) > 0 -> take(Str(SubSeq(arg.s, 1, OptSize(opt))))
        [] opt.o = "c" /\ OptSize(opt) = 0 -> [out |-> Append(Front(h.out), arg), arg |-> h.arg + 1]
        [] OTHER -> h

Want(f) == FoldLeft(LAMBDA h, opt : WantOption(h, opt, f.args), [out |-> <<>>, arg |-> 1], f.fmt).out

\* What was packed is unpacked, from any position that keeps the alignment,
\* up to the end of the bytes; a part of it is refused and nothing behind it
\* is read; a fixed size is the length of what is packed.
StructRoundTrips ==
  LET aligned == offset % MaxAlign = 0 \/ \A i \in DOMAIN input.fmt : input.fmt[i].o # "!"
  IN  /\ at = "struct unpacked" /\ aligned =>
           /\ result.err = "none" /\ result.out = Want(input)
           /\ result.pos = offset + Len(message)
      /\ at = "struct cut" => result.err # "none"
      /\ at = "struct packed" /\ StructSize(input.fmt).err = "none" =>
           StructSize(input.fmt).pos = Len(message)
=============================================================================
