----------------------------- MODULE StructPack -----------------------------
(***************************************************************************)
(* The struct library: b_pack, b_unpack and b_size on a format, which is a *)
(* sequence of options.  An option is its letter and the number behind it, *)
(* NoNumber when there is none.  The widths are the code's on a 64-bit     *)
(* build; a byte has Radix values.                                         *)
(***************************************************************************)
EXTENDS LuaValues, Integers, SequencesExt

LOCAL INSTANCE Bitwise

NoNumber == -1
Opt(o, n) == [o |-> o, n |-> n]

SignedOnes == {"b", "h", "l", "i"}
Integers8 == SignedOnes \cup {"B", "H", "L", "T", "I"}
Alphanumeric == Integers8 \cup {"f", "d", "x", "c", "s", "z"}

\* getnum and optsize.
OptSize(opt) ==
  CASE opt.o \in {"b", "B", "x"} -> 1
    [] opt.o \in {"h", "H"} -> 2
    [] opt.o = "f" -> 4
    [] opt.o \in {"l", "L", "T", "d"} -> 8
    [] opt.o \in {"i", "I"} -> IF opt.n = NoNumber THEN 4 ELSE opt.n
    [] opt.o = "c" -> IF opt.n = NoNumber THEN 1 ELSE opt.n
    [] OTHER -> 0

MaxIntSize == 32
TooWide(opt) == opt.o \in {"i", "I"} /\ opt.n > MaxIntSize

\* isp2, of an int.
PowerOfTwo(n) == \E e \in 0 .. 30 : n = 2 ^ e
MaxAlign == 8

\* gettoalign.
ToAlign(pos, align, opt) ==
  LET size == IF OptSize(opt) > align THEN align ELSE OptSize(opt)
  IN  IF size = 0 \/ opt.o = "c" THEN 0 ELSE (size - (pos & (size - 1))) & (size - 1)

\* controloptions: the new order and alignment, or an error.
Control(h, opt) ==
  LET align == IF opt.n = NoNumber THEN MaxAlign ELSE opt.n
  IN  CASE opt.o = ">" -> [h EXCEPT !.big = TRUE]
        [] opt.o = "<" -> [h EXCEPT !.big = FALSE]
        [] opt.o = " " -> h
        [] opt.o = "!" /\ PowerOfTwo(align) -> [h EXCEPT !.align = align]
        [] opt.o = "!" /\ ~PowerOfTwo(align) -> [h EXCEPT !.err = "not a power of 2"]
        [] OTHER -> [h EXCEPT !.err = "invalid format option"]

----------------------------------------------------------------------------
(* Bytes.                                                                  *)

Zeros(n) == [i \in 1..n |-> 0]
InOrder(big, bs) == IF big THEN bs ELSE Reverse(bs)

\* putinteger: the value as an unsigned word of 8 bytes, cut to the size.
PutInteger(n, big, size) ==
  InOrder(big, [i \in 1..size |-> ((n % Radix^8) \div Radix^(size - i)) % Radix])

\* getinteger, with the sign bit of the size for the lower-case options.
GetInteger(bs, big, signed) ==
  LET n == FoldLeft(LAMBDA acc, b : acc * Radix + b, 0, InOrder(big, bs))
  IN  IF signed /\ n >= Radix^Len(bs) \div 2 THEN n - Radix^Len(bs) ELSE n

\* The bytes of a float or a double, which stand for its number.
PutFloat(n, big, size) == InOrder(big, [i \in 1..size |-> (n \div Radix^(size - i)) % Radix])

----------------------------------------------------------------------------
(* b_pack, one option at a time.  `h` holds the state of the call.         *)

Start(pos) == [big |-> FALSE, align |-> 1, err |-> "none", pos |-> pos, out |-> <<>>, arg |-> 1]

Emit(h, bs, args) == [h EXCEPT !.out = @ \o bs, !.pos = @ + Len(bs), !.arg = @ + args]
Fail(h, why) == [h EXCEPT !.err = why]

PackText(h, opt, s) ==
  LET size == IF OptSize(opt) = 0 THEN Len(s) ELSE OptSize(opt)
  IN  IF Len(s) < size THEN Fail(h, "string too short")
      ELSE Emit(h, SubSeq(s, 1, size) \o IF opt.o = "s" THEN <<0>> ELSE <<>>, 1)

PackOption(h, opt, args) ==
  LET pad == Emit(h, Zeros(ToAlign(h.pos, h.align, opt)), 0)
      given == h.arg \in DOMAIN args
  IN  CASE h.err # "none" -> h
        [] h.err = "none" /\ TooWide(opt) -> Fail(h, "integral size larger than limit")
        [] h.err = "none" /\ opt.o \in Integers8 /\ ~TooWide(opt) ->
             IF given /\ args[h.arg].t = "num"
             THEN Emit(pad, PutInteger(args[h.arg].n, h.big, OptSize(opt)), 1)
             ELSE Fail(h, "number expected")
        [] h.err = "none" /\ opt.o \in {"f", "d"} ->
             IF given /\ args[h.arg].t = "num"
             THEN Emit(pad, PutFloat(args[h.arg].n, h.big, OptSize(opt)), 1)
             ELSE Fail(h, "number expected")
        [] h.err = "none" /\ opt.o = "x" -> Emit(pad, <<0>>, 0)
        [] h.err = "none" /\ opt.o \in {"c", "s"} ->
             IF given /\ args[h.arg].t = "str" THEN PackText(h, opt, args[h.arg].s)
             ELSE Fail(h, "string expected")
        [] OTHER -> Control(h, opt)

StructPack(fmt, args) == FoldLeft(LAMBDA h, opt : PackOption(h, opt, args), Start(0), fmt)

----------------------------------------------------------------------------
(* b_unpack, from the byte after `from`; `out` holds the values.           *)

\* Mutant: only the size is held against the data.
RoomForSizeOnly(data, pos, size) == size <= Len(data)

RoomFor(data, pos, size) == size <= Len(data) /\ pos <= Len(data) - size

\* What lies behind the data is no byte of it.
Beyond == Radix
DataAt(data, pos, size) ==
  [i \in 1..size |-> IF pos + i \in DOMAIN data THEN data[pos + i] ELSE Beyond]

Result(h, v, size) == [h EXCEPT !.out = Append(@, v), !.pos = @ + size]

UnpackCounted(h, data) ==
  LET n == Last(h.out).n
      shorter == [h EXCEPT !.out = Front(@)]
  IN  IF h.out = <<>> \/ Last(h.out).t # "num" THEN Fail(h, "format 'c0' needs a previous size")
      ELSE IF n < 0 \/ ~RoomFor(data, h.pos, n) THEN Fail(h, "data string too short")
      ELSE Result(shorter, Str(DataAt(data, h.pos, n)), n)

UnpackText(h, data) ==
  LET ends == {e \in h.pos + 1..Len(data) : data[e] = 0}
      e == CHOOSE e \in ends : \A f \in ends : e <= f
  IN  IF ends = {} THEN Fail(h, "unfinished string in data")
      ELSE Result(h, Str(SubSeq(data, h.pos + 1, e - 1)), e - h.pos)

UnpackOption(h0, opt, data) ==
  LET size == OptSize(opt)
      h == [h0 EXCEPT !.pos = @ + ToAlign(@, h0.align, opt)]
      bs == DataAt(data, h.pos, size)
  IN  CASE h0.err # "none" -> h0
        [] h0.err = "none" /\ TooWide(opt) -> Fail(h0, "integral size larger than limit")
        [] h0.err = "none" /\ ~TooWide(opt) /\ ~RoomFor(data, h.pos, size) -> Fail(h0, "data string too short")
        [] h0.err = "none" /\ ~TooWide(opt) /\ RoomFor(data, h.pos, size) ->
             CASE opt.o \in Integers8 -> Result(h, Num(GetInteger(bs, h.big, opt.o \in SignedOnes)), size)
               [] opt.o \in {"f", "d"} -> Result(h, Num(GetInteger(bs, h.big, FALSE)), size)
               [] opt.o = "x" -> [h EXCEPT !.pos = @ + 1]
               [] opt.o = "c" /\ size > 0 -> Result(h, Str(bs), size)
               [] opt.o = "c" /\ size = 0 -> UnpackCounted(h, data)
               [] opt.o = "s" -> UnpackText(h, data)
               [] OTHER -> Control(h, opt)

StructUnpack(fmt, data, from) ==
  FoldLeft(LAMBDA h, opt : UnpackOption(h, opt, data), Start(from), fmt)

----------------------------------------------------------------------------
(* b_size: an unknown letter counts for nothing here, and no argument is   *)
(* looked at.                                                              *)

SizeOption(h0, opt) ==
  LET h == [h0 EXCEPT !.pos = @ + ToAlign(@, h0.align, opt)]
      next == IF opt.o \in Alphanumeric THEN h ELSE Control(h, opt)
  IN  IF h0.err # "none" THEN h0
      ELSE IF TooWide(opt) THEN Fail(h0, "integral size larger than limit")
      ELSE IF opt.o = "s" \/ (opt.o = "c" /\ OptSize(opt) = 0) THEN Fail(h0, "no fixed size")
      ELSE [next EXCEPT !.pos = @ + OptSize(opt)]

StructSize(fmt) == FoldLeft(SizeOption, Start(0), fmt)
=============================================================================
