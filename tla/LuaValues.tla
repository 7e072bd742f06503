----------------------------- MODULE LuaValues -----------------------------
(***************************************************************************)
(* The Lua values that the libraries of a script turn into bytes and text  *)
(* and back.  A string is the sequence of its characters, a table the      *)
(* sequence of its entries in the order lua_next gives them.               *)
(***************************************************************************)
EXTENDS Sequences

CONSTANT Radix   \* values of a byte (256)

Nil == [t |-> "nil"]
Other == [t |-> "other"]        \* a function, a thread, a userdata
Null == [t |-> "null"]          \* the NULL light userdata, cjson.null
NaN == [t |-> "nan"]
Infinite == [t |-> "inf"]
Bool(b) == [t |-> "bool", b |-> b]
Num(n) == [t |-> "num", n |-> n]
\* A number that is no 64-bit integer; `narrow` when a float holds it too.
Dbl(n, narrow) == [t |-> "dbl", n |-> n, narrow |-> narrow]
Str(s) == [t |-> "str", s |-> s]
Tbl(e) == [t |-> "tbl", e |-> e]

KeysOf(v) == {v.e[i][1] : i \in DOMAIN v.e}
At(v, k) == IF k \in KeysOf(v)
            THEN LET i == CHOOSE i \in DOMAIN v.e : v.e[i][1] = k IN v.e[i][2]
            ELSE Nil

\* lua_settable: a nil value takes the entry away.
Set(v, k, x) ==
  Tbl(SelectSeq(v.e, LAMBDA kv : kv[1] # k) \o IF x = Nil THEN <<>> ELSE <<<<k, x>>>>)

\* A value whatever the order of its tables' entries.
RECURSIVE Content(_)
Content(v) ==
  IF v.t = "tbl" THEN [t |-> "tbl", f |-> {<<Content(v.e[i][1]), Content(v.e[i][2])>> : i \in DOMAIN v.e}]
  ELSE v
=============================================================================
