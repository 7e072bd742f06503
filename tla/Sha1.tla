------------------------------- MODULE Sha1 -------------------------------
(***************************************************************************)
(* sha1hex of script_luajit.c with SHA1Init, SHA1Update and SHA1Final: how *)
(* a message, its padding and its length are cut into blocks.  A step is   *)
(* one call of SHA1Update.  The compression of a block is left out: the    *)
(* digest is the sequence of the blocks that were compressed, from which   *)
(* SHA1Transform computes it.  A count word has CountWord values (2^32),   *)
(* so that short messages need both.                                       *)
(***************************************************************************)
EXTENDS Integers, Sequences

CONSTANTS CountWord,   \* values of a count word
          Messages     \* what is hashed

Block == 64
BitsPerByte == 8

ASSUME CountAssumption == CountWord \in Nat \ {0} /\ CountWord % (BitsPerByte * Block) = 0
\* SHA1Update takes the length as a uint32_t.
ASSUME MessagesAssumption ==
  \A m \in Messages : Len(m) \in 0 .. CountWord - 1 /\ m \in [1 .. Len(m) -> Nat]

VARIABLES ctx,          \* the SHA1_CTX: counts, buffer, blocks compressed
          hashed,       \* the message
          finalcount,   \* its length, as SHA1Final took it down
          digesting     \* "idle", "message", "padding", "digest"

shaVars == <<ctx, hashed, finalcount, digesting>>

----------------------------------------------------------------------------
(* SHA1Init and SHA1Update.                                                *)

\* The buffer's bytes do not matter yet.
Context == [low |-> 0, high |-> 0, buffer |-> [k \in 1..Block |-> 0], blocks |-> <<>>]

\* memcpy to the buffer from its byte j on.
CopyTo(buffer, j, data) == [k \in 1..Block |-> IF k - j \in DOMAIN data THEN data[k - j] ELSE buffer[k]]

\* Mutant: a block that is exactly full is not compressed.
FillsButOne(j, len) == j + len > Block

Fills(j, len) == j + len > Block - 1

InBuffer(c) == (c.low \div BitsPerByte) % Block

\* The low word wraps, and carries when it is less than before.
CountLow(c, len) == (c.low + len * BitsPerByte) % CountWord
CountHigh(c, len) ==
  c.high + (IF CountLow(c, len) < c.low THEN 1 ELSE 0) + (len * BitsPerByte) \div CountWord

ShaUpdate(c, data) ==
  LET len == Len(data)
      j == InBuffer(c)
      fill == Block - j
      whole == (len - fill) \div Block
      used == fill + Block * whole
      first == CopyTo(c.buffer, j, SubSeq(data, 1, fill))
      compressed == <<first>> \o [n \in 1..whole |->
                                    SubSeq(data, fill + Block * (n - 1) + 1, fill + Block * n)]
  IN  [low    |-> CountLow(c, len),
       high   |-> CountHigh(c, len),
       buffer |-> IF Fills(j, len) THEN CopyTo(first, 0, SubSeq(data, used + 1, len))
                  ELSE CopyTo(c.buffer, j, data),
       blocks |-> IF Fills(j, len) THEN c.blocks \o compressed ELSE c.blocks]

----------------------------------------------------------------------------
(* sha1hex and SHA1Final.                                                  *)

\* The bytes of a count word, the highest first.
Word(n) == [i \in 1..4 |-> (n \div 256^(4 - i)) % 256]

Begin(m) ==
  /\ digesting \in {"idle", "digest"}
  /\ ctx' = ShaUpdate(Context, m)
  /\ hashed' = m
  /\ digesting' = "message"
  /\ UNCHANGED finalcount

\* The count is taken before the padding is counted.
PadOne ==
  /\ digesting = "message"
  /\ finalcount' = Word(ctx.high) \o Word(ctx.low)
  /\ ctx' = ShaUpdate(ctx, <<128>>)
  /\ digesting' = "padding"
  /\ UNCHANGED hashed

\* Zeros up to the place of the count.
PadZero ==
  /\ digesting = "padding" /\ InBuffer(ctx) # Block - 8
  /\ ctx' = ShaUpdate(ctx, <<0>>)
  /\ UNCHANGED <<hashed, finalcount, digesting>>

PadCount ==
  /\ digesting = "padding" /\ InBuffer(ctx) = Block - 8
  /\ ctx' = ShaUpdate(ctx, finalcount)
  /\ digesting' = "digest"
  /\ UNCHANGED <<hashed, finalcount>>

ShaInit == ctx = Context /\ hashed = <<>> /\ finalcount = <<>> /\ digesting = "idle"

ShaNext == (\E m \in Messages : Begin(m)) \/ PadOne \/ PadZero \/ PadCount

ShaSpec == ShaInit /\ [][ShaNext]_shaVars

----------------------------------------------------------------------------
(* What a digest is of.                                                    *)

\* The message as the algorithm pads it: a one bit, zeros, and the number of
\* its bits in 64.
Padded(m) ==
  LET bits == Len(m) * BitsPerByte
  IN  m \o <<128>> \o [i \in 1..(Block - 9 - Len(m)) % Block |-> 0]
      \o Word(bits \div CountWord) \o Word(bits % CountWord)

\* The bytes that were compressed.
Stream(blocks) ==
  [i \in 1..Block * Len(blocks) |-> blocks[(i - 1) \div Block + 1][((i - 1) % Block) + 1]]

\* The blocks compressed are those of the padded message, each once, in order
\* and nothing of the buffer's older bytes.
DigestPadded == digesting = "digest" => Stream(ctx.blocks) = Padded(hashed)
=============================================================================
