------------------------------ MODULE Drand48 ------------------------------
(***************************************************************************)
(* rand.c and the math.random and math.randomseed that use it.  The        *)
(* generator's 48 bits are three digits, its arithmetic digit by digit     *)
(* with carries.  A digit has Base values (2^16 in the code); the digits   *)
(* of the multiplier and of the start are constants of their own.  All     *)
(* states of the process, those of any user's scripts, share the one       *)
(* generator.                                                              *)
(***************************************************************************)
EXTENDS Integers, Sequences

CONSTANTS Base,         \* 2^N
          A,            \* the digits A0, A1, A2
          C,            \* the increment
          X,            \* the digits X0, X1, X2 the process starts with
          Seeds,        \* the seeds of scripts
          RandomArgs,   \* the arguments of random
          MaxDraws      \* bound on numbers drawn since a seed

Digit == 0 .. Base - 1
IsInt(v) == v.t = "num"

ASSUME BaseAssumption == Base \in Nat \ {0} /\ Base % 2 = 0
ASSUME DigitsAssumption == A \in [1 .. 3 -> Digit] /\ X \in [1 .. 3 -> Digit] /\ C \in Digit
ASSUME ScriptsAssumption ==
  /\ Seeds \subseteq Int /\ MaxDraws \in Nat
  /\ \A args \in RandomArgs :
       /\ Len(args) \in Nat /\ DOMAIN args = 1 .. Len(args)
       /\ \A i \in DOMAIN args : IsInt(args[i]) => args[i].n \in Int

VARIABLES rng,     \* the generator's digits
          seed,    \* what it was last seeded with
          draws,   \* numbers drawn since
          asked,   \* the arguments of the last call of random
          drawn    \* what it gave

rngVars == <<rng, seed, draws, asked, drawn>>

----------------------------------------------------------------------------
(* rand.c.                                                                 *)

Low(n) == n % Base
High(n) == Low(n \div Base)
Mul(m, n) == <<Low(m * n), High(m * n)>>

\* Mutant: the carry is one late.
CarryLate(m, n) == IF m + n > Base THEN 1 ELSE 0

Carry(m, n) == IF m + n > Base - 1 THEN 1 ELSE 0

Next48(x) ==
  LET p == Mul(A[1], x[1])
      p1 == Low(p[2] + Carry(p[1], C))
      q == Mul(A[1], x[2])
      r == Mul(A[2], x[1])
      mid == Low(p1 + q[1])
  IN  <<Low(p[1] + C),
        Low(mid + r[1]),
        Low(Carry(p1, q[1]) + Carry(p[2], Carry(p[1], C)) + Carry(mid, r[1]) + q[2] + r[2]
            + A[1] * x[3] + A[2] * x[2] + A[3] * x[1])>>

\* serverLrand48 after the step, and serverSrand48.
Lrand48(x) == x[3] * (Base \div 2) + x[2] \div 2
Srand48(s) == <<X[1], Low(s), High(s)>>

RandMax == (Base * Base) \div 2 - 1   \* SERVER_LRAND48_MAX

----------------------------------------------------------------------------
(* math.random and math.randomseed.                                        *)

\* The two bounds math.random takes from its arguments; with none of them it
\* gives the fraction, here its numerator.
Bounds(args) ==
  CASE Len(args) = 1 -> <<1, args[1].n>>
    [] Len(args) = 2 -> <<args[1].n, args[2].n>>

\* server_math_random, whose generator has been stepped to x before it looks
\* at its arguments.
MathRandom(x, args) ==
  LET k == Lrand48(x) % RandMax
  IN  CASE args = <<>> -> [err |-> "none", n |-> k]
        [] Len(args) > 2 -> [err |-> "wrong number of arguments", n |-> 0]
        [] Len(args) \in 1..2 /\ \E i \in DOMAIN args : ~IsInt(args[i]) ->
             [err |-> "number expected", n |-> 0]
        [] Len(args) \in 1..2 /\ \A i \in DOMAIN args : IsInt(args[i]) ->
             LET b == Bounds(args)
             IN  IF b[1] > b[2] THEN [err |-> "interval is empty", n |-> 0]
                 ELSE [err |-> "none", n |-> (k * (b[2] - b[1] + 1)) \div RandMax + b[1]]

RandomSeed(s) ==
  /\ rng' = Srand48(s)
  /\ seed' = s /\ draws' = 0
  /\ UNCHANGED <<asked, drawn>>

Random(args) ==
  /\ draws < MaxDraws
  /\ rng' = Next48(rng)
  /\ drawn' = MathRandom(rng', args)
  /\ draws' = draws + 1 /\ asked' = args
  /\ UNCHANGED seed

RngInit ==
  /\ rng = X /\ seed = X[2] + Base * X[3]
  /\ draws = 0 /\ asked = <<>> /\ drawn = [err |-> "none", n |-> 0]

RngNext ==
  \/ \E s \in Seeds : RandomSeed(s)
  \/ \E args \in RandomArgs : Random(args)

RngSpec == RngInit /\ [][RngNext]_rngVars

----------------------------------------------------------------------------
(* What the generator promises.                                            *)

Value(x) == x[1] + Base * x[2] + Base * Base * x[3]
Modulus == Base * Base * Base
Step48(n) == (Value(A) * n + C) % Modulus
Sequence(s) == LET nth[i \in 0..MaxDraws] ==
                     IF i = 0 THEN Value(<<X[1], s % Base, (s \div Base) % Base>>) ELSE Step48(nth[i - 1])
               IN  nth

\* The numbers depend on the last seed and on how many were drawn since, calls
\* that raised included: they are drand48's, whose 31 high bits give the place
\* in the interval that was asked for, and they are in it.
RandomSequence ==
  LET x == Sequence(seed)[draws]
      k == (x \div (2 * Base)) % RandMax
  IN  /\ Value(rng) = x
      /\ draws > 0 /\ drawn.err = "none" /\ asked # <<>> =>
           LET b == Bounds(asked)
           IN  /\ drawn.n \in b[1]..b[2]
               /\ (drawn.n - b[1]) * RandMax <= k * (b[2] - b[1] + 1)
               /\ k * (b[2] - b[1] + 1) < (drawn.n - b[1] + 1) * RandMax
=============================================================================
