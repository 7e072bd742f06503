# A TLA+ development of valkey-luajit

valkey-luajit is a Valkey module that registers LuaJIT as a scripting engine.
The server owns the commands (EVAL, FUNCTION LOAD, FCALL, FLUSH) and calls the
engine back: `compile_code`, `call_function`, `free_function`, `reset_env`. The
engine isolates users by giving each of them Lua states of their own. Because
`compile_code` does not know the user, a script is kept as text and compiled
again, lazily, in the state of whoever calls it; so the engine keeps several
copies of what is loaded and must keep them in agreement through replacement,
deletion, refused loads and flushes. That agreement is what this development is
about.

## Inventory

| Component | State | Operations | Modelled by |
|---|---|---|---|
| Engine callbacks (`engine_luajit.c`) | `libraries` (by `lib_id`, with `ref_count`), `next_lib_id`, `next_func_id`, `user_states`; per user the registry tables `__library_functions`, `__library_compiled` and two function caches | compile_code, call_function, free_function | ScriptEngine |
| reset_env | the Lua states themselves, the detached ones a callback closes later | reset of EVAL, of FUNCTION, of both; sync and async | ScriptEngine (effects); EnvReset (ownership) |
| Function loading (`function_luajit.c`, `script_luajit.c:1690`) | the scratch state's load context, pending functions; a user state's table | register_function in both states, load timeout | ScriptEngine (as one step); FunctionLoad |
| Running a script (`script_luajit.c`) | run context in the registry, hooks, `inuse`, GC counters | luajitCallFunction, server.call, setresp, set_repl, log, kill hook | ScriptCall |
| Reply conversion (`script_luajit.c`) | none | callReplyToLuaType, luajitReplyToServerReply | ReplyConversion |
| Module lifecycle (`engine_luajit.c:854`) | `engine_names`, `engine_ctx`, `ffi_enabled` | OnLoad, OnUnload, config callbacks | EnvReset |
| cmsgpack (`lua_cmsgpack.c`) | the encoder's buffer, the decoder's position | pack, unpack, unpack_one, unpack_limit | MsgPack, Codecs |
| cjson and strbuf (`lua_cjson.c`, `strbuf.c`) | the options and the kept buffer of a Lua state; a private or a temporary buffer in a call | encode, decode, the option functions | CJson, Codecs |
| struct (`lua_struct.c`) | byte order and alignment within a call | pack, unpack, size | StructPack, Codecs |
| FFI API (`lua/ffi_api.lua`) | server objects a wrapper holds | the VKM wrappers | not modelled |
| Random numbers (`rand.c`) | the generator's 48 bits, one for the process | math.random, math.randomseed | Drand48, Codecs |
| SHA-1 (`sha1.c`) | counts, buffer and chaining value within a call | server.sha1hex | Sha1, Codecs |
| fpconv, debugger stubs, `valkeymodule.h` | none | | not modelled |

How they interact: the server calls the engine on its main thread, one command
at a time. Within one command it makes several callbacks (FUNCTION LOAD REPLACE
is one compile_code and one free_function per old function). After FUNCTION
FLUSH ASYNC a background thread closes Lua states through the returned callback
and hands the old functions to free_function, while the main thread goes on.
The engine and a user's Lua state share only the registry tables.

What is hard: several copies of the same fact (library entry, compiled mark,
table entry, cached closure) that different callbacks take down at different
times; two id counters of which a flush resets one; purging by name what is
owned by id; loads that fail after compile_code has succeeded; sources that do
not run in a user's state although they ran in the scratch state; frees that
come late. Inside a call it is what a script may do: any Lua error leaves C
functions in their middle by longjmp, so every counter, buffer, stack slot and
registry pointer they hold is at stake, and a script may catch the error and go
on. `PROJECT.json` lists each hazard at its line.

## Modules

`ScriptEngine` is the component, detailed: one action per callback path.
`ScriptService` is what it promises, without libraries, ids, tables or caches.
`MCScriptEngine` instantiates the first for TLC. `ScriptEngineProofs` and
`ScriptServiceProofs` hold the theorems.

`FunctionLoad` is the inside of one FUNCTION LOAD, which ScriptEngine takes as
one step, and `EnvReset` is who owns the Lua states that ScriptEngine's resets
empty. Each has an `MC` module and a `Proofs` module. The three share no
variables: what one hands to the other is a constant there (the names a source
registers) or left out (the states a reset makes new).

### ScriptEngine and the code

| Model | Code |
|---|---|
| `libraries[l]`, `NoLib` | `ctx->libraries`: source and `ref_count` of a `luajitLibrary`; no entry |
| `nextLibId`, `nextFuncId` | `next_lib_id` (reset by reset_env), `next_func_id` (never reset) |
| `states` | keys of `ctx->user_states` |
| `libFuncs`, `compiled`, `funcCache`, `evalCache` | the registry tables of a user's `function_lua` and `eval_lua` |
| `func` | what a `luajitFunction` says: name, `lib_id`, and the source it came from |
| `owner` | the server's use of it (external): waiting to be linked, linked, to be freed by this command, to be freed in the background, an EVAL script, freed |
| `reply` | the answer of the call that has just returned |

A closure is represented by the source it was compiled from, since a source
registers one function under a name. The behaviour of a source is given by
constants: the names it registers in the scratch state (`Declares`), the names
it registers in a user's state (`Defines`), whether that run ends without error
(`Runs`), and the names a call of its functions registers again (`Rebinds`).
They differ because the two states differ: the scratch state has only base,
string and table libraries, a load timeout and its own register_function; the
user's state has all libraries and another register_function.

`CompileLibrary` and `CompileScript` are the two branches of compile_code (a
source that fails to load changes nothing and is no action). `Link`, `Reject`
and `DeleteLibrary` are the server's decisions. `Free`, `LazyFree` and
`FreeScript` are free_function: the purge of the name from every user's table,
then the reference count. The branches of call_function are `FcallHit`,
`FcallLibraryMissing`, `FcallCompileError`, `FcallNotFound`, `FcallMiss`;
`Eval` is its EVAL branch. `ResetFunctions`, `ResetScripts`, `ResetAll` are
reset_env.

Atomicity: a callback runs to its end on the main thread, so it is one step;
a command of several callbacks is several steps during which `~Idle` keeps other
commands out. `LazyFree` is the exception: with `SpecLazy` it may happen
between any two steps.

### ScriptService

Which source is served under a name, which scripts are known, and what the last
call answered. A load takes effect whole or not at all; a call to a served name
answers with the body being served, or with an error, and an error is allowed
only to a source that does not run or to a name that is `clouded`: one that a
refused load has used since it was linked. The exception is the one the code
needs (first finding below); with it, `ImplementsService` holds.

### FunctionLoad

A source is a sequence of statements: calls of `server.register_function` with
arguments by position or in a table, calls it refuses, errors, and code without
effect; each may be in a pcall and may continue the line of the one before it.
The source first runs in the scratch state under the load hook (`StartLoad` to
`FinishLoad`), then in a user's state (`UserStarts`, `UserStatement`,
`UserEnds`), where register_function is the other implementation.

| Model | Code |
|---|---|
| `functions` | `load_ctx.functions`, later the compiled functions, which take over the strings |
| `pf`, `unread` | the `pendingFunc` of the call under way, and what `lua_next` has not yielded yet |
| `created`, `freed` | `ValkeyModule_CreateString` and `FreeString` of a name or description; a string is known by the statement and the field it was read from |
| `late`, `strict` | the hook has raised; it is set for every line |
| `table` | `__library_functions` of the user's state |

`Raise` is what an error does: a pcall stops it, or it reaches the lua_pcall of
luajitFunctionLibraryCreate, which frees every pending function. `Timeout` may
happen in any statement, since the count hook may find the load late anywhere.
A metamethod can only run where the code reads a table by `lua_gettable`, which
is the flags (`FlagsThrow`). What the user's state compiles again is the same
source, but keys are looked up as they are spelt and description, flags and
unknown keys are not looked at (`UserAccepts`).

### EnvReset

A Lua state is named by the slot it was made for (`compile_lua`, or a user's
eval or function state) and a number that is free again once it is closed, as
an address is. `current` is what the slots hold, `callbacks` the contexts of
`resetLuaContextAsync` the server has not run yet. OnLoad is one step for the
context, one for the configuration, one for each name and one for the rollback,
so that every prefix of it is a state; `RunCallback` may come between any two
steps and after OnUnload. Other modules may have some of the names from the
start.

### ScriptCall

One Lua state of a user over any number of calls. `ScriptEngine` says which
source a call finds; this module says what happens to the state on the way.

| Model | Code |
|---|---|
| `top` | elements on the Lua stack; only their number |
| `rctx` | the `luajitFuncCallCtx` the registry points to, with `resp` and `replication_flags` |
| `hook`, `ticks` | luajitMaskCountHook on the count or on every line; steps since it last ran |
| `frames` | the pcalls entered (the engine's is the first), and under the line hook what is left of the line each is on |
| `killed` | the server's answer to GetFunctionExecutionState |
| `inuse`, `argv`, `format` | luajitServerGenericCommand's static counter, its argument vectors, its call format |
| `gcCount`, `fullGcCount` | `__gc_count`, `__full_gc_count` |
| `answers` | replies sent for the call |
| `missing`, `refused`, `stranded` | how often the code left something behind, and in which way |

`FunctionCall` to `CallFunction` are the lookup of call_function with each of
its early returns; `Answered` gives the pops. Between `CallFunction` and
`AnswerCall` (luajitCallFunction before and after its lua_pcall) the script is
any program: it runs on, enters and leaves pcalls, raises, calls a function of
the server table. `Unwind` is lua_error. `Command` to `ReplyConverted` are
server.call and server.pcall. `ConversionRaises` is a Lua error out of
callReplyToLuaType, which skips the rest of luajitServerGenericCommand: the
counter `inuse` stays up, and since it is static every later command of every
script is refused. `GuardAccounted` says that this is the only way; likewise
`ArgvAccounted` for the vector a refused recursive command leaves, and
`StackBalance` for the element too many that a missing library pops. The stack
of a user's eval state starts at -1 because initializeEvalExtras pops from an
empty stack.

### ReplyConversion

`ToLua` is callReplyToLuaType, a function of the reply. It loses things, and the
module says what. An integer becomes the nearest double (`AsDouble`): up to
`Exact`, 2^53, every integer is one, beyond it doubles are `Units` apart. The
cast back (`LongLong`) drops a fraction; what it makes of a number that no long
long holds, as the double next to the greatest one is, is undefined in C and the
constant operator `Beyond`. A text is a sequence of parts, of which a Nul, a
dash, a space, a carriage return and a line feed are told apart; `CString` ends
it at a Nul, `ErrorText` is luajitPushErrorBuff, which trims line breaks and
takes a leading dash for the mark of a code. Pairs of a map whose keys become
the same value overwrite each other (`Winning`: the last one stays). A verbatim
string keeps its format of three letters.

The way back, luajitReplyToServerReply, is a machine: `lua` is the Lua stack with
the values on it, `cont` the containers being written (the C recursion), `out`
the stream of the module API's replies with each container's length filled in
when it ends. A kind of table is found
by trying its fields in the code's order (`Tried`). `RepliesAssumption` says what
a reply of the server is: its parts are replies too, a simple string or a big
number has no line break, the format of a verbatim string no Nul, an integer is
a long long and RESP2 has no booleans; `Depth` grows from the parts to the whole,
so that no reply contains itself.
`IsOneReply` says that a stream is one reply by counting: every token announces
as many parts as its length says, and the parts announced are more than those
written until the last one. `Reading` reads a stream from its end, each token
taking as many replies as its length says from those read behind it. `HandedOn`
is what is left of a reply that a script only hands on, the same reply but for
these losses:

- an integer beyond 2^53 is answered as its nearest double, cast back;
- an error message that begins with a dash or a line break, ends with a line
  break or holds a Nul is answered as `ErrorText` makes it;
- a simple string and a big number end at their first Nul;
- of the pairs of a map whose keys become one value the last is left;
- in RESP3, where a null is nil, an array ends at its first null and a map loses
  the keys whose value is null (a null as a key raises).

A message that is none of these exceptions (`Plain`) must come back as it was:
the comment at script_luajit.c:168 says that a message without a dash gets a
generic "ERR", the code (187-191) adds none, and the mutant of `HandsOn` does
what the comment says.

### MsgPack, CJson, StructPack, Sha1, Drand48, and Codecs

`LuaValues` has the values. The libraries are operators translated from their
functions; `Codecs` is a script that uses one of them, call
after call, so that options, kept buffers and offsets outlive a call.

`MsgPack`: `EncodeType` gives the byte strings handed to mp_buf_append, in
order, so that the buffer is followed append by append. `DecodeType` reads at a
position and checks what is left where the code does (`HasLeft`); a read behind
the end gives a unit that is in no message. Bytes have `Radix` values instead
of 256 and the one-byte headers end at `FixInt`, `FixNeg`, `FixStr`, `FixTable`
instead of 127, -32, 31 and 15, so that small values need every header; the
widths 1, 2, 4 and 8 are the code's.

`CJson`: `AppendData` gives what the encoder asks of its buffer, room or a
symbol to write or an error, in the code's order, and `Perform` does it to a
buffer with the growth rule of strbuf.c. A text is a sequence of symbols, each as
wide as its bytes; a number is one symbol and a word too, so that the digits of
fpconv are left out. `StringToken` and `NextToken` are the lexer. The parser takes
one token a step (`Parse`): the C recursion of json_process_value is the stack
`open` of containers, whose height is the depth, and what the innermost call
waits for is `want`; the error paths free the temporary buffer. The text is
read as a C string: an embedded NUL ends it.

`StructPack`: `PackOption`, `UnpackOption` and `SizeOption` are the loop bodies
of the three functions. A float's bytes stand for its number.

`Sha1` is a component with a specification of its own, `ShaSpec`: any number of
digests, one step for each call of SHA1Update, which are the message, the one
bit, zeros one by one until the count has its place, and the count. A digest is
the sequence of the blocks that were compressed, so that `DigestPadded` can say
which they must be: those of the padded message. `ShaUpdate` keeps the 64-byte
buffer with its older bytes, and the two count words, whose width is a constant
so that short messages need both. A message is shorter than a count word, as
SHA1Update takes its length as a uint32_t.

`Drand48` is a component with a specification of its own, `RngSpec`: any
sequence of `RandomSeed` and `Random`. `Codecs` makes these steps those of its
scripts and changes the generator in no other way. `Next48` is `next` of rand.c,
digit by digit; in the run digits have 16 values instead of 65536 and the
constants are the low hexadecimal digits of the code's, in the proof they have
any even number of values. `RandomSequence` computes the same sequence as one
congruence on the whole number. A call that raises for its arguments has drawn a number all the same.
The fraction is kept as a numerator: the rounding of a double is left out.

## Runs

The runs of ScriptEngine use two library names, two function names and four sources: `pair`
registers both names, `clash` registers one of them for the other library,
`half` loads but raises in users' states, `empty` registers nothing. Four
function ids and two library ids allow a library of two functions to be
replaced, refused against, flushed and loaded again under the same library id.
Commands that would exceed `MaxFuncId` or `MaxLibId` are disabled; calls and
frees never are, so nothing deadlocks.

| Run | Spec | Checks | Shows |
|---|---|---|---|
| `lifecycle` | `Spec`, 2 users (symmetric) | `TypeOK`, `RefCountExact`, `LiveLibrary`, `RegistrationSound`, `RegisteredUnlessPurged`, `CacheSound`, `ImplementsService` | the copies agree, and the engine implements the service |
| `reclaim` | `FairSpec`, 1 user | `OrphansReclaimed` | replaced, deleted and refused libraries are dropped |
| `lazy_flush` | `SpecLazy`, 1 user | `AnswersOwnBody`, `NoExtraReference` | late frees never change what a call runs, and never keep a library |
| `collision` | `Spec`, 1 user | `LinkedFunctionIsFound` | violated: first finding |
| `rebind` | `Spec`, 1 user | `RegisteredByLoadOnly` | violated: second finding |
| `load` | FunctionLoad, all sources of at most 3 statements | `TypeOK`, `StringsOwned`, `RegistersAlike`, `NothingRegisteredLate` | strings are owned once whatever fails; a late load registers nothing more; a plain source registers in a user's state what it loaded |
| `spelling` | FunctionLoad, at most 2 statements | `AcceptedByUsers` | violated: third finding |
| `call` | ScriptCall, `Spec` with its fairness | `TypeOK`, `ContextOnlyInCall`, `StackBalance`, `AnswerOnce`, `GuardAccounted`, `ArgvAccounted`, `FormatFits`, `KillEnds` | whatever a script does, a call gives back what it took, or what the model counts as left behind |
| `toplevel` | ScriptCall | `ContextWhereNeeded` | violated: fourth finding |
| `reply` | MCReplyConversion | `TypeOK`, `StackKept`, `OneReply`, `OneLiners`, `HandsOn` | the stream is one reply, the stack is kept within its limit and restored, replies are handed on but for the losses above |
| `codecs` | MCCodecs | `PackRoundTrips`, `JsonRoundTrips`, `BuffersFit`, `JsonBuffersFreed`, `StructRoundTrips`, `DigestPadded`, `RandomSequence` | what is packed comes back and nothing else; buffers have room and are freed; digests are of the padded message, random numbers drand48's |
| `ownership` | EnvReset, `FairSpec`, 2 users, 2 names | `TypeOK`, `OneOwner`, `EntriesWhole`, `ContextServed`, `OthersKept`, `DetachedClosed` | every state is closed once, by its owner; no name outlives the context, no other module loses one |

`load`: three statements let two registrations meet an error, a caught error or
a timeout before, between and after them; longer sources repeat these
situations. A load and a run in a user's state end, so the deadlock check is
off. `ownership`: two open states in a slot are one in use and one waiting for
its callback, and with two users there are callbacks of several states and
several callbacks at once; a configuration may be empty, name an engine twice,
name one that is taken, or have more names than the table.

`call`: two steps between hooks and two on a line, two nested pcalls and the
collection counters at two and three calls; each kind of leak at most once.
Scripts are not bounded, nor is the number of calls. Nested pcalls beyond two
and longer lines only postpone the same raise. `reply`: a stack of nine slots,
on which the deeper of the replies and values do not fit; integers exact up to 4
and 7 the greatest, so that two become one double and the greatest a double that
no long long holds (cast as x86-64 does); messages with and without a dash, a
code, line breaks and a Nul; pairs whose keys become one; every kind of reply
and of table, containers in containers to depth two, both RESP versions.
`codecs`: values, texts and formats chosen by format and by error; integers at
both sides of every width boundary; nesting to the limit and beyond; every prefix of
every packed message; two changes of options between calls; messages of every length
around the end of one, two, three and four blocks; 44 seeds, negative ones too, and five
numbers after each. The deadlock
check is off where the model ends with the code: an asserted server stops
(`call`, `toplevel`), and a script or a conversion that has raised does nothing
more (`reply`, `codecs`).

Two users are enough where tables of different users must be told apart: no
action reads one user's tables to write another's, and free_function treats
them alike. Liveness and the background runs need one.

Fairness (`FairSpec`): weak fairness of `Link`, `Reject` and of some `Free`.
These are the rest of a command the main thread has begun; nothing else is
fair, and in particular no user is assumed to call anything. In EnvReset the
callback that has a state is run eventually: the server's background thread
works off its queue and nothing the engine does later can take a job back. In
ScriptCall a script that is running takes another step or meets its hook, a
command is answered and a call that is over is replied to; the top level of a
library is not fair, as nothing interrupts it. The hook is the interpreter's:
code that LuaJIT has compiled to machine traces runs no hooks, so `KillEnds` is
about scripts that keep coming back to the interpreter.

With background frees some properties are not claimed. `LiveLibrary` and
`RefCountExact` do not hold under `SpecLazy`: a late free unreferences whatever
library has the old id now, and the new library can be dropped while its
functions are linked, after which calls that have not cached it answer "ERR
Library for function %s not found". Whether the server frees functions late
depends on its version, so this is recorded as a hazard and not as a finding.

## Findings

1. `collision`. free_function purges by name. The server finds out that a
   function name is taken only after compile_code has returned the names, and
   then frees the new functions: the entry of the *owning* library is removed
   from every user's table, while `__library_compiled` keeps that library from
   being run again. A user who had compiled it and not yet called the function
   is answered "not found" until the next flush or replacement.
2. `rebind`. `server.register_function` stays callable in a user's function
   state while a function runs, contrary to the message of
   `function_luajit.c:282`, and can overwrite another library's function there.
3. `spelling`. The scratch state compares the keys of named arguments without
   case, the user's state looks them up exactly. A library that writes
   `FUNCTION_NAME=` loads, is listed, and raises whenever it is compiled for a
   user.

4. `toplevel`. server.log, server.call and four more assert the run context
   instead of raising without one. At the top level of a library there is none:
   at FUNCTION LOAD, where server.log is offered, and again when a user's state
   compiles the library, with the whole API in reach. The assertion ends the
   server.

Things the codec modules show about the code and count as its behaviour:
cmsgpack packs a table with a key that has no format, and its message is then
refused by unpack; json_cfg_encode_sparse_array keeps the options before a
refused one; cjson takes an embedded NUL for the end of a text; struct.size
accepts letters that pack refuses.

Two more things the invariants name as exceptions, because the code allows
them: `StringsOwned` lets a load lose a string when a table gives the same
argument twice in different case, or when reading the flags runs a metamethod
that raises; `NothingRegisteredLate` speaks of other lines only, because the
line hook is not called for the rest of a line on which the timeout was caught.

## Proofs

For every value of the constants (finite or not, subject to the assumptions of
`ScriptEngine`: sizes are naturals, the sources are functions of the stated
types, `None` and the error names are not sources):

| Theorem | Says |
|---|---|
| `TypeCorrect` | `SpecLazy => []TypeOK` |
| `RefCountCorrect` | `Spec => []RefCountExact` |
| `LibraryStaysLive` | `Spec => []LiveLibrary` |
| `RegistrationCorrect` | `SpecLazy => []RegistrationSound`, assuming `LoadOnlySources` |
| `CacheCorrect` | `SpecLazy => []CacheSound`, assuming `LoadOnlySources` |
| `CallCorrect` | `SpecLazy => []AnswersOwnBody`, assuming `LoadOnlySources` |
| `NoReferenceLeaks` | `SpecLazy => []NoExtraReference` |
| `RegisteredOnceCompiled` | `Spec => []RegisteredUnlessPurged`, assuming `LoadAllSources` |
| `EngineImplementsService` | `Spec => ImplementsService`, assuming both |

`ScriptEngineProofs`. `TypeOK` is inductive only with `Kinds`: an object in the
server's hands has a name, a library id and a source of the right sort.
`RefCountExact` needs that function objects are handed out in order (`IdsUsed`),
that no object to be freed has a library id not yet given out, and that an
unused library id has no entry: without it, a fresh entry could meet old
references. The arithmetic is in lemmas on the cardinality of `Unfreed(l)` when
one function leaves it or a range of ids enters it. `LiveLibrary` follows from
the exact count: a library with a linked function has a positive count. With
background frees the count is no longer exact, but it is never too high:
`NoExtraReference` needs only types and `IdsUsed` (`LazyRefInv`), since a free
that comes late can take a reference from a library it is not of and never adds
one.

The rest of the module is about what the server and the users' states hold.
`LinkInv` is the server's part: a linked
function's library entry, as long as it is there, has the function's source
(`OwnSource`); libraries are held whole (`Whole`); linked names are unique
(`UniqueNames`). It needs nothing of the sources and also holds with background
frees. `CallInv` adds the users' side: users who never called have nothing
registered, nothing is cached under an id not yet given out, and the three
properties. The step that carries the argument is a call that misses the cache:
what it finds under the name was registered by a library whose function of that
name is linked (`RegistrationSound`, `Whole`), and linked names are unique, so
it is the called function. `LoadOnlySources` (a source registers in a user's
state only names it registered at load, and its functions register none) is
needed: the code does not enforce it, as finding 2 shows.

`ScriptServiceProofs`. `RegisteredUnlessPurged` relates what a state has compiled
to what it has registered, and a refused load takes names away in between, so
`LoadInv` puts the server's objects in order: what waits for the server's verdict
is exactly the last load (`LoadedWhole`) and nobody has compiled it yet
(`PendingUncompiled`), and a function to be freed that has the name of a linked
one was made after it, or the linked one's library is compiled nowhere
(`DoomedLater`). The last is the argument: a purge by name that hits a
compiled library is one of a later load, which is what the exception of the
property allows. `EngineImplementsService` has one lemma for each action of the
engine: a compile, a free and a cache fill are stutters, the server's decisions
and the calls are steps of the service, with the mapping of `ImplementsService`.
Its invariant `EngineInv` is all of the above together. `LoadAllSources` says
that a source whose run in a user's state ends without error registers there
what it registered at load. Like `LoadOnlySources` it is about the sources and
not enforced by the code: a source may look at its surroundings, and finding 3
is one that gets it wrong without looking.

`FunctionLoadProofs` (assuming what `FunctionLoad` says of sources: a table has
one value for a key, names are `Names`) proves `TypeCorrect`,
`OwnershipCorrect` (`[]StringsOwned`) and `LateCorrect`
(`NothingRegisteredLate`) for sources of any length and tables of any fields.
The strengthening of `StringsOwned` orders the owners by the statement their
strings were read in (`OwnInv`): freed strings and those of finished calls come
from earlier statements than the call under way, and every string of this
statement stands for a field already read (`CallInv`), which is what shows that
a replaced string was given twice. One lemma, `RaiseKeeps`, covers every error.
`AlikeCorrect` is `[]RegistersAlike`: of the two implementations of
register_function what the first accepts the second accepts too, under the same
name, as long as no pcall hides a refusal. `AlikeInv` follows the source through
both: what is loaded so far is what the user's state would register up to the
same statement (`LoadAlike`, `UserAlike`), and the call under way has taken only
arguments the other side takes (`CallAlike`).

`EnvResetProofs` proves `TypeCorrect`, `OwnerCorrect` (`[]OneOwner`),
`EntriesCorrect`, `ContextCorrect` and `OthersCorrect` for any number of users,
names and states. All steps that change slots are instances of one lemma,
`Detaching`: some slots get fresh states, some are emptied, and what is taken
out is closed or handed to a callback. `NamesInv` says that the server holds
the context under exactly the names up to `next`, which is why the rollback
takes back what it must and nothing else.

`ScriptCallProofs` proves the seven safety invariants of `call` for any hook
interval, line length, nesting of pcalls, collection periods and number of
calls, with and without FFI: `ScriptCallTyped`, `ContextLivesWithCall`,
`StackKept`, `OneAnswer`, `GuardKept` (`GuardAccounted`), `OnlyRefusedKept`
(`ArgvAccounted`), `FormatNeverOverflows`. The inductive invariant `IInv` ties the stack's height to the phase of the call
(`TopByPhase`), the context, hook and pcalls to it (`CallContext`), and each
counter to what holds it (`Accounted`). `FormatOK` bounds the letters by case on
the flags: the double "AR" is written only when both are off, which is what
makes the format exactly fill its array.

`ReplyConversionProofs` proves `ConversionTyped`, `StackKeptCorrect`,
`OneReplyWritten` and `LinesUnbroken` for replies and values of any size and depth
and any limit of the stack, assuming that replies are closed under their parts
and that the limit is positive. `StackKeptCorrect` is about the stack of
luajitReplyToServerReply alone, and `LinesUnbroken` about simple strings and big
numbers: the text of an error is written as it is. inductive
invariant carries three things through the conversion of nested containers. The
frames of the containers under way point at tokens whose length is not yet set,
in the order they were begun, and every other length is set (`FramesOK`,
`TokensOK`). Each frame knows how high it found the stack, so that the end of a
container or an error leaves what was there (`Heights`). And the parts announced
so far, a container under way counting those it has begun, are balanced against
the tokens written: at the end there is one token more than parts announced,
and never earlier, which is `OneReply`.

`ReplyHandsOnProofs` proves `RepliesHandedOn` (`[]HandsOn`) from what
`ReplyConversion` assumes of replies, of the limit and of numbers (every long
long is between doubles, and the integers up to `Exact` are doubles); `Beyond` is
any operator. The losses of `HandedOn` are in the statement. That nothing else
is lost needs, of numbers, that `AsDouble` keeps what is exact (`ExactDouble`)
and, of texts, that a plain message is left as it is (`ErrorTextIs`), that what
`CString` cuts once is not cut again (`CStringIs`, `ConcatWithoutNul`, `TrimIs`)
and that a line without line breaks is written unchanged (`OneLineIs`). The value of a reply
*describes* what is left of it (`Describes`): a value that is no container is
written as that reply, an array's items up to the first nil are the values of the
items left, and so with the pairs of a map and the elements of a set. Different
replies may have one value, in RESP3 the arrays [1] and [1, null], but not
different things left of them (`LeftByValue`, by induction on the depth), so the
code, which sees the value only, has one thing to write. `HandsInv` is the
invariant of the conversion. While containers are under way their lengths are
not set and the stream cannot be read from its end to its beginning; it is read in
pieces, each up to the next container under way (`Reads`), and the piece behind
a container holds the parts written of it so far. `FrameOf` ties these to what is
left of the container's reply and to what its frame has still to take, with the
key of a pair whose value comes next, and `Under` ties the pieces, the frames and
the stack: the part under way is one reply more for the innermost container, and
the containers inside one another are one reply each for the one around them.
A token written, a container begun, a part taken and a container finished have one
lemma each for the pieces (`BeginReads`, `FinishReads`, `WriteReads`) and for the
whole (`WriteFollows`, `BeginFollows`, `TakeFollows`, `FinishFollows`). What a
recursive function gives for a reply or for a place in a stream is not taken
from the library, whose induction theorems the provers cannot use: `Limits`
shows that functions that agree on ever deeper replies have a common limit, and
`ReadingIs` that a sequence read step by step is the one `Reading` chooses.

`LibraryProofs` proves of the generator, for every even base, multiplier,
increment, seed and number of draws, that the digits and carries of rand.c are the
congruence drand48 is defined by (`NextIsCongruential`, a theorem about every
state and not only those a run draws), and that after any calls of
math.random and math.randomseed `RandomSequence` holds (`SequenceDrawn`). It is
first about quotients and remainders (`Division`, `Quotient`), then about one
product and one carry (`MulIs`, `CarryIs`), then about the step. The sequence it is
held against is a recursive function; that each place of it exists and follows
from the one before is an induction, done with sets of naturals
(`Induction`, from the smallest element of a set), because the library's
induction theorems take an operator. The theorem is about `RngSpec`; that the
scripts of `Codecs` take no other step of the generator is seen from its actions,
which all are `RandomSeed`, `Random` or `UNCHANGED rngVars`.

Of SHA-1 it proves `DigestIsOfMessage` (`ShaSpec => []DigestPadded`) for messages
of any length and count words of any number of values that is a multiple of the
bits of a block. The invariant `ShaInv` says of the context, in each phase, of
which sequence it has *absorbed* the bytes: the message, then the message with
the one bit and some zeros. `Absorbed` relates the context to a sequence: the
counts are its bits, the blocks compressed hold all of it up to the last multiple of 64,
the buffer begins with the rest. `UpdateAbsorbs` says that SHA1Update keeps
this for any new data, with the cases of data that ends inside the buffer, fills
it exactly, or fills whole blocks behind it. That the loop of zeros ends at the
place of the count after no more than the zeros the padded message has is
`Padding`; that the count is taken before the padding is counted is what makes
it the message's. The Codecs steps of a digest are those of `ShaSpec`, as with
the generator.

Only model-checked: the properties of `codecs` but for
`RandomSequence` and `DigestPadded`, whose encoders and decoders are RECURSIVE operators over
nested values; the liveness properties `OrphansReclaimed`, `DetachedClosed` and `KillEnds`,
which rest on fairness.

## Not modelled

Left out of the modelled components:

- ScriptEngine's `Defines` and ScriptCall's scripts are not connected: a run in
  a user's state is one step in the first and has no registrations in the second.
- ScriptCall: the text of a number given to server.call (double2ll, ll2string,
  fpconv), the wording of errors. Finalizers (ffi.gc) run while a reply is
  converted, or as calls of the script itself; those that the collection after
  the script (1633-1641), with the context still set, or an allocation during
  the lookup, without one, may run are left out.
- ReplyConversion: the rewording of errors with which the server refuses a
  command before it runs (luajitProcessReplyError; ScriptCall has the refusal, and
  the replies here are those of commands that ran); the stack of callReplyToLuaType, where a failing
  lua_checkstack (224-397) ends the server, and what a nil key that raises leaves
  on it until lua_pcall clears it; what the server keeps behind the text of an
  error, which is read as a C string (399), up to a Nul; what the server's
  ReplyWithError functions do to a text they are given; two tables of equal
  content as keys of a map or elements of a set, which are taken for one;
  metatables (the fields of an error are read outside any
  protected call, and a metamethod that raises there has no handler), tables that
  contain themselves, attribute and promise replies, which the server does not
  send here, and the slot that a set's conversion pushes beyond the three it
  asks lua_checkstack for.
- cmsgpack: cmsgpack_safe, a failing allocator and the buffer that an error
  while encoding leaves, tables that contain themselves.
- cjson: digits of numbers and encode_number_precision; keys that are infinite
  or above 2^31, whose conversion to int is undefined, and the overflow of
  items times ratio; cjson.safe.
- struct: the bits of floats; integers of no byte or more than eight, whose sign
  mask is an undefined shift.

- SHA-1: the compression of a block. Random numbers: intervals longer than an int,
  where `u - l + 1` overflows.

Components left out: the FFI API (Lua code over the server's C API; no document says
which server objects its wrappers release, so there is nothing to hold them
against: zset_first_in_lex_range and its sister lose a string when both bounds
are the same Lua string, and free_server_info leaves the finalizer of
get_server_info in place), the decimal conversion of doubles (arithmetic beyond
TLC's integers, covered by vectors), the debugger stubs, `valkeymodule.h`, logging and
message texts, memory figures, and the LuaJIT runtime itself.
