# Verification of the Schir project

TLA+ models, model-checking runs and machine-checked proofs for
[ricejasonf/schir-project](https://github.com/ricejasonf/schir-project): the
Schir Scheme runtime and compiler (`schir/`), the Nbdl state-management library
(`nbdl/`) and the geometric algebra compiler (`geomalg/`).  All source paths
below are relative to `src/`.

Run everything from this directory:

    tlc -workers 2 -config SchirRuntime_core.cfg SchirRuntimeProps
    tlc -workers 2 -config WsEndpoint_close.cfg WsEndpointProps
    tlc -workers 2 -config MCLocalVersion.cfg MCLocalVersion
    tlc -workers 2 -config MCGeoPasses.cfg MCGeoPasses
    tlc -workers 2 -config MCSchirCompiler.cfg MCSchirCompiler
    tlapm SchirRuntimeProofs.tla
    tlapm SchirContextProofs.tla
    tlapm SchirObjectsProofs.tla
    tlapm SchirSyncProofs.tla
    tlapm WsEndpointProofs.tla
    tlapm WsHandshakeProofs.tla
    tlapm WsStreamProofs.tla
    tlapm LocalVersionProofs.tla

`PROJECT.json` lists each run with its module, configuration and properties, the
source lines each definition stands for (`map`), the hazards of the code with the
properties aimed at them, the disagreements found (`findings`), and the theorems.

## 1. The system

The repository is an umbrella of three C++ projects on top of MLIR and Boost.
Nothing in it starts a thread.  What makes it hard to test is not parallelism
but *re-entrancy*: continuations that are resumed many times, errors raised while
unwinding, run loops nested in run loops, and socket callbacks that arrive in an
order nobody chose.

### 1.1 Schir: the runtime

| component | state | operations | what makes it correct |
|---|---|---|---|
| `ContinuationStack` (`schir/include/schir/ContinuationStack.h`) | the stack of continuations, `ApplyArgs` (the pending call), `CurDW`, `BottomDW`, the winding vectors | `PushCont`, `Apply`, `Cont`, `DynamicWind`, `CallCC` and the escape procedures it makes, `TraverseWindings`, `Resume`, `Yield`, `PushBreak`, `ClearStack` | a continuation is resumed in the dynamic extent it was captured in; before/after thunks run on every way in and out, in order; traversals terminate |
| exceptions (`schir/lib/Context.cpp` 1279-1345) | `ExceptionHandlers` | `WithExceptionHandlers`, `Raise`, `RaiseContinuable` | a handler runs with the outer handlers; the handlers are always those of the extent; an uncaught error leaves all extents and ends the loop |
| managed objects and environments (`Context.cpp` 1374-1494) | a sentinel per object with its error mark, `EnvStack` | `DynamicWind` of an object, `WithEnv` | an object is alive inside its extent and destroyed exactly once, when its extent is left for good; the environment set is that of the extent |
| nested loops (`Context::RunSync`, `OpGen::CallSyntax`, `OpGen::SetError`) | C++ locals of each call, `RunSyncDepth` | run a Scheme macro to completion below the outer loop; hand a compile error outwards | the nested loop ends with the stack, extent and handlers of its caller; errors are unwound in the loop they belong to |
| top level (`schir/lib/SchirScheme.cpp`) | pending top-level expressions, parser | `ProcessTopLevelCommands`, `Break`, `Resume` | expressions are processed in order; `Break` suspends and `Resume` continues the same loop |
| modules (`Context::LoadModule`, `InitModule`, `Import`) | module table, initialisation state, cleanup procedures | load a module from source, initialise and import it | a module is initialised once; cleanups run once |
| lexer, parser (`Lexer.cpp`, `Parser.cpp`) | cursor, token | pure functions of the input | |
| compiler (`OpGen`, `OpEval`, `Quasiquote`, `PatternTemplate`, `Mangle`) | MLIR builder, binding scopes | code generation and evaluation | bindings resolve lexically; mangling is injective |
| heap (`Heap.cpp`) | bump allocator | allocate; collection is switched off in the code | |

The components interact through shared state on one C++ stack.  `Resume` runs
one pending call after the other.  Closures call back into the run loop by
leaving a pending call in `ApplyArgs`, never by recursion, except for `RunSync`.
Dynamic wind is the meeting point: exceptions, managed objects and environments
are all built as windings whose before and after thunks install and restore a
piece of global state.  That is why the core model has them together: a run loop
with only user thunks would hide every interesting case.

### 1.2 Nbdl: the library

| component | state | operations | what makes it correct |
|---|---|---|---|
| websocket endpoint (`nbdl/include/nbdl/websocket/detail/`) | send queue and its running flag, close marks, reader position | `send_message`, `send_close`, `start_messaging`, `stop`; the completion handlers of reads and writes; control frames | messages arrive once, in order; each side sees one close; the queue keeps moving |
| local version (`nbdl/include/nbdl/local_version.hpp`, `delta.hpp`) | value, pending value, ids of unconfirmed local deltas | apply a local delta; apply a confirmed delta | once everything is confirmed the value is what the server has |
| context (`nbdl/include/nbdl/context.hpp`, stores) | one store per path type | `push_message`, `match` | "All actions MUST be applied to the store BEFORE the message is propagated" |
| app server and client, serializers | connections | start-up and hand-over of sockets | |
| web UI, SQL, binder | generated access code over external libraries | | |
| spec compiler plugin (`nbdl/utils/schir_plugin`) | MLIR | passes and translation | |

### 1.3 Geomalg and common lowering

| component | state | operations | what makes it correct |
|---|---|---|---|
| types and tags (`geomalg/include/geomalg/BladeTag.h`, `Metric.h`, `lib/Geomalg/Type.cpp`) | | pure functions on basis blades, signs and types | signs agree with the Clifford product |
| expansion, simplification, factoring (`lib/Geomalg/Passes.cpp`) | the operations of one function, MLIR's worklist | some sixty rewrite patterns and helpers in `ExpandPass`, `SimplifyPass`, `FactorPass` | a rewrite keeps what the function returns; types stay true; the passes end |
| lowering (`lib/Geomalg/Lower.cpp`) | | conversion to vectors of scalars and arithmetic | the arithmetic computes the value; nothing is left over |
| bindings, tools | | registration | |

What is hard here is not concurrency but confluence: the greedy rewriter applies
patterns in an order nobody wrote down, each pattern reads types that
others are still narrowing, and a sign is decided in a dozen places.

### 1.4 Where the difficulty lies

* Escape procedures called from anywhere: in a before or an after thunk, in an
  exception handler, in the middle of another traversal, or long after the extent
  was left.
* State saved in closures (`prev handlers`, `prev environment`, `prev winding`)
  that is reinstalled later, in an order the author of the closure did not see.
* Errors that destroy the stack which holds the very frame that would have
  cleaned up (`Raise` with no handler calls `ClearStack`).
* Two loops on one stack (`RunSync`).
* Socket completion handlers against local calls (`send_close` on both sides at
  once, `stop` during a write).

## 2. The modules

| module | what it is |
|---|---|
| `DynamicExtents` | abstract specification of the run loop: a tree of extents, control moves along one edge at a time, leaving an extent calls its exit thunk in the parent |
| `SchirRuntime` | the run loop: stack, windings, escapes, exceptions, managed objects, environments, user code |
| `SchirRuntimeProps` | its properties, the inductive invariant `IInv` and the refinement mapping to `DynamicExtents` |
| `SchirRunSync` | composes `SchirRuntime` with nested loops and compile errors |
| `SchirRuntimeProofs` | the theorems about the extents of `SchirRuntime` |
| `SchirContextProofs` | the theorems about its handlers and environments |
| `SchirObjectsProofs` | the theorems about its managed objects |
| `SchirSyncProofs` | the theorems about `SchirRunSync` |
| `MessageStreams` | abstract specification of a pair of endpoints: a FIFO of messages per direction |
| `WsEndpoint` | two websocket endpoints, the connection and the `io_service` between them |
| `WsEndpointProps` | its properties and the refinement mapping to `MessageStreams` |
| `WsEndpointProofs` | the theorems about the send queue and the close frame |
| `WsHandshakeProofs` | the theorems about the close handshake |
| `WsStreamProofs` | the proof that the endpoints implement `MessageStreams` |
| `LocalVersion` | local versions at several clients of one root, with their properties and inductive invariant |
| `MCLocalVersion` | an entity of two fields for TLC |
| `LocalVersionProofs` | the theorems about confirmed changes of `LocalVersion`, and about those of one's own |
| `GeoAlgebra` | blade tags and the metric, and the reference: multivectors and the Clifford product |
| `GeoGraph` | the operations of a function as a graph, their types, and what each means |
| `GeoExpand`, `GeoSimplify`, `GeoFactor` | the rewrite patterns |
| `GeoLower` | the conversion to arithmetic |
| `GeoPasses` | the passes: the rewriter with its worklist, the elimination of common subexpressions, the order of the phases; the properties |
| `MCGeoPasses` | 32 functions for TLC |
| `SchirEnv` | data, environment frames, lookup of identifiers |
| `SchirOpGen` | the compiler: an expression becomes operations in blocks of functions |
| `SchirOpEval` | the execution of a program, expression by expression and operation by operation |
| `SchirSemantics` | reference: what a program means, as an abstract machine that knows no compiler |
| `MCSchirCompiler` | programs for TLC, the properties |

### 2.1 `SchirRuntime`: state and actions against the code

| variable | code |
|---|---|
| `stack` | the frames between `Bottom` and `Top` of `ContinuationStack`; a frame is the closure a `PushCont` was given |
| `call` | `ApplyArgs[0]`: the callee of the pending call; `Bottom` ends `Resume` |
| `curDW`, `bottomDW` | `CurDW`, `BottomDW`; a winding is its index in `winds`, 0 is the null `DWind` |
| `winds` | the vectors `DynamicWind` allocates: depth, parent, before, after |
| `handlers` | `ExceptionHandlers`, a Scheme list as a sequence |
| `conts` | for each escape procedure the saved copy of the stack and the winding of its creation |
| `objs` | for each managed object its `Sentinel` (alive or destroyed, `IsError`) and thunks |
| `env` | `EnvStack`, as the object that owns the environment |
| `fuel` | no counterpart: bounds what user code does |

A C++ lambda handed to `PushCont` or `CreateLambda` is a record: `fn` names the
lambda, the other fields are its captures.  One step is one turn of
`ContinuationStack::Resume` (it pops the callee and runs it), so an action is a
whole lambda body, from its first statement to the `Apply`, `Cont` or `Raise`
that ends it.  `TraverseWindings` and `Raise` call themselves or each other in
tail position; each level is a pending call of its own, which splits one turn into
several steps but lets nothing in between.

User code is whatever Scheme or C++ may do: at each turn in a `User` closure it
returns or performs one of the operations in `Ops`.  This includes the thunks of
windings, handlers, and the before and after thunks of a managed object, so errors
and escapes happen at every place the language allows them.

The field `at` of a closure is auxiliary (no action's guard reads it): the winding
the code of that closure belongs to.  Nothing in the C++ records it, it is what
`ResumedInExtent` compares with `CurDW`.

Definitions marked *Broken* are plausible mistakes (a dropped guard, a missing
restore, the wrong order); no action uses them.  They document which property
notices what, and `PROJECT.json` ("mutants") pairs them.

### 2.2 `SchirRunSync`

`native` is the C++ stack: one record for each active `RunSync`, with the locals
it restores on return.  `UserRunSync` is the call: `CatchHandler` becomes the only
handler, `BottomDW` the current winding, a `Break` frame is pushed, and the nested
`Resume` runs (the turns of `SchirRuntime`).  The loop ends by `Break` or
`CallCatch`; then `SyncResult`, `SyncRaiseError` or `SyncPassError` is what
`CallSyntax` and `SetError` do with the result.  `UserCompileError` is a builtin
that finds an error in what it compiles and calls `SetError`.  `passed` is a history
variable: some nested loop ended with an error handed outwards.

### 2.3 `WsEndpoint`

| variable | code |
|---|---|
| `ep[e].running`, `queue` | `is_send_queue_running`, `send_queue` |
| `ep[e].control` | `pending_control_frame`, the one control frame that may wait: none, a pong or a close |
| `ep[e].closeReceived`, `stopped`, `started` | `is_close_received`, `is_stopped`, `is_started` |
| `ep[e].writes` | the `async_write` in flight, with what is left of the message after it; a sequence, so that a second write would be seen |
| `ep[e].reading`, `payload` | the loop of `keep_reading` runs; what it has of the current message |
| `ep[e].events`, `got` | the calls of the user's handler, and the messages it was given (history) |
| `net`, `done`, `broken` | the socket: frames under way, operations whose completion handlers are due, the connection is lost (external) |
| `sent` | what users handed to `send_message` (history) |

Every member function runs to its end on the thread of the `io_service`.  So a
function is an operator from the endpoint before to the endpoint after
(`StartSendQueue`, `SendClose`, ...) and an action is what happens between two
returns to the `io_service`: a user's call (`SendMessage`, `CallClose`,
`StartMessaging`, `Stop`), a completion handler of a write (`WroteFragment`,
`WroteMessage`, `WroteClose`, `WriteFailed`, `CloseWriteFailed`) or of the reader
(`ReadData`, `ReadClose`, `ReadPing`, `ReadPong`, `ReadBadInput`, `ReadFailed`).
`Transmit`, `Arrive` and their failures are the socket.  Handlers of one side run in
the order in which its operations completed, which is what boost::asio does for one
`io_service` thread.

Abstracted: the parts of a frame (header, length, mask, payload) are read in one
step, as nothing can act on the reader in between; a payload is a sequence in which
every byte is the number of its message.  `WriteFailed` chooses freely whether the
error is one of those the catch expects (eof, reset).  `CloseWriteFailed`: the
promise loop is terminated before the close frame is written, so the failure
of that write reaches a resolver that no longer exists; the model lets the catch
run or nothing happen.

### 2.4 `LocalVersion`

| variable | code |
|---|---|
| `store[c]` | `local_version` of client c: `value`, `pending_delta`, `local_uids` |
| `requests` | the upstream messages made so far; a uid is an index |
| `up`, `log`, `pos` | the connections and the root producer (external): changes on their way up, those confirmed with the entity after each, and how far each client has received them |
| `stale` | no counterpart: the fields of `pending_delta` that are older than the entity that last replaced the value |

`Update` and `Create` are a user's message applied to the store and sent up;
`Receive` is the confirmed message applied; `Confirm` is the root.  A `delta` is a
function from the fields it sets, so `Apply` is both uses of `apply_delta` (to an
entity and to another delta).

The root and the connections are not in the code; the model takes what the store
is written for: all clients see confirmed changes in one order and each client's
changes keep theirs.

### 2.5 `GeoPasses` and the modules below it

| variable | code |
|---|---|
| `ops`, `order` | the operations of the function's block: for each its name, result types, operands and attribute; their order |
| `metric` | the metric of the module: conformal, or not known |
| `todo`, `changed` | the worklist of MLIR's greedy driver (external) and whether something was rewritten since it was filled |
| `round` | how often it was filled, up to `MaxRounds` (the driver's limit of iterations) |
| `dirty`, `phase` | the loops of `ExpandFuncPass::run`, `SimplifyPass` and `FactorPass`: *expand*, *sum*, *simplify*, *return*, *factor*, *products*, then *done*; *failed* when the driver gives up, *aborted* when an assertion of `replaceOp` is tripped |
| `rule`, `want` | no counterpart: the pattern applied last, and what the function returned when it was built |

A *handle* is an operation's result that exists (`id`, `r`) or is still to be built (`new`).
A pattern is an operator from an operation to an *edit*: `Failure`, or the replacement
of an operation, new operands for it, or a new type for it.  `Rewrite` makes the edit:
it builds the new operations (`Emit`), replaces uses, and puts on the worklist what the
driver puts there.  One step is one successful pattern, one dead operation erased, one
refill of the worklist or one change of phase; patterns that fail change nothing and take no step.
`Try` and `Patterns` give the patterns of a phase in the order of their benefits.

`GeoAlgebra` has two halves that know nothing of each other: the tags, signs and
products the code computes with, and the reference, in which a multivector is a function
from blades to coefficients and the product is defined from `a S = a . S + a ^ S`.
Coefficients are residues modulo a prime, so inverses and (for the arguments used)
square roots are exact.  `Results` gives each operation its meaning, `Meaning` a function.
`ValueOf(Lowered, ...)` runs the arithmetic the function is lowered to, on vectors of
elements, without looking at the graph's meaning.

Some operators of these modules pass the intermediate values of one C++ function to one another
instead of naming them in a `LET`: TLC's statistics expand a `LET` once for each use.

### 2.6 `SchirOpGen`, `SchirOpEval` and the modules around them

`OpGen` is one object whose methods call one another and insert operations as a side
effect.  A top-level expression is compiled without anything else happening, so the
model does it in one step: each method is an operator from the record `g` to the `g`
it leaves, with its return value in `g.res`.

| field | member of `OpGen` |
|---|---|
| `n`, `fns`, `blocks` | the operations of the module: values are numbered, a function has a block and the types of its parameters |
| `ip` | the insertion point of `Builder`, as a block and the number of operations behind it |
| `scopes` | `LambdaScopes`; each with its captures, its scope of `BindingTable` and, for a continuation, the call it continues |
| `tail`, `defs`, `top`, `err` | `IsTailPos`, `IsLocalDefineAllowed`, `TopLevelOp`, `CheckError()` |
| `globals`, `names`, `known` | the `GlobalOp`s of the module, the names of the `Environment`, and the values known at compile time |
| `frames`, `binds` | the `EnvFrame`s and their `Binding`s |
| `vals` | the operands `HandleCall` has collected on the C++ stack |

| variable of `SchirOpEval` | code |
|---|---|
| `prog`, `next` | the expressions of `ProcessPendingExprs` and how many were taken |
| `gen` | `OpGen` |
| `known`, `boxes` | the values of globals, the `Binding` objects |
| `vals`, `ip` | `ValueMap`, the operation `OpEval` is at |
| `closure`, `args` | the callee's captures and the arguments of the call |
| `stack` | the frames of `ContinuationStack`, without windings |
| `out`, `status` | what `write` wrote; whether the program compiles, runs, is done or failed |

Each operation of the dialect is an action (`VisitLambda`, `VisitPushCont`, ...).  The
assertions of `getValue` are guards of all of them: an operation with an operand that is
not in the table has no step, and `OperandsSound` says that this never happens.

`SchirSemantics` shares the data and `FormalIds` with the compiler and nothing else.  It
looks names up in a map from names to locations, so it cannot lose a variable between a closure
and its continuation, evaluates internal definitions when the body is entered, and keeps a
continuation as a sequence of frames that are expressions.

## 3. The runs

| run | asks | bound |
|---|---|---|
| `SchirRuntime_core` | do closures run in their extent, do handlers match it, does control follow the tree, does the loop end unwound, whatever winds, escapes and errors are combined | 6 operations |
| `SchirRuntime_env` | is the environment that of the extent, alive, destroyed only from outside and not left over, among escapes, re-entries, errors and thunks of managed objects that are user code | 6 operations |
| `SchirRunSync` | does a nested loop give its caller back the extent, stack, handlers and environment, with loops in loops and errors handed outwards | 6 operations, 2 nested loops |
| `WsEndpoint_close` | messages both ways while one side closes: each side is told once, after both close frames, with no message after it; messages arrive, the handshake ends | 2 messages a side, of one or two frames |
| `WsEndpoint_faults` | both may close, one may stop, the connection may break: one write in flight, nothing stuck in the queue, nothing after the close frame, the break is noticed | 1 message a side, of two frames |
| `WsEndpoint_foreign` | pings, pongs and unknown frames among the fragments of messages, while this side closes: messages arrive whole and in order (refinement of `MessageStreams`), a ping does not undo a close | 2 foreign frames |
| `MCLocalVersion` | do clients show what the root has once nothing of their own is under way; do changes of one's own flicker | 4 changes by 2 clients, 2 fields |
| `MCGeoPasses` | does every rewrite keep the value and the types true, do the passes end with everything expanded, does the lowered arithmetic compute the value | 32 functions |
| `MCSchirCompiler` | does every program write what it means, is every operand there when an operation reads it, does every program end | 174 programs |
| `WsEndpoint_full`, `LocalVersion_create`, `GeoPasses_inverse` | three statements of comments and tests the code does not keep (section 6) | |

**Bounds of the Schir runs.**  `MaxOps` counts the operations user code performs in a behaviour,
`HostCall` included; returns and everything the runtime does by itself are not
counted.  With 6 one can call into the runtime, open two extents, save a
continuation in one, leave, and re-enter through it while an error is raised on
the way: every pair of features meets at every depth the code distinguishes
(source deeper, destination deeper, siblings under a common ancestor, no handler, one
handler, a handler below a handler).  `MaxNested` bounds nested `RunSync` calls;
two is enough for an error to be handed from one to the next and raised by the
last.

**Bounds of the endpoint.**  `MaxFrame = 2` with messages of 0, 1 and 3 bytes gives
the empty message, the message of one frame, and the message of two (a last frame
that is not full); messages that are a multiple of `MaxFrame` have a run
of their own, as the code fails for them.  Two messages on each side are enough for
one in the queue while another is being written and a close is asked for.
`StartAfter`, `CloseAfter` restrict when users start and close; the runs leave
both at 0.

**Bounds of the local versions.**  Four changes: two of one client under way, with
two of the other (or a create) confirmed before, between and after them.  Two
fields with overlapping deltas are enough, as fields do not depend on one another;
a third client would be one more source of foreign changes.

**Bounds of the compiler of geometric algebra.**  The 32 functions use every operation
the model has, on scalars, vectors, bivectors, a sum of grades 0 and 2, unit vectors, a point of the
conformal space with the two null vectors, and versors; products of
sums, nested inverses, casts and conversions to every kind of type, sums that factor and sums
that are squares; with an inferred or a stated return type, with the metric and without.
The basis {1, 2, 8, 16} has two ordinary vectors and the two null ones, on which every case of the
metric occurs.  Arguments are one value for each type: two functions that differ as polynomials
differ at it unless its coordinates happen to be a root modulo 10007.  `MaxRounds` is
MLIR's default of 10 iterations.

**Bounds of the Schir compiler.**  The programs are templates whose holes are filled with
expressions over the variables `x` and `y` (`Uses`, applied once or twice): a variable as it
is, in a procedure called at once, as an operand before and after a call, in either branch of an
`if`, assigned, and passed to a saved continuation.  The templates put the expression
into a body, an initializer of an internal definition, a procedure over globals that change, a
clause of a `case-lambda`, a procedure with a rest parameter, and a place that a saved
continuation returns to a second time.  With two uses inside one another a value is
used three functions away from its own, which is as deep as the cases of `LocalizeRec` go
(own function, the next one, one that passes it on).  Further programs go
wrong: calls of what is no procedure, wrong numbers of arguments, malformed syntax.

**Fairness.**  `SchirRuntime`: `WF(Turn)`, because `Resume` is a `while` loop that
runs until the pending call is `Bottom`; `HostCall` has none, nobody has to call
the runtime.  `Terminates` would fail without the bound on operations, as a Scheme
program may loop: it says that the *runtime* adds no infinite behaviour of its own
(a traversal that never arrives, an error that is raised for ever).
`WsEndpoint`: `WF(IoStep(e))`, operations on a socket complete or fail, and
`WF(WriteStep(e) \/ ReadStep(e))`, the `io_service` runs the handlers that are due;
no user has to call anything.  `GeoPasses`: the passes run until they end; `Fairness` is
weak fairness of `Next`, with the condition under which `Next` is enabled written out (TLC
would compute it by trying all patterns).  `SchirOpEval`: `WF(Execute)`, as OpEval runs until a
terminator and the run loop calls what is next; the compiler returns, so the program is not
compiling for ever (`[]<>(status # "compile")`: weak fairness of `CompileNext \/ Finish`,
with the condition under which one of them is enabled written out, because TLC would find it by compiling).
`LocalVersion` has no liveness property.

**Exceptions written into properties.**
* `SyncHandlers` and `SyncUnwoundAtEnd` hold as long as no nested loop ended with an
  error passed on by `SetError` (`passed`, section 6).
* `NoneLeftUnhandled` is `NoneLeft` for environments, in programs without a handler of their own
  (one that returns clears the mark of an error that goes on).
* `CloseEnds` needs `ClosesIfAsked`: a close asked for before `start_messaging` on
  an empty queue waits for the next message, as `start_messaging` looks at the
  queue only (`endpoint_impl.hpp:185`).
* `BreakNoticed` excepts a side that was answering the close of its peer: the failure
  of that write goes to a loop that is gone.
* `NothingAfterClose` is checked where the connection lasts; when a write fails while
  closing the user is told of the close at once, and the reader may still hand over
  messages after it (`endpoint_impl.hpp:272`).
* `Converged` excepts the fields in `stale` (section 6, `LocalVersion_create`).

**Deadlock** is not checked: once the bound is used up and the loop, the connection or
the messages have ended, nothing is left to do.

## 4. The proofs

Every theorem holds for all values of the constants under the assumptions its
modules name; where it has a hypothesis, a finding of section 6 shows that it is needed.

### 4.1 Extents: `SchirRuntimeProofs`

`SchirRuntimeProofs` proves for every `MaxOps` and every set `Ops` of operations
(`OpsAssumption`):

| theorem | statement |
|---|---|
| `Invariant` | `Spec => []IInv` |
| `TypeCorrect` | `Spec => []TypeOK`: captures never dangle |
| `Resumed` | `Spec => []ResumedInExtent` |
| `Tree` | `Spec => []WindingTree` |
| `Refinement` | `Spec => RefinesExtents`, that is `DynamicExtents!Spec` under the mapping |

`ResumedInExtent` is not inductive: it speaks of the pending call only, and the next
pending call comes from the stack, or, when an escape procedure is called, from a
saved copy of a stack made long ago.  `IInv` says why it holds anyway:

* `Placed`: the captures of a closure agree with the extent it belongs to.  For
  example the frame that enters a winding belongs to its parent, and
  the frame that restores a saved stack belongs to the winding saved with it.
* `LeadsTo`: the extent control is in when that closure gives way to the frame below.
  For most it is its own extent; for the exit of a winding the parent; for a
  traversal its destination.
* `Stacked`: each frame leads to the extent of the frame below it (only
  `Restore`, which drops the stack, is exempt).
* `Saved`: so does each frame of each saved continuation, whose top belongs to
  the winding saved with it.

A push preserves `Stacked` when the pushed frame leads to the extent of the old
top, and a pop is then a step to the extent the new callee belongs to.  Growing the
windings, objects or continuations preserves everything because captures refer
to older ones (lemmas `TypesGrow`, `InOrderGrows` and `SavedGrows`).  The proof has one
lemma per action; each gives the stack facts (`Len`, `SubSeq`) and the type facts
their own steps.  The refinement follows from `IInv` step by step: every action
maps to `Open`, `Enter`, `Leave` or `Stay`.

### 4.2 Handlers and environments: `SchirContextProofs`

| theorem | statement |
|---|---|
| `ContextInvariant` | `Spec => []ContextInv` |
| `HandlersRestored` | `Spec => []HandlersOfExtent` |
| `EnvRestored` | `Spec => []EnvOfExtent` |
| `Unwound` | `Spec => []UnwoundAtEnd` |

The *context* is what windings install: the exception handlers and the environment.
None of the properties is inductive, for three reasons.

* They speak of user code only.  Between a before thunk and the `SetDW` that opens
  its extent the context is ahead of `CurDW`, and before an after thunk it is
  behind.  So each frame *needs* a context when it is continued (`Needs`: that of its
  extent, except `WindBody` and `SetDW`, which run after a before thunk), and each frame
  leaves the one that the frame below it needs (`Fits`).
* They speak of the pending call only; the next one comes from the stack or from a saved
  continuation, so `Linked` and `SavedLinked` say the same of each frame of those.
* It is not true of all frames.  A handler that was called for an error runs in the outer
  handlers, above frames that need the inner ones; these are reached only
  through the `RaiseAgain` or the return of the handler in between, which raise or put the
  handlers back.  A frame counts unless something above it never returns (`Shadowed`).

The context of an extent is a function `X` of the winding: the parent's changed by the
before thunk (`WindsRestore`; the after thunk changes it back).  The properties
define it by recursion over the windings (`Around`, `Innermost`), and no induction over
data is available, so the invariant carries the link along: `ChainsInstall`
says that the chain function exists for the windings there are and that the innermost
winding that installs something gives what `X` says.  A new winding extends both by one
step.  `ContextOf(X)` with `X` computed was checked by TLC with all
operations before it was proved.

### 4.3 Managed objects: `SchirObjectsProofs`

| theorem | statement |
|---|---|
| `ObjectInvariant` | `Spec => []ObjectInv` |
| `LeftBeforeDestroyed` | `Spec => DestroyedOutside` |
| `EnvAlive` | `Spec => []EnvAliveInExtent` |
| `EnvironmentInvariant` | `Spec => []EnvironmentInv` |
| `EnvironmentsDestroyed` | `Spec => []NoneLeftUnhandled` |

An object's extent can be entered and left many times, by escapes from and into it.  The
closure that destroys the object is pushed below the extent when the object is made, and by
`SafeAfter` when an error leaves the extent, and saved continuations hold copies of it.
The invariant is about these closures and not about the object.  `Y` gives each extent the objects of the windings
around it, and grows with the windings as `X` does in `ContextInv` (`Around0`; `Outside` links it
to `Around`).  There are two arguments.

* *Outside.*  Every closure on the stack, in a saved continuation or pending that destroys
  an object, or pushes such a closure when it is called (`Destroy`, `SafeAfter`,
  `ErrorThunk`, and `WindBody`, which captures them), belongs to an extent that is not inside
  the object's (`Free`, `Spares`).  By `ResumedInExtent` it runs in the extent it
  belongs to.
* *Checked.*  A closure that enters the extent of an environment (`WindBody` before its first
  entry, `SetDW` later) is on top of the stack while the pending call checks that the
  environment is alive (`SafeBefore`) or, after the check, sets it (`SetEnv`); otherwise something
  above it never returns (`Entered`, with `Shadowed` of `SchirContextProofs`: a check that
  fails raises over a closure that is then never reached).  Nothing runs between the check
  and the entry, because the Before thunk of an environment is not user code; for an object whose
  Before thunk is, `SafeBefore` checks too early and the statement is false, so
  `EnvAliveInExtent` speaks of environments.  While control is inside, the first argument keeps
  the environment alive.

All of it but `Outside`, which follows from how `Y` is computed, was checked by TLC with `Y`
computed, all of `UserStep` and 5 operations, before it was proved.

`EnvironmentInv` adds what `NoneLeftUnhandled` needs: each environment that is alive is accounted
for.  It speaks of behaviours so far without saved continuations and handlers of the user
(`Unhandled`; one that is about to be installed, `Installing`, counts too, so that
`Unhandled` once lost is lost for good), and has two modes.

* *Staying.*  No error is on its way.  Then every frame is one of code that goes on
  normally (`Calm`; nothing re-enters an extent and traversals go to the null winding), and for
  each environment `o` some frame, or the pending call, destroys it (`Destroys`: its `Destroy`
  frame, or a traversal that leaves its extent with `o` marked) while every one above keeps it
  (`Keeps`): it raises nothing, or it raises in the extent of `o`, where `o` is
  marked or its `ErrorHandler` is installed (`Guarded`, by `HandlersRestored`'s `X`), or it is
  on the way into the extent or out of it.
* *Leaving.*  An error is passed from handler to handler.  All handlers that are due are those of
  objects, each environment is around the extent of the error, and it is marked or its
  `ErrorHandler` is due.  When none is left, each is marked, the stack is dropped, and
  the traversal to the null winding is what destroys them all.

An error in an object's Before thunk comes before its extent is open: the object is marked, its
`Destroy` frame is dropped with the stack, and the unwinding does not run its `SafeAfter`.
This is why the theorem is about environments, whose thunks are not user code (`EnvsRestore`);
such an error of another object, inside the extent of `o`, still finds the `ErrorHandler` of `o`.  With a handler of
the user the statement fails (section 6, `Context.cpp:1414`).  The two modes were checked
by TLC on 2.6 million states before they were proved.

### 4.4 Nested loops: `SchirSyncProofs`

For every `MaxOps`, every `MaxNested`, and every set `Ops` that does not have both `callcc` and
`throw` (`NoEscapes`):

| theorem | statement |
|---|---|
| `SyncInvariant` | `SyncSpec => []SyncInv` |
| `NestedUnwound` | `SyncSpec => []SyncUnwound` |
| `NestedKeepsOpGen` | `SyncSpec => []OpGenKept` |
| `NestedHandlers` | `SyncSpec => []SyncHandlers` |
| `NestedUnwoundAtEnd` | `SyncSpec => []SyncUnwoundAtEnd` |

With both in `Ops` TLC finds a counterexample to each of the four properties, and the code does nothing to
exclude it: see `OpGen.cpp:1536` in section 6, and the hazard at `Context.cpp:1501`.  The theorems are about
user code that winds, raises, handles, manages objects and compiles, in loops in loops to any depth.

The properties speak of the moment RunSync returns; what makes them true are the frames below the
nested loop, which its own code never sees.  `ContextInv` (4.2) does not hold here, because the loops share
the windings and the handler list, and because an error passed on leaves extents of a finished loop open.
A *view* `K` of a state (`Viewed`) says what is still true:

* Each frame belongs to the outermost loop or to a nested one (`Loop`), by where the `Break` frames are.  A frame
  needs the extent and the environment it needed in 4.2; the handlers only in the outermost loop
  (`Same`), where they are never `CatchHandler`; in a nested loop the handler list ends in it
  (`Suits`).
* `G` are the windings around control, now or where a frame was pushed; `P` gives for each the
  windings around it, and `X` its context.  Windings that have been left for good are forgotten,
  so nothing has to be said of what an error abandoned.
* `Nested`: nested call `j` was made inside the extents of the calls before it, its `Break` frame is on the stack
  at the height recorded when it was made, and what it saved is the context of the winding it
  was made in.  Without escapes control only travels up, to windings in `P`, and the frames of a loop stay
  inside the extents of its nested calls (`Within`, `Reached`).
* A frame above which something raises is not reached by returning (`Dead`).  When an error ends a loop
  the frames of that loop remain on the stack, dead, and the caller's `Raise` is above them.
* Environments grow inwards: an inner winding has the environment of the outer one or a later
  one.  So when `SetError` finds a call with the same environment further out, all calls in
  between have that environment too, and the one the error is passed on to returns in the
  environment it was called in (`CallerEnv`).

An error passed on to the outermost loop leaves extents open there.  From then on (`passed` and
no nested loop) nothing is claimed, as the properties say; when RunSync is called again a view starts
afresh at its `Break` frame (`lo`, `base`), and the claims about that call hold again.

`SyncInv` has a lemma for each action: what it calls and pushes is a frame of a view, which is the old
one, one with a winding more (`ManagedView`, `WindBodyView`), one with a nested call more
(`RunSyncView`) or one less (`SyncResultView`, `SyncErrorView`).

### 4.5 The endpoint: `WsEndpointProofs`, `WsHandshakeProofs`, `WsStreamProofs`

For every set of message sizes, every frame size, any number of messages, any users that
close and stop, with breaks of the connection and foreign control frames
(`WsAssumption`):

| theorem | statement |
|---|---|
| `QueueInvariant` | `Spec => []QueueInv` |
| `TypeCorrect` | `Spec => []TypeOK` |
| `OneWriteAtATime` | `Spec => []OneWrite` |
| `NothingStuck` | `Spec => []QueueMoves` |
| `CloseFrameIsLast` | `Spec => []CloseIsLast` |
| `ClosingStays` | `Spec => ClosingIsFinal` |
| `CloseIsAgreed` | `OneCloser` gives `Spec => []CloseIsMutual` |
| `CloseToldOnce` | `OneCloser` gives `Spec => [](~broken => NothingAfterClose)` |
| `NothingFollowsClose` | `OneCloser`, no breaks and no calls of `stop` give `Spec => []NothingAfterClose` |
| `MessagesAreStreams` | `NoFullFrames` gives `Spec => RefinesStreams`, that is `MessageStreams!Spec` |

`QueueInv` relates the running flag of the queue to what is due at the socket: either one write
is in flight, or one completion waits for its handler, or nothing is and the queue is over or
at rest; and it follows the close frame from the peer back (`Pipe`): once it is among the frames
under way, read, or handled, nothing is behind it, and the queue that sent it is over.

`HandshakeInv`: a side whose user does not close is closing only because it has read
the close of its peer (`Answers`).  So when the side that did close reads a close frame, its
own was read, hence written, and the completion of that write was handled first
(`CloseBehind`).  `OneCloser` is the hypothesis that not both users close; without it a side is told
twice (section 6, `endpoint_impl.hpp:223`).

`StreamInv` follows the bytes.  A cursor is a byte of a message in the order of sending.  What
the reader has, the read that is due, the frames under way and the frame that is being written lead
from one cursor to the next without a gap (`Chain`), and the queue goes on where the
frame ends.  After a failed write the sender may start a message again, but the connection
is then lost and nothing of it arrives.  `NoFullFrames`, no message of a positive multiple of
`max_frame_size` bytes, excludes exactly the messages of the finding
`WsEndpoint_full`.

### 4.6 Local versions: `LocalVersionProofs`

`LocalVersionProofs` proves for every set of clients, every set of fields and
values, every set of deltas and creates and any number of changes
(`LocalVersionAssumption`):

| theorem | statement |
|---|---|
| `Invariant` | `Spec => []IInv` |
| `TypeCorrect` | `Spec => []TypeOK` |
| `LocalUnconfirmed` | `Spec => []LocalIsUnconfirmed`: `local_uids` is exactly the set of own deltas still to be confirmed |
| `Convergence` | `Spec => []Converged` |

`Converged` speaks only of clients with nothing under way, so it says nothing about
the way there.  `Tracks` does: a field of `pending_delta` is as confirmed or waits for
a local change, and a field outside of `pending_delta` is shown as confirmed (unless a
create of the client itself is under way: `Replacing`).  When the last own change is
confirmed, `local_uids` is empty by `LocalIsUnconfirmed`, every field of
`pending_delta` is then as confirmed, and `value` takes them all.  One lemma for each
operation of the store (`LocalTracks`, `ConfirmedTracks`, `ReplacedTracks`) says that
it keeps `Tracks`, and one for each action that it keeps `IInv`; the log of the root
is append-only (`RootKeeps`), so what has come down does not change.

Its second part proves that own changes do not flicker:

| theorem | statement |
|---|---|
| `KeepsInvariant` | `Spec => []KeepsInv` |
| `OwnNotReverted` | `Spec => []NotReverted` |

Here the difficulty is an older change of a field confirmed while a newer one waits: then
`pending_delta` holds the older value, which must not be shown.  It is not, as
`pending_delta` is applied with the last confirmation only, and `Keeps` says that by then the
newer value has been put over it: a field of `pending_delta` has the last value the user
gave it, or the change that did is still to be confirmed.  This rests on
the order of confirmations (`InOrder`): the changes of one client are confirmed in the order
of their uids.

### 4.7 Only model-checked

* Liveness (`Terminates`, `SyncTerminates`, `Delivered`, `CloseEnds`, `BreakNoticed`, `Compiles`,
  `Finishes`), which is outside the prover's reach, as is `ENABLED`.
* Everything about `GeoPasses` and `SchirOpEval`: the compilers' operators are recursive, over
  graphs and expressions, and what they compute is known by induction only.

Nested loops with escapes are neither proved nor checked: there the properties do not hold (4.4).

## 5. Plan

1. Done: the run loop and nested loops (`SchirRuntime`, `SchirRunSync`), the proof of
   the run loop's invariant and refinement.
2. Done: `WsEndpoint`, two endpoints and the connection between them, against
   `MessageStreams`.
3. Done: `LocalVersion`, with the proof of convergence.
4. `NbdlContext`: stores, producers and consumers; apply before propagate
   (`nbdl/context.hpp`, `push_message` and `match_impl`).
5. Module loading (`LoadModule`, `InitModule`, `Import`: initialised once, cleaned up
   once), `Break`/`Resume` and the top level as further operations of the run loop.
6. Done: the passes and the lowering of the geometric algebra compiler, against the
   Clifford product.
7. Done: scopes, captures and continuations of the Schir compiler, against an abstract
   machine.  Left: macros; mangling as a function checked against a reference
   definition.
8. Done: the proofs of the endpoint's queue, handshake and streams, of `NotReverted`, of
   handlers, environments and managed objects of the extent, of nested loops, and of the
   destruction of environments.
9. Proofs left: nested loops with escapes, where the properties first need a premise that
   says which saved continuations may be called (4.4).

## 6. Findings

Each of these is a listed run in which TLC finds the statement violated:

* `message_sender.hpp:143` *(`WsEndpoint_full`)*: a message whose size is a non-zero
  multiple of `max_frame_size` is sent without the fin bit and merged with the next.
* `local_version.hpp:162` *(`LocalVersion_create`)*: an entity confirmed while a delta
  of the client is under way replaces the value but not `pending_delta`; when
  the delta is confirmed, older fields are written over it for good.

* `Passes.cpp:2319` *(`GeoPasses_inverse`)*: the inverse of a blade of grade 2 or 3 is
  expanded with the square of the blade where its norm is needed, and has the wrong sign.

The following were met while modelling and show with other constants or
definitions; they are written into the premises of the properties, or are hazards:

* `Context.cpp:1414`: an outer handler that returns from `raise` clears the error
  mark; the error, raised again, then leaves the extent and the object is never
  destroyed (`NoneLeft`, of which `NoneLeftUnhandled` is a part, 4.3).
* `Context.cpp:1387`: a handler that escapes back into the extent leaves the mark
  set, so a later normal exit destroys the object twice (`DestroyedOnce`).
* `endpoint_impl.hpp:223`: when both sides close at once, a side that reads the
  peer's close before its own is written is told of the close twice (`NothingAfterClose` with
  both sides closing, `StartAfter` and `CloseAfter` 2).
* `Passes.cpp:2172`: the product of two different unit vectors of one type is taken
  for 1 ("Handle unit vector dot product with itself."; `Suite = "unit"`).
* `Passes.cpp:2414`: vectors over different bases that are orthogonal to each other become
  operands of one `dot`, which the lowering asserts to have equal sizes
  (`Lower.cpp:358`; `Suite = "dot"`).
* `Passes.cpp:246`: `reverse` of a `cast_unitary`, which only handwritten code contains, is
  replaced by a value of a type that does not narrow its own.

* `Context.cpp:1380`: a continuation saved in the before thunk of a managed
  object is resumed after the check that the object is alive.
* `OpGen.cpp:1581`: an error passed on by `SetError` is not unwound in the nested
  loop; after thunks that run later install the nested loop's handlers in the
  outer one.
* `OpGen.cpp:1536`: a macro transformer that escapes to an outer continuation
  breaks the assertion "OpGen should not unwind itself" (add `callcc` and `throw` to
  the `Ops` of `SchirRunSync.cfg`: `OpGenKept`).
* `OpGen.cpp:1161`: `(define y x)`, or `(define x y)` for an `x` that is defined, with a
  variable of the program on the right, stores the binding of that variable in a
  binding (`createTopLevelDefine` does not unwrap it, as `WalkDefineInits` does).
* `OpGen.cpp:688`: `createCaseLambda` does not initialize the pending internal definitions of
  the body around it ("Flush any internal definitions from containing body if any",
  `OpGen.cpp:622`, is in `createLambdaFunction` only); they are initialized within the
  function, at each call.
* `OpGen.cpp:1665`: a variable captured for the first time while internal definitions are pending
  is loaded at the start of the function, and creating that load initializes the
  definitions there, before their bindings exist.
* `OpGen.cpp:1350`: a global loaded before its definition and captured by an inner procedure stays
  undefined in it when it is defined.
* `endpoint_impl.hpp:210`: a close frame overtakes the messages already in the queue,
  which are dropped.

## 7. Not modelled

* Schir: MLIR construction and passes, printing, the memory layout of the stack (a
  popped frame may be overwritten by the next push; each closure was read for it),
  value representation, `SetErrorHandler` (unused in the repository), the heap
  (collection is switched off).
* Schir compiler: macros and `syntax-rules`, quasiquotation, vectors, libraries.
* Websocket endpoint: the opening handshake, masks, length encoding, the lifetime of the
  C++ object, the payload of pings.
* Nbdl: the context and its stores, the app server and client, serializers, the web
  UI, SQL and the spec compiler plugin.
* Geometric algebra: `exp`, `log`, `normalize`, `interp` (transcendental functions and
  comparisons of numbers), `matvec`, calls between functions, diagnostics for stated types that
  do not fit, the memo table and the budget of `FactorSum`'s search (the model searches all),
  rounding, `DotToLinalg` (chosen by a flag), the lowering to SPIR-V and LLVM.
* External libraries, except what the endpoint needs of the socket and the `io_service`
  and local versions of the root.
