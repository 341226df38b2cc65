----------------------------- MODULE SchirOpGen -----------------------------
(***************************************************************************)
(* The Schir compiler: OpGen translates a top-level expression into        *)
(* operations.  An operation sits in a block of a function, a command or a *)
(* global.  Everything after a call that is not in tail position goes to a *)
(* new function, the continuation of the call; a value that is used in     *)
(* another function than its own is captured by every function in between. *)
(*                                                                         *)
(* OpGen is one object that its methods change, here the record g that     *)
(* every operator takes and returns, with the value it would return in     *)
(* g.res.  Besides the fields of SchirEnv:                                 *)
(*   g.n       the last value, g.fns the functions, g.blocks the blocks    *)
(*   g.ip      where Builder inserts: a block and the number of operations *)
(*             after that point, so that it stays the same point when an   *)
(*             operation goes before it; block 0 is no insertion point     *)
(*   g.scopes  LambdaScopes, each with its captures, its part of           *)
(*             BindingTable and, for a continuation, its call              *)
(*   g.tail, g.defs, g.top, g.err                                          *)
(*             IsTailPos, IsLocalDefineAllowed, TopLevelOp, CheckError()   *)
(*   g.globals the GlobalOps of the module with their type                 *)
(***************************************************************************)
EXTENDS SchirEnv

NoValue == [id |-> 0, fn |-> 0, ty |-> "none"]
NoKey   == <<"none">>
BindKey(b)   == <<"bind", b>>
GlobalKey(n) == <<"glob", n>>

Result(g, v)   == [g EXCEPT !.res = v]
WithTail(g, t) == [g EXCEPT !.tail = t]
SetError(g)    == [g EXCEPT !.err = TRUE, !.res = NoValue]
isTopLevel(g)  == g.top = 0

RECURSIVE Visit(_, _), FinishLocalDefines(_), LocalizeRec(_, _, _, _), KeepResults(_, _),
          VisitAll(_, _)

(***************************************************************************)
(* Insertion.                                                              *)
(***************************************************************************)
NoPoint == [blk |-> 0, after |-> 0]
AtEnd(blk) == [blk |-> blk, after |-> 0]
AtStart(g, blk) == [blk |-> blk, after |-> Len(g.blocks[blk].ops)]

\* The operations of a block with op in front of the last ip.after of them.
Inserted(g, op) ==
  [g.blocks EXCEPT ![g.ip.blk].ops = InsertAt(@, Len(@) + 1 - g.ip.after, op)]

\* createHelper: the operation o, whose result has the type ty.
Put(g, o, ty) ==
  [g EXCEPT !.n      = @ + 1,
            !.blocks = Inserted(g, o @@ [r |-> g.n + 1]),
            !.res    = [id |-> g.n + 1, fn |-> g.blocks[g.ip.blk].fn, ty |-> ty]]

NewBlock(g, fn, pattern) ==
  [g EXCEPT !.blocks = Append(@, [fn |-> fn, ops |-> <<>>, pattern |-> pattern])]
NoPattern == [blk |-> 0, r |-> 0]

\* A function, its block, and a value for each of its parameters.
createFunction(g, kind, params) ==
  NewBlock([g EXCEPT !.fns = Append(@, [kind |-> kind, blk |-> Len(g.blocks) + 1,
                                        params |-> params, arg |-> g.n + 1]),
                     !.n = @ + Len(params)],
           Len(g.fns) + 1, NoPattern)

Argument(g, f, i) == [id |-> g.fns[f].arg + i - 1, fn |-> f, ty |-> g.fns[f].params[i]]

PushScope(g, fn, call) ==
  [g EXCEPT !.scopes = Append(@, [fn |-> fn, caps |-> <<>>, tbl |-> <<>>, call |-> call])]
NoCall  == [blk |-> 0, r |-> 0]
BranchScope == 0        \* the scope of a branch of an `if' is no function

\* setTopLevelOp and the entry block of the operation.
setTopLevelOp(g, kind) ==
  LET h == createFunction(g, kind, <<>>)
  IN  [PushScope(h, Len(h.fns), NoCall) EXCEPT !.top = Len(h.fns)]

InsertTopLevelCommandOp(g) ==
  [setTopLevelOp(g, "command") EXCEPT !.ip = AtEnd(Len(g.blocks) + 1)]

\* create: the first operation opens a command, and the first one after the
\* internal definitions of a body initializes those where Builder stands.
Ready(g) ==
  IF g.ip.blk = 0 THEN InsertTopLevelCommandOp(g)
  ELSE IF g.defs /\ ~g.err THEN FinishLocalDefines(g)
  ELSE g

create(g, o, ty) == Put(Ready(g), o, ty)

Flushed(g)  == IF g.defs THEN FinishLocalDefines(g) ELSE g
InCommand(g) == IF isTopLevel(g) THEN InsertTopLevelCommandOp(g) ELSE g

(***************************************************************************)
(* Operations.                                                             *)
(***************************************************************************)
LiteralOp(v)      == [op |-> "literal", v |-> v]
BindingOp(v)      == [op |-> "binding", v |-> v]
UnboxOp(v)        == [op |-> "unbox", v |-> v]
MatchTypeOp(v)    == [op |-> "matchtype", v |-> v]
MatchArgsOp(ps)   == [op |-> "matchargs", params |-> ps]
LoadGlobalOp(n)   == [op |-> "loadglobal", name |-> n]
InitGlobalOp(n, v) == [op |-> "initglobal", name |-> n, v |-> v]
LoadCaptureOp(i)  == [op |-> "loadcapture", i |-> i]
LoadArgOp         == [op |-> "loadarg"]
SetOp(b, v)       == [op |-> "set", b |-> b, v |-> v]
LambdaOp(f, caps) == [op |-> "lambda", f |-> f, caps |-> caps]
PushContOp(f, caps) == [op |-> "pushcont", f |-> f, caps |-> caps]
ApplyOp(f, args)  == [op |-> "apply", f |-> f, args |-> args]
ContOp(v)         == [op |-> "cont", v |-> v]
IfContOp(v, blk)  == [op |-> "ifcont", v |-> v, blk |-> blk]
PatternOp(blk)    == [op |-> "pattern", blk |-> blk]
UndefinedOp       == [op |-> "undefined"]

IsTerminator(o)   == o.op \in {"apply", "cont", "ifcont"}
LastOp(g, blk)    == Last(g.blocks[blk].ops)

createUndefined(g) == Put(g, UndefinedOp, "undefined")

UnwrapBinding(g) ==
  IF g.res.ty \in {"binding", "unknown"} THEN create(g, UnboxOp(g.res), "value") ELSE g

(***************************************************************************)
(* Captures.  The scope j is the function that needs the value v: v itself *)
(* in the function of v, and else a capture that is loaded at the start of *)
(* the function.  A branch sees what its function sees.                    *)
(***************************************************************************)
AddCapture(g, j, v) == [g EXCEPT !.scopes[j].caps = Append(@, v)]

Remember(g, j, key) ==
  IF key = NoKey THEN g
  ELSE [g EXCEPT !.scopes[j].tbl = (key :> g.res) @@ @]

RememberHere(g, key) == Remember(g, Len(g.scopes), key)

\* InsertionGuard: what h inserted it inserted somewhere else.
RestorePoint(h, ip) == [h EXCEPT !.ip = ip]

LoadCapture(g, j, v) ==
  create([AddCapture(g, j, v) EXCEPT !.ip = AtStart(g, g.fns[g.scopes[j].fn].blk)],
         LoadCaptureOp(Len(g.scopes[j].caps) + 1), v.ty)

\* g.res is the value in the scope around the scope j.
CaptureIn(g, key, j) ==
  IF g.scopes[j].fn = BranchScope THEN g
  ELSE Remember(RestorePoint(LoadCapture(g, j, g.res), g.ip), j, key)

LocalizeRec(g, key, v, j) ==
  IF g.err THEN g
  ELSE IF g.scopes[j].fn = v.fn THEN Result(g, v)
  ELSE CaptureIn(LocalizeRec(g, key, v, j - 1), key, j)

LocalizeValueOrBinding(g, v, key) == LocalizeRec(g, key, v, Len(g.scopes))
LocalizeValue(g, v) == UnwrapBinding(LocalizeValueOrBinding(g, v, NoKey))

\* BindingTable.lookup: the innermost scope that has the key.
TableLookup(g, key) ==
  LET j == SelectLastInSeq(g.scopes, LAMBDA s : key \in DOMAIN s.tbl)
  IN  IF j = 0 THEN NoValue ELSE g.scopes[j].tbl[key]

(***************************************************************************)
(* The end of a scope.  The continuations that its code was split into     *)
(* close first: each is pushed, with what it captured, before its call.    *)
(***************************************************************************)
PointBefore(g, call) ==
  LET ops == g.blocks[call.blk].ops
  IN  [blk |-> call.blk, after |-> Len(ops) + 1 - SelectInSeq(ops, LAMBDA o : o.r = call.r)]

PopContinuationScope(g) ==
  LET s == Last(g.scopes)
  IN  [Put([g EXCEPT !.ip = PointBefore(g, s.call)], PushContOp(s.fn, s.caps), "none")
         EXCEPT !.scopes = Front(@), !.ip = g.ip, !.res = g.res]

\* ~LambdaScope of the scope d + 1.
PopLambdaScope(g, d) ==
  LET Pop(h, i) == PopContinuationScope(h)
      h == FoldLeft(Pop, g, [i \in 1 .. Len(g.scopes) - d - 1 |-> i])
  IN  [h EXCEPT !.scopes = Front(@)]

\* Builder goes on in a new function with what the operation r of its block
\* passes on.
createContinuation(g, r) ==
  LET h == createFunction(g, "func", <<"refs">>)
      f == Len(h.fns)
  IN  [PushScope(h, f, [blk |-> g.ip.blk, r |-> r])
         EXCEPT !.ip = AtEnd(h.fns[f].blk), !.res = Argument(h, f, 1)]

(***************************************************************************)
(* Results.                                                                *)
(***************************************************************************)
Expected(g)  == IF g.res = NoValue THEN SetError(g) ELSE g
FirstRef(g)  == IF g.res.ty = "refs" THEN create(g, LoadArgOp, "value") ELSE g
Localized(g) == LocalizeValueOrBinding(g, g.res, NoKey)

VisitOperand(g, e) == Visit(WithTail(Flushed(InCommand(g)), FALSE), e)

SingleResult(g, tail) ==
  IF g.err THEN g ELSE WithTail(Localized(FirstRef(Expected(g))), tail)
SingleValue(g, tail) == IF g.err THEN g ELSE UnwrapBinding(SingleResult(g, tail))

GetSingleResultOrBinding(g, e) == SingleResult(VisitOperand(g, e), g.tail)
GetSingleResult(g, e) == SingleValue(VisitOperand(g, e), g.tail)

\* g.vals holds the operands of the calls that are being compiled.
Keep(g) == IF g.err THEN g ELSE [g EXCEPT !.vals = Append(@, g.res)]
KeepResult(g, e) == Keep(GetSingleResult(g, e))
KeepResults(g, es) ==
  IF g.err \/ es = <<>> THEN g ELSE KeepResults(KeepResult(g, Head(es)), Tail(es))

(***************************************************************************)
(* Names.                                                                  *)
(***************************************************************************)
KnownType(g, n) ==
  IF n \notin DOMAIN g.known THEN "unknown"
  ELSE CASE g.known[n].k = "box"  -> "binding"
         [] g.known[n].k = "prim" -> "proc"
         [] OTHER                 -> "value"

Declared(g, n) ==
  IF n \in DOMAIN g.globals THEN g
  ELSE [g EXCEPT !.globals = (n :> KnownType(g, n)) @@ @]

LoadGlobal(g, n) ==
  RememberHere(create(g, LoadGlobalOp(n), g.globals[n]), GlobalKey(n))

LoadOrLocalize(g, n, local) ==
  IF isTopLevel(g) \/ local = NoValue THEN LoadGlobal(g, n)
  ELSE LocalizeValueOrBinding(g, local, GlobalKey(n))

createGlobal(g, n) == LoadOrLocalize(Declared(g, n), n, TableLookup(g, GlobalKey(n)))

VisitBinding(g, b) == LocalizeValueOrBinding(g, TableLookup(g, BindKey(b)), BindKey(b))

VisitEnvEntry(g, entry) ==
  IF entry.e = "glob" THEN createGlobal(g, entry.n)
  ELSE GetSingleResultOrBinding(g, BindRef(entry.b))

VisitSymbol(g, n) ==
  LET entry == LookupEnv(g, n)
  IN  IF entry = NoEntry THEN createGlobal(g, n) ELSE VisitEnvEntry(g, entry)

(***************************************************************************)
(* Calls.                                                                  *)
(***************************************************************************)
CheckType(g) == create(g, MatchTypeOp(g.res), "proc")

\* Broken: an operand is used where it was computed
LocalizeOperandNever(g, i) == g

LocalizeOperand(g, i) ==
  LET Operand(h) == [h EXCEPT !.vals[i] = h.res]
  IN  Operand(LocalizeValue(g, g.vals[i]))

\* The call of the operand at + 1 with the operands after it.
ApplyOperands(g, at) ==
  create([g EXCEPT !.vals = SubSeq(@, 1, at)],
         ApplyOp(g.vals[at + 1], SubSeq(g.vals, at + 2, Len(g.vals))), "none")

Continued(g, tail) ==
  IF tail THEN Result(g, NoValue) ELSE createContinuation(g, g.res.id)

createCall(g, at, tail) ==
  IF g.err THEN g
  ELSE WithTail(Continued(ApplyOperands(
         FoldLeft(LocalizeOperand, g, [i \in 1 .. Len(g.vals) - at |-> at + i]), at), tail), tail)

Callee(g, e, entry) ==
  IF entry # NoEntry THEN VisitEnvEntry(g, entry) ELSE GetSingleResult(g, e.l[1])

HandleCall(g, e, entry) ==
  createCall(
    KeepResults(Keep(CheckType(Callee(WithTail(Flushed(g), FALSE), e, entry))), Tail(e.l)),
    Len(g.vals), g.tail)

(***************************************************************************)
(* Sequences, bodies and local defines.                                    *)
(***************************************************************************)
VisitAll(g, es) ==
  IF g.err \/ es = <<>> THEN g ELSE VisitAll(Visit(WithTail(g, FALSE), Head(es)), Tail(es))

createSequence(g, body) ==
  IF body = <<>> THEN SetError(g)
  ELSE Visit(WithTail(VisitAll(g, Front(body)), g.tail), Last(body))

createBody(g, body) == createSequence([Flushed(g) EXCEPT !.defs = TRUE], body)

createBinding(g, b, v) == RememberHere(Put(g, BindingOp(v), "binding"), BindKey(b))

createLocalDefine(g, n, args) ==
  IF ~g.defs THEN SetError(g)
  ELSE createBinding(PushLocalBinding(g, n, args), Len(g.binds) + 1, NoValue)

NameTaken(g, b) ==
  \E c \in ToSet(LocalDefines(g)) : c < b /\ g.binds[c].id = g.binds[b].id

\* The binding is loaded before the value is unwrapped.
StoreInit(g, binding) == create(g, SetOp(binding, g.res), "undefined")
InitBinding(g, v)     == StoreInit(UnwrapBinding(Result(g, v)), g.res)

IsLambdaSpec(args) == IsPair(args[1])

DefinedName(args) == IF IsLambdaSpec(args) THEN args[1].l[1] ELSE args[1]

SpecFormals(args) == List(Tail(args[1].l))

(***************************************************************************)
(* Functions.                                                              *)
(***************************************************************************)
ParamTypes(formals) ==
  [i \in DOMAIN FormalIds(formals) |->
     IF HasRestParam(formals) /\ i = Len(FormalIds(formals)) THEN "rest" ELSE "value"]

\* The formals get a frame and the function its block.
createLambdaFunction(g, formals) ==
  IF ~ValidFormals(formals) THEN SetError(g)
  ELSE createFunction(PushLambdaFormals(InCommand(Flushed(g)), formals),
                      "func", ParamTypes(formals))

\* LambdaScope, with Builder at the start of the function f.
EnterFunction(g, f) ==
  [PushScope(g, f, NoCall) EXCEPT !.tail = TRUE, !.ip = AtEnd(g.fns[f].blk)]

BindFormals(g, f) ==
  LET Bind(h, i) == createBinding(h, Last(g.frames)[i], Argument(h, f, i))
  IN  FoldLeft(Bind, g, [i \in DOMAIN g.fns[f].params |-> i])

\* A body that does not end in a terminator passes its result on.
PassOn(g) == Put(g, ContOp(g.res), "none")
FinishBody(g) ==
  IF g.res = NoValue THEN g ELSE PassOn(LocalizeValue(Flushed(g), g.res))

\* The scope that h is in becomes a closure in the scope that g is in.
Closed(g, h, f) ==
  create([PopLambdaScope(h, Len(g.scopes)) EXCEPT !.ip = g.ip, !.tail = g.tail],
         LambdaOp(f, h.scopes[Len(g.scopes) + 1].caps), "proc")
CloseFunction(g, h, f) == IF h.err THEN h ELSE Closed(g, h, f)
CloseBody(g, h, f) ==
  IF h.err THEN h ELSE CloseFunction(g, PopEnvFrame(FinishBody(h), Len(g.frames)), f)

\* The frame of the formals is the last one of g.
createLambdaBody(g, body, f) ==
  CloseBody(g, createBody(BindFormals(EnterFunction(g, f), f), body), f)

\* MatchArgsOp has one result for each parameter of f.
MatchArgs(g, f) ==
  LET h == create(g, MatchArgsOp(g.fns[f].params), "none")
  IN  [h EXCEPT !.n = @ + Len(g.fns[f].params)]

MatchedArgs(g, f) ==
  [i \in DOMAIN g.fns[f].params |->
     [id |-> g.res.id + i, fn |-> g.res.fn, ty |-> g.fns[f].params[i]]]

ApplyMatched(g, args) == create(g, ApplyOp(g.res, args), "none")

EnterWrapper(g) == EnterFunction(createFunction(g, "func", <<"refs">>), Len(g.fns) + 1)

\* A function with a rest parameter is called by one that takes any number of
\* arguments and puts the rest of them into a list.
WrapperBody(h, body, f) == ApplyMatched(createLambdaBody(h, body, f), MatchedArgs(h, f))

createWrapped(g, body, f) ==
  CloseFunction(g, WrapperBody(MatchArgs(EnterWrapper(g), f), body, f), Len(g.fns) + 1)

LambdaOf(g, formals, body) ==
  IF g.err THEN g
  ELSE IF HasRestParam(formals) THEN createWrapped(g, body, Len(g.fns))
  ELSE createLambdaBody(g, body, Len(g.fns))

createLambda(g, formals, body) == LambdaOf(createLambdaFunction(g, formals), formals, body)

(***************************************************************************)
(* case-lambda.  The function takes any number of arguments and tries the  *)
(* clauses in order; a clause whose parameters do not match falls through  *)
(* to the operation after its PatternOp.                                   *)
(***************************************************************************)
EnterPattern(g) ==
  [NewBlock(Put(g, PatternOp(Len(g.blocks) + 1), "none"), g.blocks[g.ip.blk].fn,
            [blk |-> g.ip.blk, r |-> g.n + 1])
     EXCEPT !.ip = AtEnd(Len(g.blocks) + 1)]

\* The lambda is created before its clause is tried.
ApplyClause(g, f, lambda) == ApplyMatched(Result(g, lambda), MatchedArgs(g, f))
TryClause(g, f) == ApplyClause(MatchArgs(g, f), f, g.res)

ClauseOf(g, body) ==
  IF g.err THEN g ELSE TryClause(createLambdaBody(g, body, Len(g.fns)), Len(g.fns))

VisitClauseAt(g, e) ==
  RestorePoint(ClauseOf(createLambdaFunction(EnterPattern(g), e.l[1]), Tail(e.l)), g.ip)
VisitClause(g, e) == IF g.err THEN g ELSE VisitClauseAt(Ready(g), e)

createError(g) ==
  ApplyMatched(create(create(g, LiteralOp(Undef), "value"), LoadGlobalOp("error"), "value"),
               <<>>)

createCaseLambda(g, clauses) ==
  CloseFunction(g, createError(FoldLeft(VisitClause, EnterWrapper(g), clauses)),
                Len(g.fns) + 1)

(***************************************************************************)
(* if and set!                                                             *)
(***************************************************************************)
EnterBranch(g, blk) ==
  [PushScope(g, BranchScope, NoCall) EXCEPT !.tail = TRUE, !.ip = AtEnd(blk)]

PassResult(g) == create(g, ContOp(g.res), "none")
FinishBranch(g) ==
  IF g.res = NoValue THEN g ELSE PassResult(UnwrapBinding(g))

LeaveBranch(g, h) ==
  IF h.err THEN h
  ELSE [PopLambdaScope(FinishBranch(h), Len(g.scopes)) EXCEPT !.ip = g.ip, !.tail = g.tail]

Branch(g, blk, e) == LeaveBranch(g, Visit(EnterBranch(g, blk), e))

\* The block of the else branch comes after that of the then branch.
BranchBlocks(g) ==
  LET fn == g.blocks[g.ip.blk].fn
  IN  NewBlock(NewBlock(g, fn, NoPattern), fn, NoPattern)

IfContAt(g, cond) == Put(BranchBlocks(g), IfContOp(cond, Len(g.blocks) + 1), "none")

ElseOf(e) == IF Len(e.l) = 4 THEN e.l[4] ELSE Undef

Branches(g, e, blk) == Branch(Branch(g, blk, e.l[3]), blk + 1, ElseOf(e))
FinishIf(g, h) ==
  IF h.err \/ g.tail THEN Result(h, NoValue) ELSE createContinuation(h, g.res.id)
BranchesOf(g, e) == FinishIf(g, Branches(g, e, Len(g.blocks) - 1))

IfOn(g, e, tail) ==
  IF g.err THEN g ELSE BranchesOf(WithTail(IfContAt(g, g.res), tail), e)

createIf(g, e) == IfOn(GetSingleResult(WithTail(g, FALSE), e.l[2]), e, g.tail)

SetValue(g, value) == create(g, SetOp(g.res, value), "undefined")
SetVariable(g, name) == SetValue(GetSingleResultOrBinding(g, name), g.res)

createSet(g, e) ==
  WithTail(SetVariable(GetSingleResult(WithTail(Flushed(g), FALSE), e.l[3]), e.l[2]), g.tail)

(***************************************************************************)
(* define.  Its argument list holds what follows the keyword.              *)
(***************************************************************************)
VisitInit(g, args) ==
  CASE IsLambdaSpec(args) -> createLambda(g, SpecFormals(args), Tail(args))
    [] ~IsLambdaSpec(args) /\ Len(args) > 1 -> Visit(g, args[2])
    [] OTHER -> SetError(g)

VisitDefineArgs(g, args) == FirstRef(VisitInit(g, args))

\* A global that the code used before its definition exists already.
GlobalDefined(g, n) ==
  [g EXCEPT !.names   = @ \cup {n},
            !.globals = IF n \in DOMAIN @ THEN @ ELSE (n :> "binding") @@ @,
            !.defines = n]

\* The initializer passes the new binding on if it is no call.
BindInit(g) == PassResult(create(g, BindingOp(g.res), "binding"))
InitGlobal(g) == IF g.err \/ g.res = NoValue THEN g ELSE BindInit(g)

EnterGlobal(g) == [setTopLevelOp(g, "global") EXCEPT !.ip = AtEnd(Len(g.blocks) + 1)]

DefineGlobal(g, n, args) ==
  RestorePoint(InitGlobal(VisitDefineArgs(EnterGlobal(GlobalDefined(g, n)), args)), g.ip)

\* A second definition of a name behaves like set!
SetGlobal(g, value) == create(g, SetOp(g.res, value), "undefined")
SetDefined(g, n) ==
  IF g.err THEN g ELSE SetGlobal(create(g, LoadGlobalOp(n), "unknown"), g.res)
Redefine(g, n, args) ==
  WithTail(SetDefined(VisitDefineArgs(WithTail(g, FALSE), args), n), g.tail)

Imported(g, n) == n \in DOMAIN g.known /\ g.known[n].k # "box"

createTopLevelDefine(g, n, args) ==
  CASE n \notin g.names -> Result(DefineGlobal(g, n, args), NoValue)
    [] n \in g.names /\ Imported(g, n)  -> SetError(g)
    [] n \in g.names /\ ~Imported(g, n) -> Redefine(g, n, args)

createDefine(g, n, args) ==
  IF isTopLevel(g) THEN createTopLevelDefine(g, n, args) ELSE createLocalDefine(g, n, args)

InitDefine(g, b) == IF g.err THEN g ELSE InitBinding(VisitBinding(g, b), g.res)

\* WalkDefineInits: the initializers in the order of their definitions.
InitLocal(g, b) ==
  CASE g.err -> g
    [] ~g.err /\ NameTaken(g, b)  -> SetError(g)
    [] ~g.err /\ ~NameTaken(g, b) -> InitDefine(VisitDefineArgs(g, g.binds[b].args), b)

FinishLocalDefines(g) ==
  IF g.err THEN g
  ELSE WithTail(FoldLeft(InitLocal, [g EXCEPT !.tail = FALSE, !.defs = FALSE],
                         LocalDefines(g)), g.tail)

(***************************************************************************)
(* Expressions.                                                            *)
(***************************************************************************)
define(g, e) ==
  IF Len(e.l) < 2 \/ ~isIdentifier(DefinedName(Tail(e.l))) THEN SetError(g)
  ELSE createDefine(g, DefinedName(Tail(e.l)).n, Tail(e.l))
lambda(g, e) ==
  IF Len(e.l) < 3 THEN SetError(g) ELSE createLambda(g, e.l[2], SubSeq(e.l, 3, Len(e.l)))
if_(g, e) == IF Len(e.l) \notin {3, 4} THEN SetError(g) ELSE createIf(g, e)
set(g, e) == IF Len(e.l) # 3 \/ e.l[2].k \notin {"sym", "ref"} THEN SetError(g)
             ELSE createSet(g, e)

CallSyntax(g, keyword, e) ==
  CASE keyword = "define"      -> define(g, e)
    [] keyword = "lambda"      -> lambda(g, e)
    [] keyword = "case-lambda" -> createCaseLambda(g, Tail(e.l))
    [] keyword = "if"          -> if_(g, e)
    [] keyword = "set!"        -> set(g, e)

VisitApplication(g, e, entry) ==
  IF IsKeyword(g, entry) THEN CallSyntax(g, g.known[entry.n].n, e) ELSE HandleCall(g, e, entry)

VisitPair(g, e) ==
  VisitApplication(g, e, IF isIdentifier(e.l[1]) THEN LookupEnv(g, e.l[1].n) ELSE NoEntry)

Visit(g, e) ==
  CASE g.err -> g
    [] ~g.err /\ e.k = "sym"   -> VisitSymbol(g, e.n)
    [] ~g.err /\ e.k = "ref"   -> VisitBinding(g, e.b)
    [] ~g.err /\ e.k = "undef" -> createUndefined(g)
    [] ~g.err /\ IsPair(e)     -> VisitPair(g, e)
    [] OTHER                   -> create(g, LiteralOp(e), "value")

(***************************************************************************)
(* The top level.                                                          *)
(***************************************************************************)
\* The function that holds the end of the expression and its block.
LastBlock(g) == g.fns[Last(g.scopes).fn].blk

EndBlock(g, blk) ==
  LET PutCont(h) == Put(h, ContOp(h.res), "none")
  IN  IF g.blocks[blk].ops # <<>> /\ IsTerminator(LastOp(g, blk)) THEN g
      ELSE PutCont(createUndefined([g EXCEPT !.ip = AtEnd(blk)]))

EndCommand(g) == EndBlock(EndBlock(g, LastBlock(g)), g.fns[g.top].blk)

\* The binding is registered before the continuation gets nothing.
InitGlobalWith(g, b) ==
  PassOn(createUndefined(Put(g, InitGlobalOp(g.defines, b), "none")))

WithoutLastOp(g, blk) ==
  [g EXCEPT !.blocks[blk].ops = Front(@), !.ip = AtEnd(blk)]

BindResult(g) == InitGlobalWith(g, g.res)
BindArg(g) == create(g, BindingOp(g.res), "binding")
EndGlobal(g, blk) ==
  IF LastOp(g, blk).op = "cont"
  THEN InitGlobalWith(WithoutLastOp(g, blk), LastOp(g, blk).v)
  ELSE BindResult(BindArg(FirstRef(createContinuation([g EXCEPT !.ip = AtEnd(blk)],
                                                      LastOp(g, blk).r))))

FinishTopLevelOp(g) ==
  CASE g.top = 0 -> g
    [] g.top # 0 /\ g.fns[g.top].kind = "command" -> PopLambdaScope(EndCommand(g), 1)
    [] g.top # 0 /\ g.fns[g.top].kind = "global"  -> PopLambdaScope(EndGlobal(g, LastBlock(g)), 1)

FinishTopLevel(g) == IF g.err THEN g ELSE FinishTopLevelOp(g)

VisitTopLevel(g, e) ==
  FinishTopLevel(Visit([g EXCEPT !.top = 0, !.ip = NoPoint], e))
=============================================================================
