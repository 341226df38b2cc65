---------------------------- MODULE SchirOpEval ----------------------------
(***************************************************************************)
(* Running a Schir program: OpGen compiles one top-level expression, then  *)
(* OpEval executes its operation, and so on.  OpEval goes through a block  *)
(* one operation at a time until a terminator calls a procedure or the     *)
(* current continuation.                                                   *)
(*                                                                         *)
(* What a call does to the runtime's stack is reduced to what matters      *)
(* here: a stack of continuations and, for call/cc, a copy of it; windings *)
(* and handlers are the subject of SchirRuntime.  An error that is raised  *)
(* ends the program.                                                       *)
(***************************************************************************)
EXTENDS SchirOpGen, FiniteSets

CONSTANT Programs    \* the programs, each a sequence of top-level expressions
ASSUME ProgramsAssumption == IsFiniteSet(Programs)

VARIABLES
  prog,      \* the program
  next,      \* the number of its top-level expressions that were compiled
  gen,       \* the state of OpGen
  known,     \* the globals that have a value
  boxes,     \* the values of the run-time Bindings
  vals,      \* ValueMap: the values of the current activation
  closure,   \* the captures of the callee
  args,      \* the arguments of the call
  ip,        \* the operation to execute
  stack,     \* the continuations, the current one last
  out,       \* what the program wrote
  status     \* "compile", "run", "done" or "error"

vars == <<prog, next, gen, known, boxes, vals, closure, args, ip, stack, out, status>>

Prim(n)      == [k |-> "prim", n |-> n]
Box(a)       == [k |-> "box", a |-> a]
Closure(f, caps) == [k |-> "closure", f |-> f, caps |-> caps]
Escape(st)   == [k |-> "escape", stack |-> st]
ListVal(l)   == [k |-> "values", l |-> l]
Missing      == [k |-> "missing"]

Keywords   == {"define", "lambda", "case-lambda", "if", "set!"}
Primitives == {"write", "add", "values", "call/cc", "error"}
Builtins   == [n \in Keywords \cup Primitives |->
                 IF n \in Keywords THEN [k |-> "keyword", n |-> n] ELSE Prim(n)]

\* OpGen when the program has imported the builtins.
NewOpGen ==
  [n |-> 0, fns |-> <<[kind |-> "module", blk |-> 0, params |-> <<>>, arg |-> 0]>>,
   blocks |-> <<>>, ip |-> NoPoint, res |-> NoValue, vals |-> <<>>,
   scopes |-> <<[fn |-> 1, caps |-> <<>>, tbl |-> <<>>, call |-> NoCall]>>,
   tail |-> TRUE, defs |-> FALSE, top |-> 0, err |-> FALSE, defines |-> "",
   globals |-> <<>>, names |-> DOMAIN Builtins, known |-> Builtins,
   frames |-> <<>>, binds |-> <<>>]

Init ==
  /\ prog \in Programs
  /\ next = 0
  /\ gen = NewOpGen
  /\ known = Builtins
  /\ boxes = <<>> /\ vals = <<>> /\ closure = <<>> /\ args = <<>>
  /\ ip = [blk |-> 0, i |-> 0]
  /\ stack = <<>> /\ out = <<>>
  /\ status = "compile"

(***************************************************************************)
(* One top-level expression.  OpGen sees the values the globals have now.  *)
(***************************************************************************)
Compiled == VisitTopLevel([gen EXCEPT !.known = known], prog[next + 1])

Start(g) ==
  /\ gen' = g
  /\ status' = IF g.err THEN "error" ELSE "run"
  /\ ip' = IF g.err THEN ip ELSE [blk |-> g.fns[g.top].blk, i |-> 1]

CompileNext ==
  /\ status = "compile" /\ next < Len(prog)
  /\ next' = next + 1
  /\ \E g \in {Compiled} : Start(g)
  /\ vals' = <<>>
  /\ UNCHANGED <<prog, known, boxes, closure, args, stack, out>>

Finish ==
  /\ status = "compile" /\ next = Len(prog)
  /\ status' = "done"
  /\ UNCHANGED <<prog, next, gen, known, boxes, vals, closure, args, ip, stack, out>>

(***************************************************************************)
(* Operands.                                                               *)
(***************************************************************************)
Op == gen.blocks[ip.blk].ops[ip.i]

\* getBindingOrValue: what set! returns is not in the table.
Read(v) ==
  IF v.id \in DOMAIN vals THEN vals[v.id]
  ELSE IF v.ty = "undefined" THEN Undef ELSE Missing

Reads(vs) == [i \in DOMAIN vs |-> Read(vs[i])]

\* The operands that may be bindings, and those that may not.
LooseOperands(o) ==
  CASE o.op \in {"unbox", "matchtype", "initglobal", "cont"} -> {o.v}
    [] o.op \in {"lambda", "pushcont"} -> ToSet(o.caps)
    [] o.op = "set" -> {o.b}
    [] OTHER -> {}
StrictOperands(o) ==
  CASE o.op \in {"set", "ifcont"} -> {o.v}
    [] o.op = "binding" -> {o.v} \ {NoValue}
    [] o.op = "apply" -> {o.f} \cup ToSet(o.args)
    [] OTHER -> {}

Lost(o)   == \E v \in LooseOperands(o) \cup StrictOperands(o) : Read(v) = Missing
Nested(o) == \E v \in StrictOperands(o) : Read(v).k = "box"

\* The assertions of getBindingOrValue and getValue stop the program.
At(op) == /\ status = "run" /\ Op.op = op
          /\ ~Lost(Op) /\ ~Nested(Op)

(***************************************************************************)
(* Calls.  A function whose parameter is the list of references takes any  *)
(* number of arguments and reads them from the call.                       *)
(***************************************************************************)
Raise == /\ status' = "error"
         /\ UNCHANGED <<vals, closure, args, ip, stack, out>>

TakesRefs(f) == gen.fns[f].params = <<"refs">>

LoadedArgs(f, as) ==
  IF TakesRefs(f) THEN <<>>
  ELSE [v \in gen.fns[f].arg .. gen.fns[f].arg + Len(as) - 1 |-> as[v - gen.fns[f].arg + 1]]

EnterFunc(f, caps, as, st) ==
  /\ vals' = LoadedArgs(f, as)
  /\ closure' = caps /\ args' = as
  /\ ip' = [blk |-> gen.fns[f].blk, i |-> 1]
  /\ stack' = st
  /\ UNCHANGED status

CallFuncOp(f, caps, as, st) ==
  IF TakesRefs(f) \/ Len(gen.fns[f].params) = Len(as)
  THEN EnterFunc(f, caps, as, st) /\ UNCHANGED out
  ELSE Raise

\* Behind the last continuation the next top-level expression is compiled.
ContinueWith(st, as) ==
  IF st # <<>> THEN EnterFunc(Last(st).f, Last(st).caps, as, Front(st))
  ELSE /\ status' = "compile" /\ stack' = <<>>
       /\ UNCHANGED <<vals, closure, args, ip>>

Quietly(as) == ContinueWith(stack, as) /\ UNCHANGED out

IsProcedure(v) == v.k \in {"closure", "prim", "escape"}

\* Two procedures are shown alike.
Shown(v) == IF IsProcedure(v) THEN Sym("procedure") ELSE v

Sum(as) == Num(FoldLeft(LAMBDA n, a : n + a.v, 0, as))

ApplyPrim(n, as) ==
  CASE n = "write" /\ Len(as) = 1 ->
         ContinueWith(stack, <<Undef>>) /\ out' = Append(out, Shown(as[1]))
    [] n = "add" /\ (\A i \in DOMAIN as : as[i].k = "num") -> Quietly(<<Sum(as)>>)
    [] n = "values" -> Quietly(as)
    [] OTHER -> Raise

\* The arguments of a call of a function with a rest parameter end with the
\* list MatchArgsOp made.
CallCC(fn) ==
  CASE fn.k = "closure" -> CallFuncOp(fn.f, fn.caps, <<Escape(stack)>>, stack)
    [] fn.k = "escape"  -> ContinueWith(fn.stack, <<Escape(stack)>>) /\ UNCHANGED out
    [] fn = Prim("call/cc") -> Quietly(<<Escape(stack)>>)
    [] fn.k = "prim" /\ fn # Prim("call/cc") -> ApplyPrim(fn.n, <<Escape(stack)>>)
    [] OTHER            -> Raise

Apply(fn, as) ==
  CASE fn.k = "closure" -> CallFuncOp(fn.f, fn.caps, as, stack)
    [] fn.k = "escape"  -> ContinueWith(fn.stack, as) /\ UNCHANGED out
    [] fn = Prim("call/cc") /\ Len(as) = 1 -> CallCC(as[1])
    [] fn.k = "prim" /\ fn # Prim("call/cc") -> ApplyPrim(fn.n, as)
    [] OTHER -> Raise

(***************************************************************************)
(* Operations.                                                             *)
(***************************************************************************)
Advance == ip' = [ip EXCEPT !.i = @ + 1]
setValue(v) == vals' = (Op.r :> v) @@ vals

\* The rest of the state when an operation only yields the value v.
Yields(v) ==
  /\ setValue(v) /\ Advance
  /\ UNCHANGED <<prog, next, gen, known, boxes, closure, args, stack, out, status>>

VisitLiteral   == At("literal") /\ Yields(Op.v)
VisitUndefined == At("undefined") /\ Yields(Undef)
VisitLambda    == At("lambda") /\ Yields(Closure(Op.f, Reads(Op.caps)))

Unboxed(v) == IF v.k = "box" THEN boxes[v.a] ELSE v
VisitUnbox == At("unbox") /\ Yields(Unboxed(Read(Op.v)))

VisitLoadGlobal ==
  At("loadglobal") /\ Yields(IF Op.name \in DOMAIN known THEN known[Op.name] ELSE Undef)

VisitLoadCapture == At("loadcapture") /\ Yields(closure[Op.i])

\* What ends an activation leaves the program and the globals alone.
Ends == UNCHANGED <<prog, next, gen, known, boxes>>

VisitLoadArg ==
  /\ At("loadarg")
  /\ \/ args # <<>> /\ Yields(args[1])
     \/ args = <<>> /\ Raise /\ Ends

VisitBindingOp ==
  /\ At("binding")
  /\ boxes' = Append(boxes, IF Op.v = NoValue THEN Undef ELSE Read(Op.v))
  /\ setValue(Box(Len(boxes) + 1)) /\ Advance
  /\ UNCHANGED <<prog, next, gen, known, closure, args, stack, out, status>>

VisitInitGlobal ==
  /\ At("initglobal")
  /\ known' = (Op.name :> Read(Op.v)) @@ known
  /\ Advance
  /\ UNCHANGED <<prog, next, gen, boxes, vals, closure, args, stack, out, status>>

VisitSet ==
  /\ At("set")
  /\ \/ /\ Read(Op.b).k = "box"
        /\ boxes' = [boxes EXCEPT ![Read(Op.b).a] = Read(Op.v)]
        /\ Advance
        /\ UNCHANGED <<prog, next, gen, known, vals, closure, args, stack, out, status>>
     \/ Read(Op.b).k # "box" /\ Raise /\ Ends

VisitPushCont ==
  /\ At("pushcont")
  /\ stack' = Append(stack, [f |-> Op.f, caps |-> Reads(Op.caps)])
  /\ Advance
  /\ UNCHANGED <<prog, next, gen, known, boxes, vals, closure, args, out, status>>

VisitPattern ==
  /\ At("pattern")
  /\ ip' = [blk |-> Op.blk, i |-> 1]
  /\ UNCHANGED <<prog, next, gen, known, boxes, vals, closure, args, stack, out, status>>

\* A failure goes on after the pattern, or is an error outside of any.
Parent == gen.blocks[ip.blk].pattern
\* Broken: the same pattern is tried again
AfterParentAgain ==
  [blk |-> Parent.blk,
   i   |-> SelectInSeq(gen.blocks[Parent.blk].ops, LAMBDA o : o.r = Parent.r)]

AfterParent ==
  [blk |-> Parent.blk,
   i   |-> 1 + SelectInSeq(gen.blocks[Parent.blk].ops, LAMBDA o : o.r = Parent.r)]

PatternFail ==
  \/ Parent = NoPattern /\ Raise /\ Ends
  \/ /\ Parent # NoPattern
     /\ ip' = AfterParent
     /\ UNCHANGED <<prog, next, gen, known, boxes, vals, closure, args, stack, out, status>>

VisitMatchType ==
  /\ At("matchtype")
  /\ \/ IsProcedure(Unboxed(Read(Op.v))) /\ Yields(Unboxed(Read(Op.v)))
     \/ ~IsProcedure(Unboxed(Read(Op.v))) /\ PatternFail

HasRest(params) == params # <<>> /\ Last(params) = "rest"
Matches(params) ==
  IF HasRest(params) THEN Len(args) >= Len(params) - 1 ELSE Len(args) = Len(params)
Matched(params, i) ==
  IF HasRest(params) /\ i = Len(params) THEN ListVal(SubSeq(args, i, Len(args))) ELSE args[i]

VisitMatchArgs ==
  /\ At("matchargs")
  /\ \/ /\ Matches(Op.params)
        /\ vals' = [v \in Op.r + 1 .. Op.r + Len(Op.params) |-> Matched(Op.params, v - Op.r)]
                     @@ vals
        /\ Advance
        /\ UNCHANGED <<prog, next, gen, known, boxes, closure, args, stack, out, status>>
     \/ ~Matches(Op.params) /\ PatternFail

VisitApply == At("apply") /\ Apply(Read(Op.f), Reads(Op.args)) /\ Ends
VisitCont  == At("cont") /\ Quietly(<<Read(Op.v)>>) /\ Ends

VisitIfCont ==
  /\ At("ifcont")
  /\ ip' = [blk |-> IF Read(Op.v) # Bool(FALSE) THEN Op.blk ELSE Op.blk + 1, i |-> 1]
  /\ UNCHANGED <<prog, next, gen, known, boxes, vals, closure, args, stack, out, status>>

Execute ==
  \/ VisitLiteral \/ VisitUndefined \/ VisitLambda \/ VisitUnbox \/ VisitLoadGlobal
  \/ VisitLoadCapture \/ VisitLoadArg \/ VisitBindingOp \/ VisitInitGlobal \/ VisitSet
  \/ VisitPushCont \/ VisitPattern \/ VisitMatchType \/ VisitMatchArgs
  \/ VisitApply \/ VisitCont \/ VisitIfCont

Stopped == status \in {"done", "error"}

\* A program that has stopped stays as it is.
Next == CompileNext \/ Finish \/ Execute \/ (Stopped /\ UNCHANGED vars)

\* The run loop executes as long as there is something to execute, and the
\* compiler returns: WF_vars(CompileNext \/ Finish), with the states in which
\* one of them is enabled spelled out.
Fairness == WF_vars(Execute) /\ []<>(status # "compile")

Spec == Init /\ [][Next]_vars /\ Fairness
=============================================================================
