--------------------------- MODULE SchirSemantics ---------------------------
(***************************************************************************)
(* What a Schir program means, without a compiler: a machine that rewrites *)
(* an expression, with an environment that maps names to locations of a    *)
(* store and a continuation that is a sequence of frames.                  *)
(*                                                                         *)
(* The operator is evaluated and checked before the operands, and these    *)
(* from left to right; the internal definitions of a body are initialized  *)
(* in order, when the body is entered; a continuation that wants one value *)
(* takes the first it gets; reading a variable that has no value gives the *)
(* undefined object; the first definition of a global makes the variable   *)
(* and any later one assigns it.                                           *)
(***************************************************************************)
EXTENDS SchirEnv, FiniteSets

LOCAL Head1(e) == IF IsPair(e) /\ isIdentifier(e.l[1]) THEN e.l[1].n ELSE ""
IsDefine(e) == Head1(e) = "define"
From(l, i)  == SubSeq(l, i, Len(l))

Value(vs)    == [m |-> "values", vs |-> vs]
Eval(e, env) == [m |-> "eval", e |-> e, env |-> env]
Wrong        == [m |-> "error"]

Proc(clauses, env) == [k |-> "proc", clauses |-> clauses, env |-> env]
PrimProc(n)        == [k |-> "prim", n |-> n]
Saved(kont)        == [k |-> "saved", kont |-> kont]
Many(l)            == [k |-> "values", l |-> l]
Callable(v)        == v.k \in {"proc", "prim", "saved"}
Show(v)            == IF Callable(v) THEN Sym("procedure") ELSE v

\* The machine: the control c, the continuation, the store, the locations of
\* the globals and what was written.
Goto(m, c)       == [m EXCEPT !.c = c]
Return(m, v)     == Goto(m, Value(<<v>>))
Push(m, frame)   == [m EXCEPT !.kont = Append(@, frame)]
Alloc(m, v)      == [m EXCEPT !.store = Append(@, v)]

Variable(m, env, n) ==
  IF n \in DOMAIN env THEN env[n] ELSE IF n \in DOMAIN m.globals THEN m.globals[n] ELSE 0

ReadVar(m, at) == IF at = 0 THEN Undef ELSE m.store[at]

DefVar(e)  == IF IsPair(e.l[2]) THEN e.l[2].l[1] ELSE e.l[2]
DefName(e) == DefVar(e).n
DefInit(e) ==
  IF IsPair(e.l[2]) THEN List(<<Sym("lambda"), List(Tail(e.l[2].l))>> \o From(e.l, 3))
  ELSE e.l[3]

\* The internal definitions come first and name different variables, which
\* all exist at once.
Defines(body) == SelectSeq(body, LAMBDA e : IsDefine(e))
Inits(body) ==
  [i \in DOMAIN body |->
     IF IsDefine(body[i]) THEN List(<<Sym("set!"), Sym(DefName(body[i])), DefInit(body[i])>>)
     ELSE body[i]]

Enter(m, body, env) ==
  LET ds    == Defines(body)
      names == {DefName(ds[i]) : i \in DOMAIN ds}
      new   == [n \in names |-> Len(m.store) + CHOOSE i \in DOMAIN ds : DefName(ds[i]) = n]
  IN  IF Cardinality(names) # Len(ds) THEN Goto(m, Wrong)
      ELSE Push([m EXCEPT !.store = @ \o [i \in DOMAIN ds |-> Undef], !.c = Value(<<Undef>>)],
           [f |-> "seq", rest |-> Inits(body), env |-> new @@ env])

Takes(clause, n) ==
  IF HasRestParam(clause.formals) THEN n >= Len(FormalIds(clause.formals)) - 1
  ELSE n = Len(FormalIds(clause.formals))

Actual(clause, as, i) ==
  IF HasRestParam(clause.formals) /\ i = Len(FormalIds(clause.formals))
  THEN Many(From(as, i)) ELSE as[i]

EnterClause(m, clause, as, env) ==
  LET ids == FormalIds(clause.formals)
      new == [n \in {ids[i].n : i \in DOMAIN ids} |->
                Len(m.store) + CHOOSE i \in DOMAIN ids : ids[i].n = n]
  IN  Enter([m EXCEPT !.store = @ \o [i \in DOMAIN ids |-> Actual(clause, as, i)]],
            clause.body, new @@ env)

CallProc(m, p, as) ==
  LET i == SelectInSeq(p.clauses, LAMBDA c : Takes(c, Len(as)))
  IN  IF i = 0 THEN Goto(m, Wrong) ELSE EnterClause(m, p.clauses[i], as, p.env)

CallPrim(m, n, as) ==
  CASE n = "write" /\ Len(as) = 1 -> [Return(m, Undef) EXCEPT !.out = Append(@, Show(as[1]))]
    [] n = "add" /\ (\A i \in DOMAIN as : as[i].k = "num") ->
         Return(m, Num(FoldLeft(LAMBDA s, a : s + a.v, 0, as)))
    [] n = "values" -> Goto(m, Value(as))
    [] n = "call/cc" /\ Len(as) = 1 ->
         Push(Goto(m, Value(<<Saved(m.kont)>>)), [f |-> "pass", fn |-> as[1]])
    [] OTHER -> Goto(m, Wrong)

Call(m, fn, as) ==
  CASE fn.k = "proc"  -> CallProc(m, fn, as)
    [] fn.k = "prim"  -> CallPrim(m, fn.n, as)
    [] fn.k = "saved" -> [Goto(m, Value(as)) EXCEPT !.kont = fn.kont]
    [] OTHER          -> Goto(m, Wrong)

Clause(formals, body) == [formals |-> formals, body |-> body]

EvalPair(m, e, env) ==
  CASE Head1(e) = "lambda" -> Return(m, Proc(<<Clause(e.l[2], From(e.l, 3))>>, env))
    [] Head1(e) = "case-lambda" ->
         Return(m, Proc([i \in 1 .. Len(e.l) - 1 |->
                           Clause(e.l[i + 1].l[1], Tail(e.l[i + 1].l))], env))
    [] Head1(e) = "if" ->
         Push(Goto(m, Eval(e.l[2], env)),
              [f |-> "if", then |-> e.l[3],
               else |-> IF Len(e.l) = 4 THEN e.l[4] ELSE Undef, env |-> env])
    [] Head1(e) = "set!" ->
         Push(Goto(m, Eval(e.l[3], env)), [f |-> "set", n |-> e.l[2].n, env |-> env])
    [] Head1(e) = "define" ->
         Push(Goto(m, Eval(DefInit(e), env)), [f |-> "define", n |-> DefName(e)])
    [] OTHER ->
         Push(Goto(m, Eval(e.l[1], env)),
              [f |-> "call", done |-> <<>>, rest |-> Tail(e.l), env |-> env])

StepEval(m, e, env) ==
  CASE e.k = "sym" -> Return(m, ReadVar(m, Variable(m, env, e.n)))
    [] IsPair(e)   -> EvalPair(m, e, env)
    [] OTHER       -> Return(m, e)

Assign(m, at, v) == IF at = 0 THEN Goto(m, Wrong)
                    ELSE [Return(m, Undef) EXCEPT !.store[at] = v]

DefineVar(m, n, v) ==
  IF n \in DOMAIN m.globals THEN Assign(m, m.globals[n], v)
  ELSE [Return(Alloc(m, v), Undef) EXCEPT !.globals = (n :> Len(m.store) + 1) @@ @]

\* The frame fr has got the values of a call, the last one of them v.
CallFrame(m, fr, done) ==
  CASE Len(done) = 1 /\ ~Callable(done[1]) -> Goto(m, Wrong)
    [] fr.rest = <<>> -> Call(m, done[1], Tail(done))
    [] OTHER -> Push(Goto(m, Eval(fr.rest[1], fr.env)),
                     [fr EXCEPT !.done = done, !.rest = Tail(@)])

SeqFrame(m, fr) ==
  IF Len(fr.rest) = 1 THEN Goto(m, Eval(fr.rest[1], fr.env))
  ELSE Push(Goto(m, Eval(fr.rest[1], fr.env)), [fr EXCEPT !.rest = Tail(@)])

ResumeWith(m, fr, v) ==
  CASE fr.f = "if"     -> Goto(m, Eval(IF v # Bool(FALSE) THEN fr.then ELSE fr.else, fr.env))
    [] fr.f = "set"    -> Assign(m, Variable(m, fr.env, fr.n), v)
    [] fr.f = "define" -> DefineVar(m, fr.n, v)
    [] fr.f = "call"   -> CallFrame(m, fr, Append(fr.done, v))
    [] fr.f = "pass"   -> Call(m, fr.fn, <<v>>)

ResumeFrame(m, fr, vs) ==
  CASE fr.f = "seq" -> SeqFrame(m, fr)
    [] fr.f # "seq" /\ vs = <<>> -> Goto(m, Wrong)
    [] fr.f # "seq" /\ vs # <<>> -> ResumeWith(m, fr, vs[1])

\* The parts of a special form are those its syntax asks for.
HasSyntax(e) ==
  CASE Head1(e) = "if"     -> Len(e.l) \in {3, 4}
    [] Head1(e) = "lambda" -> Len(e.l) >= 3 /\ ValidFormals(e.l[2])
    [] Head1(e) = "set!"   -> Len(e.l) = 3 /\ e.l[2].k = "sym"
    [] Head1(e) = "define" ->
         /\ Len(e.l) >= 2
         /\ isIdentifier(DefVar(e))
         /\ Len(e.l) >= 3
    [] OTHER -> TRUE

RECURSIVE WellFormed(_)
WellFormed(e) == IsPair(e) => HasSyntax(e) /\ \A i \in DOMAIN e.l : WellFormed(e.l[i])

\* Behind the last frame the next top-level expression is evaluated, and
\* nothing of one that is malformed somewhere.
NextTop(m) ==
  [m EXCEPT !.tops = Tail(@),
            !.c = IF WellFormed(m.tops[1]) THEN Eval(m.tops[1], <<>>) ELSE Wrong]

StepMachine(m) ==
  CASE m.c.m = "eval" -> StepEval(m, m.c.e, m.c.env)
    [] m.c.m = "values" /\ m.kont # <<>> ->
         ResumeFrame([m EXCEPT !.kont = Front(@)], Last(m.kont), m.c.vs)
    [] m.c.m = "values" /\ m.kont = <<>> -> NextTop(m)

Halted(m) == m.c.m = "error" \/ (m.c.m = "values" /\ m.kont = <<>> /\ m.tops = <<>>)

Machine(prog, primitives) ==
  LET names == SetToSeq(primitives)
  IN  [c |-> Value(<<>>), kont |-> <<>>, tops |-> prog, out |-> <<>>,
       store   |-> [i \in DOMAIN names |-> PrimProc(names[i])],
       globals |-> [n \in primitives |-> CHOOSE i \in DOMAIN names : names[i] = n]]

\* The machine after 2^k steps, or when it halts before.
RECURSIVE RunFor(_, _)
RunFor(m, k) ==
  IF Halted(m) THEN m
  ELSE IF k = 0 THEN StepMachine(m)
  ELSE RunFor(RunFor(m, k - 1), k - 1)

MaxDoublings == 10    \* no program of the runs takes more than 1024 steps

\* What the program writes, and whether it ends with an error.
Meaning(prog, primitives) ==
  LET m == RunFor(Machine(prog, primitives), MaxDoublings)
  IN  [out |-> m.out, error |-> m.c.m = "error"]
=============================================================================
