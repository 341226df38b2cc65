-------------------------- MODULE MCSchirCompiler --------------------------
(***************************************************************************)
(* Schir programs, compiled and run, against what they mean.  The programs *)
(* are templates whose holes are filled from small sets of expressions, so *)
(* that every use of a variable meets every place it can be used in: its   *)
(* own function, an inner one, a continuation, a branch, an initializer.   *)
(* Definitions marked "Broken" in the modules below are mistakes that show *)
(* what the properties notice; nothing uses them.                          *)
(***************************************************************************)
EXTENDS SchirOpEval

Sem == INSTANCE SchirSemantics

(***************************************************************************)
(* Expressions.                                                            *)
(***************************************************************************)
S(n) == Sym(n)
x == S("x")
y == S("y")
f == S("f")
k == S("k")
z == S("z")
one == Num(1)
two == Num(2)

Form(n, l)       == List(<<S(n)>> \o l)
Call(fn, as)     == List(<<fn>> \o as)
Lambda(ps, body) == Form("lambda", <<List(ps)>> \o body)
WithRest(ps, r)  == [k |-> "rest", l |-> ps, r |-> r]
LambdaRest(ps, r, body) == Form("lambda", <<WithRest(ps, r)>> \o body)
ClauseOn(ps, body)  == List(<<ps>> \o body)
CaseLambda(clauses) == Form("case-lambda", clauses)
Define(n, e)     == Form("define", <<n, e>>)
DefineFn(n, ps, body) == Form("define", <<List(<<n>> \o ps)>> \o body)
SetVar(n, e)     == Form("set!", <<n, e>>)
If(a, b, c)      == Form("if", <<a, b, c>>)
write(e)         == Form("write", <<e>>)
add(a, b)        == Form("add", <<a, b>>)
Values(l)        == Form("values", l)
callcc(e)        == Form("call/cc", <<e>>)
Thunk(e)         == Lambda(<<>>, <<e>>)
Force(e)         == Call(Thunk(e), <<>>)
Force2(a, b)     == Call(Lambda(<<>>, <<a, b>>), <<>>)

\* An expression over the variables x and y, and every place to use it in.
Atoms == {one, x, y}
Uses(e) ==
  {e, Force(e), add(x, e), add(Force(e), x), Force(Force(add(e, y))),
   If(e, x, Force(y)), If(Bool(FALSE), one, e), Force(SetVar(x, e)),
   callcc(Lambda(<<k>>, <<add(one, Call(k, <<e>>))>>))}
Exprs1 == UNION {Uses(e) : e \in Atoms}
Exprs2 == UNION {Uses(e) : e \in Exprs1}

(***************************************************************************)
(* Programs.                                                               *)
(***************************************************************************)
\* x and y are formals; x is used again after the expression.
InLambda(e) == << write(Call(Lambda(<<x, y>>, <<write(e), add(x, y)>>), <<one, two>>)) >>

\* y is an internal definition, f one that uses and assigns it.
InBody(e) ==
  << write(Call(Lambda(<<x>>, <<Define(y, e),
                               DefineFn(f, <<>>, <<SetVar(y, add(two, y)), y>>),
                               write(Call(f, <<>>)), y>>), <<one>>)) >>

\* x and y are globals that a procedure uses and the program assigns.
InGlobal(e) ==
  << Define(x, one), Define(y, two), DefineFn(f, <<>>, <<e>>),
     write(Call(f, <<>>)), SetVar(x, two), write(Call(f, <<>>)) >>

\* The clauses of f differ in how many arguments they take.
InClause(e) ==
  << Call(Lambda(<<y>>, <<
       Define(f, CaseLambda(<<ClauseOn(List(<<>>), <<y>>), ClauseOn(List(<<x>>), <<e>>),
                              ClauseOn(WithRest(<<x, k>>, z), <<write(z), add(x, k)>>)>>)),
       write(Call(f, <<two>>)), write(Call(f, <<one, two>>)),
       write(Call(f, <<one, two, one>>)), Call(f, <<>>)>>), <<one>>) >>

InRest(e) == << write(Call(LambdaRest(<<x>>, y, <<write(y), e>>), <<one, two, one>>)),
                write(Call(LambdaRest(<<>>, x, <<x>>), <<>>)) >>

\* The continuation k of e is called once more from the top level, or after
\* the initializer of y has been left.
Again(n) == Force2(SetVar(n, Bool(FALSE)), Call(k, <<two>>))
Save(e)  == callcc(Lambda(<<x>>, <<SetVar(k, x), e>>))
Reentered(e) ==
  << Define(x, one), Define(k, one), Define(y, one), write(add(Save(e), y)),
     If(y, Again(y), one), write(two) >>
ReenteredInit(e) ==
  << Define(k, one),
     write(Call(Lambda(<<x>>, <<Define(y, Save(e)), DefineFn(f, <<>>, <<add(y, one)>>),
                                write(Call(f, <<>>)), If(x, Again(x), y)>>), <<one>>)) >>

Recursive ==
  << write(Call(Lambda(<<x>>, <<
       DefineFn(f, <<k>>, <<If(k, Call(z, <<Bool(FALSE)>>), y)>>),
       DefineFn(z, <<k>>, <<add(x, Call(f, <<k>>))>>),
       Define(y, two), Call(f, <<one>>)>>), <<one>>)) >>

\* z is used before it is defined, and x is defined twice.
Defined ==
  << DefineFn(f, <<>>, <<Call(z, <<x>>)>>), Define(x, one),
     DefineFn(z, <<x>>, <<add(x, two)>>), write(Call(f, <<>>)),
     Define(x, add(x, one)), write(Call(f, <<>>)) >>

\* Nothing is written before the error, or what is written tells where it was.
Wrong ==
  {<< write(one), Call(one, <<write(two)>>) >>, << write(z), SetVar(z, one) >>,
   << Call(z, <<write(one)>>) >>, << write(Call(Lambda(<<x>>, <<x>>), <<>>)) >>,
   << Values(<<>>), write(Values(<<one, two>>)), write(Values(<<>>)) >>,
   << Call(Lambda(<<x>>, <<SetVar(x, f), Values(<<>>), Call(x, <<one>>)>>), <<one>>) >>,
   << Define(x, Values(<<>>)) >>, << If(Values(<<>>), one, two) >>, << callcc(one) >>,
   << Define(f, CaseLambda(<<ClauseOn(List(<<x>>), <<x>>)>>)), write(f), Call(f, <<>>) >>,
   << write(Call(S("call/cc"), <<S("call/cc")>>)) >>,
   << Call(Lambda(<<x>>, <<Define(y, one), Define(y, two), y>>), <<one>>) >>}

\* Nothing of a malformed expression runs, wherever in it the mistake is.
BadForms ==
  {Form("if", <<one>>), Form("if", <<one, x, x, x>>), Form("lambda", <<List(<<x>>)>>),
   Lambda(<<x, one>>, <<x>>), Form("set!", <<one, two>>), Form("set!", <<x>>),
   Form("define", <<y>>), Define(one, two), Form("define", <<List(<<y>>)>>)}
Malformed ==
  UNION {{ << write(one), e, write(two) >>,
           << write(one), Call(Lambda(<<x>>, <<write(x), Thunk(e)>>), <<two>>) >> } :
         e \in BadForms}

MCPrograms ==
  {InLambda(e) : e \in UNION {Uses(u) : u \in Uses(x)}}
    \cup UNION {{InBody(e), InGlobal(e)} : e \in Exprs1}
    \cup {InClause(e) : e \in Uses(x)} \cup {InRest(x), InRest(Force(x))}
    \cup UNION {{Reentered(e), ReenteredInit(e)} : e \in {one, Force(two)}}
    \cup {Recursive, Defined} \cup Wrong \cup Malformed

(***************************************************************************)
(* Properties.                                                             *)
(***************************************************************************)
\* What each program means, from the machine that knows no compiler.
Meanings == [p \in Programs |-> Sem!Meaning(p, Primitives)]

\* What OpGen and OpEval make of a program is what it means: nothing is written
\* that it does not say, in the order it says it, and when the program stops
\* everything is written and there was an error only if the program has one.
\* This is about everything between VisitTopLevel and the terminators of OpEval:
\* lookup (OpGen::LookupEnv), captures (LocalizeRec), the splitting at calls
\* (createContinuation), the lazy initializers (WalkDefineInits).
OutputAgrees ==
  /\ IsPrefix(out, Meanings[prog].out)
  /\ status \in {"done", "error"} =>
       out = Meanings[prog].out /\ (status = "error") = Meanings[prog].error

\* No operation reads a value its activation does not have ("getValue requires a
\* value in the table", "failure here could mean failure to capture in a
\* closure", OpEval.cpp:74-80), and none stores or passes a Binding where a value
\* belongs (the assertion of getValue, OpEval.cpp:85).
OperandsSound == status = "run" => ~Lost(Op) /\ ~Nested(Op)

\* Every program ends, with all its expressions evaluated or with an error: no
\* failed pattern is tried twice (patternFail), no continuation is lost, and what
\* a call needs is there when it is made.
Finishes == <>Stopped
=============================================================================
