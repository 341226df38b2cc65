------------------------------- MODULE GeoPasses ------------------------------
(***************************************************************************)
(* The passes over one function: ExpandFuncPass, which rewrites greedily   *)
(* with the expansion patterns and then with ExpandSum until neither       *)
(* changes anything, SimplifyPass, and the update of the result type of    *)
(* the function, after which the passes are run again (ExpandPass).        *)
(*                                                                         *)
(* The greedy rewriter and the elimination of common subexpressions belong *)
(* to MLIR. The rewriter keeps a worklist, a stack: it pops an operation,  *)
(* erases it when nothing uses it, else tries the patterns from the        *)
(* highest benefit, and pushes what the rewrite touched.                   *)
(***************************************************************************)
EXTENDS GeoFactor, GeoLower

CONSTANTS
    Programs,   \* the functions: a handle of the value returned, the declared
                \* result type, unknown when there is none, and the metric
    MaxRounds   \* how often the rewriter refills its worklist: 10

VARIABLES
    todo,       \* the worklist, its top last
    changed,    \* something was rewritten since the worklist was filled
    dirty,      \* something was rewritten in this round of the pass
    round,      \* how often the worklist was filled
    phase,      \* the patterns that are applied, or how the passes ended
    rule,       \* the pattern that was applied last
    want        \* what the function returned before the passes

vars == <<ops, order, metric, todo, changed, dirty, round, phase, rule, want>>

-----------------------------------------------------------------------------
\* The patterns of each phase from the highest benefit to the lowest.

Patterns ==
    [expand |-> <<"ZeroAbsorbToZero", "SimplifyInverse", "SimplifyNegate", "SimplifyDot",
                  "ExpandVersorVP", "ExpandVersorUnary", "ExpandVersorOperand", "ApplyMetric",
                  "ExpandLC", "ExpandGP", "ExpandGrade", "ExpandCastUnitary", "RemoveExpand",
                  "RemoveCast", "WidenCastArg", "RemoveConvert", "ExpandReverse",
                  "ExpandGradeInvo", "UpdateInferredTypes", "ConvertNarrowedReturn",
                  "ExpandInverse", "ExpandConvert", "ExpandVP", "Distribute", "DistributeVP">>,
     sum      |-> <<"ExpandSum">>,
     simplify |-> <<"ZeroAbsorbToZero", "SimplifyMul", "SimplifySum", "SimplifyInverse",
                  "SimplifyNegate", "SimplifyDot", "RemoveExpand", "WidenCastArg",
                  "RemoveConvert", "ConvertNarrowedReturn", "ExpandConvert">>,
     factor   |-> <<"SimplifyPolynomial", "FactorSum">>]

Try(p, i) ==
    CASE p = "ZeroAbsorbToZero"      -> ZeroAbsorbToZero(i)
      [] p = "SimplifyInverse"       -> SimplifyInverse(i)
      [] p = "SimplifyNegate"        -> SimplifyNegate(i)
      [] p = "SimplifyDot"           -> SimplifyDot(i)
      [] p = "ExpandVersorVP"        -> ExpandVersorVP(i)
      [] p = "ExpandVersorUnary"     -> ExpandVersorUnary(i)
      [] p = "ExpandVersorOperand"   -> ExpandVersorOperand(i)
      [] p = "ApplyMetric"           -> ApplyMetric(i)
      [] p = "ExpandLC"              -> ExpandLC(i)
      [] p = "ExpandGP"              -> ExpandGP(i)
      [] p = "ExpandGrade"           -> ExpandGrade(i)
      [] p = "ExpandCastUnitary"     -> ExpandCastUnitary(i)
      [] p = "RemoveExpand"          -> RemoveExpand(i)
      [] p = "RemoveCast"            -> RemoveCast(i)
      [] p = "WidenCastArg"          -> WidenCastArg(i)
      [] p = "RemoveConvert"         -> RemoveConvert(i)
      [] p = "ExpandReverse"         -> ExpandReverse(i)
      [] p = "ExpandGradeInvo"       -> ExpandGradeInvo(i)
      [] p = "UpdateInferredTypes"   -> UpdateInferredTypes(i)
      [] p = "ConvertNarrowedReturn" -> ConvertNarrowedReturn(i)
      [] p = "ExpandInverse"         -> ExpandInverse(i)
      [] p = "ExpandConvert"         -> ExpandConvert(i)
      [] p = "ExpandVP"              -> ExpandVP(i)
      [] p = "Distribute"            -> Distribute(i)
      [] p = "DistributeVP"          -> DistributeVP(i)
      [] p = "ExpandSum"             -> ExpandSum(i)
      [] p = "SimplifyMul"           -> SimplifyMul(i)
      [] p = "SimplifySum"           -> SimplifySum(i)
      [] p = "FactorSum"             -> FactorSum(i)
      [] p = "SimplifyPolynomial"    -> SimplifyPolynomial(i)

\* The first pattern that matches, and its edit.
NoMatch == [rule |-> "none", edit |-> Failure]
Matched(p, e, others) == IF e # Failure THEN [rule |-> p, edit |-> e] ELSE others
RECURSIVE FirstMatch(_, _)
FirstMatch(ps, i) ==
    IF ps = <<>> \/ ops[i].op = "arg" THEN NoMatch
    ELSE Matched(ps[1], Try(ps[1], i), FirstMatch(Tail(ps), i))

-----------------------------------------------------------------------------
\* The graph after an edit.

IndexOf(ord, i) == SelectInSeq(ord, LAMBDA k : k = i)

\* Insert the operations a handle stands for: before the operation at, but
\* an expand or factors right after the value it takes apart, and after the
\* arguments of the function. g.made are the new operations.
RECURSIVE Emit(_, _, _)
Emit(g, h, at) ==
    IF h.id # 0 THEN [g EXCEPT !.val = <<h.id, h.r>>]
    ELSE LET n    == h.new[1]
             sub  == Reduce(LAMBDA s, a :
                         LET e == Emit(s.g, a, at)
                         IN  [g |-> e, vals |-> Append(s.vals, e.val)],
                         [g |-> g, vals |-> <<>>], n.args)
             node == [n EXCEPT !.args = sub.vals]
             g1   == sub.g
             same == SelectSeq(g1.made, LAMBDA i : g1.ops[i] = node)
             id   == Max(DOMAIN g1.ops \cup {0}) + 1
             def  == sub.vals[1][1]
             args == {i \in DOMAIN g1.ops : g1.ops[i].op = "arg"}
             place == IF n.op \notin {"expand", "factors"} THEN IndexOf(g1.order, at)
                      ELSE IF def \in args THEN Cardinality(args) + 1
                      ELSE IndexOf(g1.order, def) + 1
         IN  IF same # <<>> THEN [g1 EXCEPT !.val = <<same[1], h.r>>]
             ELSE [ops   |-> g1.ops @@ (id :> node),
                   order |-> InsertAt(g1.order, place, id),
                   made  |-> Append(g1.made, id),
                   val   |-> <<id, h.r>>]

Graph(f, ord) == [ops |-> f, order |-> ord, made |-> <<>>, val |-> <<0, 0>>]
EmitAll(g, hs, at) ==
    Reduce(LAMBDA s, h : LET e == Emit(s.g, h, at)
                           IN  [g |-> e, vals |-> Append(s.vals, e.val)],
             [g |-> g, vals |-> <<>>], hs)

Substitute(f, i, vals) ==
    [k \in DOMAIN f |-> [f[k] EXCEPT !.args =
        [j \in DOMAIN @ |-> IF @[j][1] = i THEN vals[@[j][2]] ELSE @[j]]]]
Without(f, I) == [k \in DOMAIN f \ I |-> f[k]]
DropAll(s, I) == SelectSeq(s, LAMBDA k : k \notin I)

UsersIn(f, i) == {k \in DOMAIN f : \E v \in ToSet(f[k].args) : v[1] = i}
\* In the order they are pushed: the first user in the block ends on top.
UserSeq(f, ord, i) == Reverse(SelectSeq(ord, LAMBDA k : k \in UsersIn(f, i)))

\* The definitions of the operands of an erased operation that have at most
\* one user left.
Freed(f, i) ==
    SelectSeq([j \in DOMAIN f[i].args |-> f[i].args[j][1]],
              LAMBDA d : Cardinality(UsersIn(f, d) \ {i}) <= 1)

\* Pushing what is on the worklist already leaves it where it is.
Push(stack, is) ==
    Reduce(LAMBDA s, i : IF i \in ToSet(s) THEN s ELSE Append(s, i), stack, is)

IsDead(f, i) == f[i].op \notin {"arg", "return"} /\ UsersIn(f, i) = {}

\* The assertions that guard a replacement: the new types are narrowings of
\* the old ones, and a sum whose type is known does not grow.
EditIsSafe(e) ==
    e.do = "replace" =>
        /\ Len(e.hs) = Len(ops[e.at].ty)
        /\ \A r \in DOMAIN e.hs : IsValidNarrowing(ops[e.at].ty[r], e.hs[r].ty)
        /\ (ops[e.at].op = "sum" /\ T(e.at) # Unknown /\ e.hs[1].id = 0
                /\ IsOp(e.hs[1], "sum"))
               => Len(Def(e.hs[1]).args) <= Len(ops[e.at].args)

-----------------------------------------------------------------------------
\* Steps of the rewriter.

\* The topmost operation of the worklist that is dead or matches a pattern.
HitAt(k, match, below) ==
    IF IsDead(ops, todo[k]) \/ match # NoMatch THEN [at |-> k, match |-> match] ELSE below
RECURSIVE TopHit(_)
TopHit(k) ==
    IF k = 0 THEN [at |-> 0, match |-> NoMatch]
    ELSE HitAt(k, FirstMatch(Patterns[phase], todo[k]), TopHit(k - 1))

EraseDead(i, stack) ==
    /\ ops' = Without(ops, {i})
    /\ order' = DropAll(order, {i})
    /\ todo' = Push(stack, Freed(ops, i))
    /\ rule' = "erase"
    /\ UNCHANGED phase

Abort == phase' = "aborted" /\ todo' = <<>> /\ UNCHANGED <<ops, order>>

\* Apply an edit, E being the graph with its new operations and their values.
Apply(e, i, E, g, stack) ==
    /\ UNCHANGED phase
    /\ CASE e.do = "replace" ->
            LET f == Substitute(g.ops, e.at, E.vals)
            IN  /\ ops' = Without(f, {e.at})
                /\ order' = DropAll(g.order, {e.at})
                /\ todo' = Push(DropAll(Push(Push(stack, g.made), UserSeq(g.ops, g.order, e.at)),
                                        {e.at}),
                                Freed(f, e.at))
         [] e.do = "operands" ->
            /\ ops' = [g.ops EXCEPT ![i].args = E.vals]
            /\ order' = g.order
            /\ todo' = Push(Push(stack, g.made), <<i>>)
         [] e.do = "type" ->
            /\ ops' = [ops EXCEPT ![i].ty = <<e.ty>>]
            /\ order' = order
            /\ todo' = Push(stack, <<i>> \o UserSeq(ops, order, i))
Rewrite(i, match, stack) ==
    /\ rule' = match.rule
    /\ \E e \in match.edit :
          IF ~EditIsSafe(e) THEN Abort
          ELSE \E E \in {EmitAll(Graph(ops, order), e.hs, i)} : Apply(e, i, E, E.g, stack)

Running == phase \in DOMAIN Patterns

Visit(hit) ==
    /\ hit.at > 0
    /\ LET i     == todo[hit.at]
           stack == SubSeq(todo, 1, hit.at - 1)
       IN  IF IsDead(ops, i) THEN EraseDead(i, stack) ELSE Rewrite(i, hit.match, stack)
    /\ changed' = TRUE
    /\ dirty' = TRUE
    /\ UNCHANGED <<metric, round, want>>

\* The worklist is empty: fill it again if something changed.
Refill(hit) ==
    /\ hit.at = 0
    /\ changed
    /\ IF round < MaxRounds
       THEN /\ todo' = Reverse(order)
            /\ round' = round + 1
            /\ UNCHANGED phase
       ELSE /\ phase' = "failed"        \* applyPatternsGreedily fails
            /\ UNCHANGED <<todo, round>>
    /\ changed' = FALSE
    /\ UNCHANGED <<ops, order, metric, dirty, rule, want>>

\* eliminateCommonSubExpressions: one pass over the block.
Cse ==
    LET visit(s, i) ==
            LET n    == s.ops[i]
                same == {k \in s.seen : s.ops[k] = n}
                k    == CHOOSE x \in same : TRUE
            IN  IF n.op \in {"arg", "return"} THEN s
                ELSE IF IsDead(s.ops, i) THEN [s EXCEPT !.gone = @ \cup {i}]
                ELSE IF same = {} THEN [s EXCEPT !.seen = @ \cup {i}]
                ELSE [s EXCEPT !.gone = @ \cup {i},
                               !.ops = Substitute(s.ops, i,
                                           [r \in DOMAIN n.ty |-> <<k, r>>])]
    IN  Reduce(visit, [ops |-> ops, seen |-> {}, gone |-> {}], order)

Start(p, ord) ==
    /\ phase' = p
    /\ todo' = Reverse(ord)
    /\ changed' = FALSE
    /\ round' = 1

\* One application of patterns is over: eliminate common subexpressions and
\* go on with the next patterns. Expansion is repeated while anything changes,
\* simplification while the elimination does.
NextPhase(hit) ==
    /\ hit.at = 0
    /\ ~changed
    /\ LET cse   == Cse
           run   == phase # "expand" \/ dirty
           fewer == run /\ cse.gone # {}
           ord   == IF run THEN DropAll(order, cse.gone) ELSE order
           again == dirty \/ fewer
       IN  /\ ops' = IF run THEN Without(cse.ops, cse.gone) ELSE ops
           /\ order' = ord
           /\ CASE phase = "expand" -> Start("sum", ord) /\ dirty' = again
                [] phase = "sum"    -> Start(IF again THEN "expand" ELSE "simplify", ord)
                                       /\ dirty' = FALSE
                [] phase = "simplify" /\ fewer  -> Start("simplify", ord) /\ dirty' = FALSE
                [] phase = "factor" \/ (phase = "simplify" /\ ~fewer) ->
                       /\ phase' = IF phase = "factor" THEN "products" ELSE "return"
                       /\ UNCHANGED <<todo, changed, dirty, round>>
    /\ UNCHANGED <<metric, rule, want>>

\* Broken: the passes are run again whenever the type is known.
RepeatsForKnownType ==
    /\ phase = "return"
    /\ LET ret == order[Len(order)]
       IN  IF A(ret, 1).ty # Unknown
           THEN /\ ops' = [ops EXCEPT ![ret].ty = <<A(ret, 1).ty>>]
                /\ Start("expand", order)
                /\ dirty' = FALSE
           ELSE /\ Start("factor", order)
                /\ UNCHANGED <<ops, dirty>>
    /\ UNCHANGED <<order, metric, rule, want>>

\* Give the function the type of the value it returns, and run the passes
\* again when that changed it.
UpdateFuncReturnType ==
    /\ phase = "return"
    /\ LET ret == order[Len(order)]
       IN  IF T(ret) = Unknown /\ A(ret, 1).ty # Unknown
           THEN /\ ops' = [ops EXCEPT ![ret].ty = <<A(ret, 1).ty>>]
                /\ Start("expand", order)
                /\ dirty' = FALSE
           ELSE /\ Start("factor", order)
                /\ UNCHANGED <<ops, dirty>>
    /\ UNCHANGED <<order, metric, rule, want>>

\* The end of FactorPass: factorProducts.
FactorProducts ==
    /\ phase = "products"
    /\ IF SharedPairs # {}
       THEN FactorPair /\ rule' = "FactorPair" /\ UNCHANGED phase
       ELSE phase' = "done" /\ UNCHANGED <<ops, order, rule>>
    /\ UNCHANGED <<metric, todo, changed, dirty, round, want>>

-----------------------------------------------------------------------------
\* The function as it is built, its arguments first.

Returned(f, ord) == LET val == Meaning(f, ord)[ord[Len(ord)]][1]
                    IN  Reduce(MVGeom, val[1], Tail(val))

RECURSIVE ArgsOf(_)
ArgsOf(h) == LET n == h.new[1]
             IN  IF n.op = "arg" THEN <<h>>
                 ELSE Reduce(LAMBDA acc, a : acc \o ArgsOf(a), <<>>, n.args)

Build(prog) ==
    LET ret  == Make("return", prog.ty, <<prog.value>>, NoAt)
        tail == Node("return", <<prog.ty>>, <<>>, NoAt)
        g    == EmitAll(Graph(1 :> tail, <<1>>),
                        Append(ArgsOf(prog.value), prog.value), 1)
    IN  [ops   |-> [g.g.ops EXCEPT ![1].args = <<g.vals[Len(g.vals)]>>],
         order |-> g.g.order]

Init ==
    /\ \E prog \in Programs : \E g \in {Build(prog)} :
          /\ ops = g.ops
          /\ order = g.order
          /\ metric = prog.metric
          /\ todo = Reverse(g.order)
          /\ want = Returned(g.ops, g.order)
    /\ changed = FALSE
    /\ dirty = FALSE
    /\ round = 1
    /\ phase = "expand"
    /\ rule = "none"

Next ==
    \/ Running /\ \E hit \in {TopHit(Len(todo))} : Visit(hit) \/ Refill(hit) \/ NextPhase(hit)
    \/ UpdateFuncReturnType
    \/ FactorProducts

\* The passes run until they end: weak fairness of Next, which is enabled as
\* long as they have not ended.
Ended == phase \in {"done", "failed", "aborted"}
Fairness == []<>Ended \/ []<><<Next>>_vars
Spec == Init /\ [][Next]_vars /\ Fairness

-----------------------------------------------------------------------------
\* Every rewrite keeps what the function returns: after each step of each
\* pass (expansion, simplification, factoring, elimination of common
\* subexpressions) the graph means the multivector it meant when it was built.
ValueKept == Returned(ops, order) = want

\* The type of a value is always true of it: the blades a value has are among
\* those of its type, a versor has as many factors as its type, and a value of
\* a unitary type has norm 1. Patterns narrow types one operation at a time
\* (UpdateInferredTypes) while others already rely on them.
TypesSound ==
    LET env == Meaning(ops, order)
    IN  \A i \in DOMAIN ops : \A r \in DOMAIN ops[i].ty : HasType(env[i][r], ops[i].ty[r])

\* No sequence of rewrites trips the assertions of replaceOp and
\* replaceOpWithNewOp: a value is only replaced by one whose type narrows its
\* own, and a sum of a known type does not grow.
NarrowingValid == phase # "aborted"

\* When the passes are done and the metric is known, every operation left is
\* one that LowerPass converts, and no assertion of its patterns is tripped: no
\* product, versor or grade is stuck because a type stayed unknown.
ExpandedAtEnd == phase = "done" /\ metric = "cga" => IsLowerable

\* The arithmetic the function is lowered to, from the types alone, computes
\* the coefficients of the multivector the function was written to return.
LoweredValue ==
    phase = "done" /\ IsLowerable =>
        ValueOf(Lowered, OperandTypes(ops[order[Len(order)]])[1]) = want

\* The passes end: no two patterns undo each other for ever, and the rewriter
\* never gives up at its limit of rounds, also when the metric is unknown.
Compiles == <>(phase = "done")
=============================================================================
