------------------------------ MODULE GeoSimplify -----------------------------
(***************************************************************************)
(* The rewrite patterns that simplify an expanded function (SimplifyPass): *)
(* products become commutative products of coefficients, like terms of a   *)
(* sum are combined.                                                       *)
(***************************************************************************)
EXTENDS GeoExpand

\* Operands are sorted by the place of their definition, new ones last.
Place(h) == IF h.id = 0 THEN Len(order) + 1 ELSE SelectInSeq(order, LAMBDA i : i = h.id)
CompareBlockValues(x, y) ==
    Place(x) < Place(y) \/ (Place(x) = Place(y) /\ x.id # 0 /\ x.r < y.r)
SortFactors(hs) == SortedBy(hs, CompareBlockValues)

RequiresMetric(n) ==
    n.op = "iprod" /\ \A j \in {1, 2} : IsBlade(n.args[j].ty) /\ TyGrade(n.args[j].ty) > 0

\* Remove each pair of a scalar and its inverse, from the left.
RECURSIVE CancelFrom(_, _)
CancelFrom(hs, k) ==
    IF k > Len(hs) THEN hs
    ELSE LET inverted == IsOp(hs[k], "inverse") /\ IsGrade(Def(hs[k]).args[1].ty, 0)
             s   == Def(hs[k]).args[1]
             m   == SelectInSeq(hs, LAMBDA h : h = s)
             cut == {k, m}
         IN  IF inverted /\ m # 0
             THEN LET kept == Ordered(DOMAIN hs \ cut, <)
                  IN  CancelFrom([j \in DOMAIN kept |-> hs[kept[j]]],
                                 IF m < k THEN k - 1 ELSE k)
             ELSE CancelFrom(hs, k + 1)
CancelInverses(hs) == CancelFrom(hs, 1)

\* Flatten a product into a cmul of coefficients, a constant and a sign.
SimplifyMul(i) ==
    IF ~Is(i, IsMul) THEN Failure
    ELSE LET
    args     == Operands(i)
    mulArg(h) == Def(h).op \in IsMul
    flat     == Reduce(LAMBDA acc, h : acc \o (IF mulArg(h) THEN Def(h).args ELSE <<h>>),
                         <<>>, args)
    strip(h) == IF Def(h).op \in {"negate", "oswap", "cast"} THEN Def(h).args[1] ELSE h
    consts   == SelectSeq(flat, LAMBDA h : IsOp(h, "blade"))
    minus(h) == Def(h).op \in {"negate", "oswap"} \/ (IsOp(h, "blade") /\ Def(h).at[1] < 0)
    negates  == Len(SelectSeq(flat, minus))
    accum    == Reduce(LAMBDA q, h : QMul(q, QAbs(Def(h).at)), <<1, 1>>, consts)
    values   == SelectSeq(flat, LAMBDA h : ~IsOp(h, "blade"))
    factors  == CancelInverses([j \in DOMAIN values |-> strip(values[j])])
    scaled   == IF accum # <<1, 1>> \/ factors = <<>>
                THEN <<Const(ScalarT, accum)>> \o factors ELSE factors
    sorted   == SortFactors(scaled)
    \* The only use is a negate or oswap that is absorbed.
    user     == CHOOSE u \in Users(<<i, 1>>) : TRUE
    absorb   == UseCount(<<i, 1>>) = 1 /\ ops[user].op \in {"negate", "oswap"}
    at       == IF absorb THEN user ELSE i
    t        == T(at)
    product  == IF Len(sorted) = 1 /\ sorted[1].ty = t THEN sorted[1]
                ELSE IF factors = <<>> THEN Const(t, accum) ELSE NewT("cmul", t, sorted)
    odd      == Parity(negates + (IF absorb THEN 1 ELSE 0)) = 1
    settled  == /\ Is(i, {"cmul"})
                /\ \A h \in ToSet(args) :
                      ~mulArg(h) /\ Def(h).op \notin {"negate", "cast"} /\ ~IsUnitBlade(h)
                /\ Len(SelectSeq(args, LAMBDA h : IsOp(h, "blade"))) <= 1
                /\ CancelInverses(args) = args
    IN  IF \/ T(i) = Unknown \/ RequiresMetric(Def(Ref(<<i, 1>>))) \/ settled
           \/ \E h \in ToSet(args) : RequiresMetric(Def(h))
        THEN Failure
        ELSE IF t = ZeroT THEN ReplaceWithZero(at)
        ELSE Replace(at, IF odd THEN NewT("negate", t, <<product>>) ELSE product)

-----------------------------------------------------------------------------
\* A term of a sum: a constant times a product of values.

SumTerm(t, fs, c) == [ty |-> t, factors |-> fs, coef |-> c]
Plain(h) == IF IsOp(h, "negate") /\ Def(h).args[1].ty = h.ty THEN Def(h).args[1] ELSE h
\* Broken: the negation of a term is dropped.
IgnoresNegate(h) == <<1, 1>>
SignOf(h) == IF Plain(h) = h THEN <<1, 1>> ELSE <<-1, 1>>

GetSumTerm(h) ==
    LET V    == Plain(h)
        fs   == IF IsOp(V, "cmul") THEN Def(V).args ELSE <<V>>
        c    == Reduce(LAMBDA q, f :
                    QMul(QMul(q, SignOf(f)),
                         IF IsOp(Plain(f), "blade") THEN Def(Plain(f)).at ELSE <<1, 1>>),
                    SignOf(h), fs)
        rest == SelectSeq([j \in DOMAIN fs |-> Plain(fs[j])], LAMBDA f : ~IsOp(f, "blade"))
    IN  SumTerm(h.ty, SortFactors(rest), c)

CreateSumTerm(term) ==
    LET c  == QAbs(term.coef)
        fs == SortFactors((IF c = <<1, 1>> THEN <<>> ELSE <<Const(ScalarT, c)>>) \o term.factors)
        product == IF c = <<1, 1>> /\ Len(fs) = 1 /\ fs[1].ty = term.ty THEN fs[1]
                   ELSE NewT("cmul", term.ty, fs)
    IN  IF term.factors = <<>> THEN Const(term.ty, term.coef)
        ELSE IF term.coef[1] < 0 THEN NewT("negate", term.ty, <<product>>) ELSE product

\* Combine the terms of a sum that have the same factors, unless they cancel.
Like(args, terms, j) ==
    IF IsBlade(args[j].ty)
    THEN {k \in DOMAIN args : IsBlade(args[k].ty)
             /\ terms[k].ty = terms[j].ty /\ terms[k].factors = terms[j].factors}
    ELSE {j}
TotalOf(terms, like) == FoldSet(LAMBDA k, q : QAdd(terms[k].coef, q), <<0, 1>>, like)
Term(arg, term, like, total) ==
    IF Cardinality(like) = 1 THEN <<arg>>
    ELSE IF total[1] = 0 THEN <<>> ELSE <<CreateSumTerm([term EXCEPT !.coef = total])>>
Combine(args, terms) ==
    Concat([j \in DOMAIN args |->
        IF j # Min(Like(args, terms, j)) THEN <<>>
        ELSE Term(args[j], terms[j], Like(args, terms, j), TotalOf(terms, Like(args, terms, j)))])

\* The results of an expand are the value that was taken apart.
IsWhole(values) ==
    /\ values # <<>> /\ IsOp(values[1], "expand") /\ values[1].id # 0
    /\ values = [r \in DOMAIN Def(values[1]).ty |-> Ref(<<values[1].id, r>>)]
ReplaceSum(i, values, combined) ==
    IF IsWhole(values) THEN Replace(i, Def(values[1]).args[1])
    ELSE IF Len(values) = 1 /\ values[1].ty = T(i) THEN Replace(i, values[1])
    ELSE If(combined, Replace(i, Sum(values)))
CombineTerms(i, args, terms) ==
    ReplaceSum(i, Combine(args, terms),
               \/ Len(args) < Len(ops[i].args)
               \/ \E j \in DOMAIN args : Cardinality(Like(args, terms, j)) > 1)
CombineOf(i, args) == CombineTerms(i, args, Map(GetSumTerm, args))
SimplifySum(i) ==
    IF ~Is(i, {"sum"}) THEN Failure
    ELSE CombineOf(i, SelectSeq(Operands(i), LAMBDA h : h.ty # ZeroT))

=============================================================================
